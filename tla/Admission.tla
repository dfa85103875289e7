------------------------------ MODULE Admission ------------------------------
(***************************************************************************)
(* What invitations promise, without dates, roles, addresses or columns:   *)
(* an offer is open and then closed, for good.  Whoever finds it open may  *)
(* enter, once for each time it was found, and only the organisation it    *)
(* was made for.  Entering closes it.  Into a house that stands nobody     *)
(* enters in any other way, and nobody twice; who builds one is its first. *)
(***************************************************************************)
CONSTANTS Offers, People, Houses, Doors  \* a door: one attempt at a time

VARIABLES
  built,   \* the houses that stand
  made,    \* offer -> the house it opens, for the offers made so far
  open,    \* the offers still open
  at,      \* door -> {} or the one pair of an offer found open and its finder
  inside   \* who is in which house

vars == <<built, made, open, at, inside>>

TypeOK ==
  /\ built \subseteq Houses
  /\ DOMAIN made \subseteq Offers /\ made \in [DOMAIN made -> built]
  /\ open \subseteq DOMAIN made
  /\ at \in [Doors -> SUBSET ((DOMAIN made) \X People)]
  /\ inside \subseteq People \X built

Init == /\ built \subseteq Houses
        /\ made = [o \in {} |-> o] /\ open = {}
        /\ at = [d \in Doors |-> {}] /\ inside = {}

Build(h, u) ==
  /\ h \notin built
  /\ built' = built \cup {h} /\ inside' = inside \cup {<<u, h>>}
  /\ UNCHANGED <<made, open, at>>

Make(o, h) ==
  /\ h \in built
  /\ o \notin DOMAIN made
  /\ made' = [x \in DOMAIN made \cup {o} |-> IF x = o THEN h ELSE made[x]]
  /\ open' = open \cup {o}
  /\ UNCHANGED <<built, at, inside>>

Find(d, o, u) ==
  /\ o \in open /\ at[d] = {} /\ <<u, made[o]>> \notin inside
  /\ at' = [at EXCEPT ![d] = {<<o, u>>}]
  /\ UNCHANGED <<built, made, open, inside>>

Enter(d, o, u) ==
  /\ at[d] = {<<o, u>>} /\ <<u, made[o]>> \notin inside
  /\ inside' = inside \cup {<<u, made[o]>>}
  /\ open' = open \ {o}
  /\ at' = [at EXCEPT ![d] = {}]
  /\ UNCHANGED <<built, made>>

GiveUp(d) == /\ at' = [at EXCEPT ![d] = {}]
             /\ UNCHANGED <<built, made, open, inside>>

\* offers are withdrawn, or their day has passed
Close == /\ open' \in SUBSET open
         /\ UNCHANGED <<built, made, at, inside>>

Leave == /\ inside' \in SUBSET inside
         /\ UNCHANGED <<built, made, open, at>>

Next ==
  \/ \E h \in Houses, u \in People : Build(h, u)
  \/ \E o \in Offers, h \in Houses : Make(o, h)
  \/ \E d \in Doors, o \in Offers, u \in People : Find(d, o, u) \/ Enter(d, o, u)
  \/ \E d \in Doors : GiveUp(d)
  \/ Close \/ Leave

Spec == Init /\ [][Next]_vars
=============================================================================
