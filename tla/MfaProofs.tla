------------------------------- MODULE MfaProofs -------------------------------
(***************************************************************************)
(* What holds of the second factor for any number of requests, of setups   *)
(* and of backup codes in each.                                            *)
(***************************************************************************)
EXTENDS Mfa, TLAPS

(* The inductive invariant. *)

\* As long as requests came one at a time, the one in flight still finds what
\* it had read: its code is good, the list is the one it took it off, and the
\* flag is as it was.
Solo ==
  alone => \A p \in Procs : req[p] # Idle =>
    /\ \A q \in Procs : q # p => req[q] = Idle
    /\ Accepts(req[p].code) /\ req[p].left = Left(req[p].code)
    /\ req[p].on = enabled

\* A request in flight came with a code of some setup.
Coded ==
  \A p \in Procs : req[p] # Idle =>
    req[p].kind \in Kinds /\ req[p].code \in Backup \cup App

IInv == TypeOK /\ Coded /\ Solo /\ Sequential

-------------------------------------------------------------------------------
(* Type correctness.                                                       *)

LEMMA IdleType ==
  /\ Idle \in Req /\ Idle.kind = "idle"
  /\ Idle.code = <<0, 0>> /\ Idle.left = {} /\ Idle.code \notin Backup
BY DEF Idle, Req, Backup, Setups

\* A request that ends leaves the others alone.
LEMMA FinishFacts ==
  ASSUME TypeOK, NEW p \in Procs, Finish(p)
  PROVE  /\ req' \in [Procs -> Req] /\ req'[p] = Idle
         /\ \A q \in Procs : q # p => req'[q] = req[q]
         /\ \A q \in Procs : /\ req'[q].code \notin req'[q].left
                             /\ \A c \in req'[q].left : c[1] <= gen
<1>1. /\ req' \in [Procs -> Req] /\ req'[p] = Idle
      /\ \A q \in Procs : q # p => req'[q] = req[q]
  BY IdleType DEF Finish, TypeOK
<1>2. \A q \in Procs : req'[q] = Idle \/ req'[q] = req[q]
  BY <1>1
<1>. QED
  BY <1>1, <1>2, IdleType DEF TypeOK

\* What an accepted code leaves in the history.
LEMMA AnswerFacts ==
  ASSUME TypeOK, NEW p \in Procs, Answer(p), req[p].code \in Backup \cup App
  PROVE  /\ uses' \in [Backup -> 0 .. MaxUses] /\ confirmed' \subseteq Setups
         /\ \A c \in Backup :
              IF c = req[p].code THEN uses'[c] # 0 ELSE uses'[c] = uses[c]
<1>1. CASE req[p].code \in Backup
  <2>1. PICK c \in Backup : c = req[p].code
    BY <1>1
  <2>2. /\ uses' = [uses EXCEPT ![c] = IF @ = MaxUses THEN @ ELSE @ + 1]
        /\ UNCHANGED confirmed
    BY <2>1 DEF Answer, Counted
  <2>3. uses[c] \in 0 .. MaxUses /\ MaxUses \in Nat \ {0}
    BY CountAssumption DEF TypeOK
  <2>4. (IF uses[c] = MaxUses THEN uses[c] ELSE uses[c] + 1) \in 1 .. MaxUses
    BY <2>3
  <2>. QED
    BY <2>1, <2>2, <2>4 DEF TypeOK
<1>2. CASE req[p].code \notin Backup
  <2>1. req[p].code[1] \in Setups
    BY <1>2 DEF App
  <2>. QED
    BY <1>2, <2>1 DEF Answer, TypeOK
<1>. QED
  BY <1>1, <1>2

LEMMA BeginFacts ==
  ASSUME TypeOK, NEW p \in Procs, NEW kind \in Kinds, NEW c \in Backup \cup App,
         BeginVerify(p, kind, c)
  PROVE  /\ req[p] = Idle /\ Accepts(c)
         /\ req' \in [Procs -> Req] /\ req'[p].kind = kind /\ req'[p].code = c
         /\ req'[p].left = codes \ {c} /\ req'[p].on = enabled
         /\ \A q \in Procs : q # p => req'[q] = req[q]
         /\ UNCHANGED <<gen, secret, codes, enabled, challenged, uses,
                        confirmed>>
         /\ alone' = (alone /\ \A q \in Procs : req[q] = Idle)
<1>. DEFINE r == [kind |-> kind, code |-> c, left |-> codes \ {c},
               on |-> enabled]
<1>1. codes \ {c} \in SUBSET Backup /\ enabled \in BOOLEAN
  BY DEF TypeOK
<1>2. /\ r \in Req /\ r.kind = kind /\ r.code = c /\ r.left = codes \ {c}
      /\ r.on = enabled
  BY <1>1 DEF Req
<1>3. req' = [req EXCEPT ![p] = r]
  BY DEF BeginVerify, Left
<1>. HIDE DEF r
<1>. QED
  BY <1>2, <1>3 DEF BeginVerify, Begins, TypeOK

\* How a request ends: it answers or is cut short, and its commit writes the
\* columns it had changed.
Ends(p) == EndCheck(p) \/ Commit(p) \/ CommitDisable(p) \/ Abort(p)

LEMMA EndFacts ==
  ASSUME TypeOK, Coded, NEW p \in Procs, Ends(p)
  PROVE  /\ req[p] # Idle /\ Finish(p) /\ UNCHANGED <<gen, challenged, alone>>
         /\ req[p].kind \in Kinds /\ req[p].code \in Backup \cup App
         /\ \/ Abort(p) /\ UNCHANGED <<secret, codes, enabled, uses, confirmed>>
            \/ /\ EndCheck(p) /\ Answer(p) /\ UNCHANGED <<secret, codes, enabled>>
            \/ /\ Commit(p) /\ Answer(p) /\ UNCHANGED secret
               /\ codes' = IF req[p].code \in Backup THEN req[p].left ELSE codes
               /\ enabled' \in BOOLEAN
            \/ /\ CommitDisable(p) /\ Answer(p)
               /\ secret' = 0 /\ codes' = {}
               /\ enabled' = IF req[p].on THEN FALSE ELSE enabled
<1>1. req[p] # Idle
  BY IdleType DEF Ends, EndCheck, Commit, CommitDisable, Abort
<1>2. req[p].on \in BOOLEAN /\ enabled \in BOOLEAN
  BY DEF TypeOK, Req
<1>3. CommitDisable(p) => enabled' = IF req[p].on THEN FALSE ELSE enabled
  BY <1>2 DEF CommitDisable, WriteEnabled
<1>4. Commit(p) => enabled' \in BOOLEAN
  <2>1. ASSUME NEW b \in BOOLEAN, WriteEnabled(p, b) PROVE enabled' \in BOOLEAN
    BY <1>2, <2>1 DEF WriteEnabled
  <2>2. (req[p].on \/ req[p].kind = "enable") \in BOOLEAN
    OBVIOUS
  <2>. QED
    BY <2>1, <2>2 DEF Commit
<1>5. CASE Commit(p)
  BY <1>1, <1>4, <1>5 DEF Coded, Commit, WriteCodes
<1>6. CASE CommitDisable(p)
  BY <1>1, <1>3, <1>6 DEF Coded, CommitDisable
<1>7. CASE EndCheck(p) \/ Abort(p)
  BY <1>1, <1>7 DEF Coded, EndCheck, Abort
<1>. QED
  BY <1>5, <1>6, <1>7 DEF Ends

LEMMA Steps ==
  ASSUME [Next]_vars
  PROVE  \/ Setup \/ Challenge \/ ChallengeExpires
         \/ \E p \in Procs : \/ \E kind \in Kinds, c \in Backup \cup App :
                                  BeginVerify(p, kind, c)
                             \/ Ends(p)
         \/ UNCHANGED vars
BY DEF Next, Ends

LEMMA TypeStep == IInv /\ [Next]_vars => TypeOK'
<1>. SUFFICES ASSUME IInv, [Next]_vars PROVE TypeOK'
  OBVIOUS
<1>0. TypeOK /\ Coded
  BY DEF IInv
<1>1. CASE Setup
  <2>1. gen + 1 \in Setups /\ gen \in Nat /\ gen + 1 \in Nat
    BY <1>0, <1>1, CountAssumption DEF Setup, TypeOK, Setups
  <2>2. codes' \subseteq {c \in Backup : c[1] <= gen + 1}
    BY <1>1, <2>1 DEF Setup, NewCodes, Backup
  <2>3. \A p \in Procs : \A c \in req[p].left : c[1] <= gen + 1
    <3>1. ASSUME NEW p \in Procs, NEW c \in req[p].left PROVE c[1] <= gen + 1
      <4>1. c \in Backup /\ c[1] <= gen
        BY <1>0, <3>1 DEF TypeOK, Req
      <4>2. c[1] \in Nat
        BY <4>1, CountAssumption DEF Backup, Setups
      <4>. QED
        BY <2>1, <4>1, <4>2
    <3>. QED
      BY <3>1
  <2>. QED
    BY <1>0, <1>1, <2>1, <2>2, <2>3 DEF Setup, Begins, TypeOK, Setups
<1>2. CASE Challenge \/ ChallengeExpires \/ UNCHANGED vars
  BY <1>0, <1>2 DEF Challenge, ChallengeExpires, vars, TypeOK
<1>3. ASSUME NEW p \in Procs, NEW kind \in Kinds, NEW c \in Backup \cup App,
             BeginVerify(p, kind, c)
      PROVE  TypeOK'
  <2>1. /\ req' \in [Procs -> Req]
        /\ req'[p].code = c /\ req'[p].left = codes \ {c}
        /\ \A q \in Procs : q # p => req'[q] = req[q]
        /\ UNCHANGED <<gen, secret, codes, enabled, challenged, uses, confirmed>>
        /\ alone' \in BOOLEAN
    BY <1>0, <1>3, BeginFacts
  <2>2. \A q \in Procs : /\ req'[q].code \notin req'[q].left
                         /\ \A d \in req'[q].left : d[1] <= gen
    BY <1>0, <2>1 DEF TypeOK
  <2>. QED
    BY <1>0, <2>1, <2>2 DEF TypeOK
<1>4. ASSUME NEW p \in Procs, Ends(p) PROVE TypeOK'
  <2>1. Finish(p) /\ UNCHANGED <<gen, challenged, alone>>
    BY <1>0, <1>4, EndFacts
  <2>2. /\ req' \in [Procs -> Req]
        /\ \A q \in Procs : /\ req'[q].code \notin req'[q].left
                            /\ \A c \in req'[q].left : c[1] <= gen
    BY <1>0, <2>1, FinishFacts
  <2>3. uses' \in [Backup -> 0 .. MaxUses] /\ confirmed' \subseteq Setups
    BY <1>0, <1>4, EndFacts, AnswerFacts DEF TypeOK
  <2>4. req[p].left \subseteq {c \in Backup : c[1] <= gen}
    BY <1>0 DEF TypeOK, Req
  <2>5. /\ secret' \in {secret, 0}
        /\ enabled' \in BOOLEAN
        /\ codes' \in {codes, req[p].left, {}}
    BY <1>0, <1>4, EndFacts DEF TypeOK
  <2>6. /\ secret' \in 0 .. gen /\ enabled' \in BOOLEAN
        /\ codes' \subseteq {c \in Backup : c[1] <= gen}
    <3>1. gen \in Nat /\ secret \in 0 .. gen
      BY <1>0, CountAssumption DEF TypeOK
    <3>2. secret' \in 0 .. gen
      BY <2>5, <3>1
    <3>3. enabled' \in BOOLEAN
      BY <1>0, <2>5 DEF TypeOK
    <3>4. codes' \subseteq {c \in Backup : c[1] <= gen}
      BY <1>0, <2>4, <2>5 DEF TypeOK
    <3>. QED
      BY <3>2, <3>3, <3>4
  <2>. QED
    BY <1>0, <2>1, <2>2, <2>3, <2>6 DEF TypeOK
<1>. QED
  BY <1>1, <1>2, <1>3, <1>4, Steps

-------------------------------------------------------------------------------
(* Requests that come one at a time.                                       *)

LEMMA CodedStep == IInv /\ [Next]_vars => Coded'
<1>. SUFFICES ASSUME IInv, [Next]_vars PROVE Coded'
  OBVIOUS
<1>0. TypeOK /\ Coded
  BY DEF IInv
<1>1. ASSUME NEW p \in Procs, NEW kind \in Kinds, NEW c \in Backup \cup App,
             BeginVerify(p, kind, c)
      PROVE  Coded'
  BY <1>0, <1>1, BeginFacts DEF Coded
<1>2. ASSUME NEW p \in Procs, Ends(p) PROVE Coded'
  <2>1. \A q \in Procs : req'[q] = Idle \/ req'[q] = req[q]
    BY <1>0, <1>2, EndFacts, FinishFacts
  <2>. QED
    BY <1>0, <2>1 DEF Coded
<1>. QED
  BY <1>0, <1>1, <1>2, Steps
  DEF Setup, Challenge, ChallengeExpires, vars, Coded

LEMMA SoloStep == IInv /\ [Next]_vars => Solo'
<1>. SUFFICES ASSUME IInv, [Next]_vars, alone'
              PROVE  \A p \in Procs : req'[p] # Idle =>
                       /\ \A q \in Procs : q # p => req'[q] = Idle
                       /\ secret' # 0
                       /\ \/ req'[p].code = <<secret', 0>>
                          \/ req'[p].code \in codes'
                       /\ req'[p].left = codes' \ {req'[p].code}
                       /\ req'[p].on = enabled'
  BY DEF Solo, Left, Accepts
<1>0. /\ TypeOK /\ Coded
      /\ alone => \A p \in Procs : req[p] # Idle =>
           /\ \A q \in Procs : q # p => req[q] = Idle
           /\ secret # 0
           /\ req[p].code = <<secret, 0>> \/ req[p].code \in codes
           /\ req[p].left = codes \ {req[p].code}
           /\ req[p].on = enabled
  BY DEF IInv, Solo, Left, Accepts
<1>1. CASE Setup
  BY <1>1 DEF Setup, Begins
<1>2. CASE Challenge \/ ChallengeExpires \/ UNCHANGED vars
  <2>1. UNCHANGED <<req, secret, codes, enabled>> /\ alone
    BY <1>2 DEF Challenge, ChallengeExpires, vars
  <2>. QED
    BY <1>0, <2>1
<1>3. ASSUME NEW p \in Procs, NEW kind \in Kinds, NEW c \in Backup \cup App,
             BeginVerify(p, kind, c)
      PROVE  /\ \A q \in Procs : q # p => req'[q] = Idle
             /\ secret' # 0
             /\ req'[p].code = <<secret', 0>> \/ req'[p].code \in codes'
             /\ req'[p].left = codes' \ {req'[p].code}
             /\ req'[p].on = enabled'
  <2>1. /\ Accepts(c) /\ UNCHANGED <<secret, codes, enabled>>
        /\ req'[p].code = c /\ req'[p].left = codes \ {c}
        /\ req'[p].on = enabled
        /\ \A q \in Procs : q # p => req'[q] = req[q]
        /\ \A q \in Procs : req[q] = Idle
    BY <1>0, <1>3, BeginFacts
  <2>. QED
    BY <2>1 DEF Accepts
<1>4. ASSUME NEW q \in Procs, Ends(q) PROVE \A p \in Procs : req'[p] = Idle
  <2>1. /\ alone /\ req[q] # Idle /\ req'[q] = Idle
        /\ \A k \in Procs : k # q => req'[k] = req[k]
    BY <1>0, <1>4, EndFacts, FinishFacts
  <2>. QED
    BY <1>0, <2>1
<1>. QED
  BY <1>1, <1>2, <1>3, <1>4, Steps

LEMMA SequentialStep == IInv /\ [Next]_vars => Sequential'
<1>. SUFFICES ASSUME IInv, [Next]_vars, alone'
              PROVE  EnabledHasSecret' /\ UnusedCodeWorks'
  BY DEF Sequential
<1>0. TypeOK /\ Coded /\ Solo
  BY DEF IInv
<1>a. alone
  <2>1. ASSUME NEW q \in Procs, Ends(q) PROVE alone
    BY <1>0, <2>1, EndFacts
  <2>. QED
    BY <2>1, Steps
    DEF Setup, Challenge, ChallengeExpires, vars, BeginVerify, Begins
<1>b. EnabledHasSecret /\ UnusedCodeWorks
  BY <1>a DEF IInv, Sequential
<1>1. CASE Setup
  <2>1. /\ gen \in Nat /\ secret' = gen + 1
        /\ codes' = {gen + 1} \X (1 .. Count)
    BY <1>0, <1>1, CountAssumption DEF Setup, NewCodes, TypeOK
  <2>2. EnabledHasSecret'
    BY <2>1 DEF EnabledHasSecret
  <2>3. \A c \in Backup : c[1] = gen + 1 => c \in codes'
    BY <2>1 DEF Backup
  <2>. QED
    BY <2>1, <2>2, <2>3 DEF UnusedCodeWorks
<1>2. CASE Challenge \/ ChallengeExpires \/ UNCHANGED vars
  <2>1. UNCHANGED <<enabled, secret, codes, uses, req>>
    BY <1>2 DEF Challenge, ChallengeExpires, vars
  <2>. QED
    BY <1>b, <2>1 DEF EnabledHasSecret, UnusedCodeWorks
<1>3. ASSUME NEW p \in Procs, NEW kind \in Kinds, NEW c \in Backup \cup App,
             BeginVerify(p, kind, c)
      PROVE  EnabledHasSecret' /\ UnusedCodeWorks'
  <2>1. /\ req[p] = Idle /\ \A q \in Procs : q # p => req'[q] = req[q]
        /\ UNCHANGED <<enabled, secret, codes, uses>>
    BY <1>0, <1>3, BeginFacts
  <2>2. \A d \in Backup : (\A q \in Procs : req'[q].code # d) =>
                            \A q \in Procs : req[q].code # d
    BY <2>1, IdleType
  <2>. QED
    BY <1>b, <2>1, <2>2 DEF EnabledHasSecret, UnusedCodeWorks
<1>4. ASSUME NEW p \in Procs, Ends(p)
      PROVE  EnabledHasSecret' /\ UnusedCodeWorks'
  <2>1. /\ req[p] # Idle /\ req[p].code \in Backup \cup App
        /\ Accepts(req[p].code) /\ req[p].left = codes \ {req[p].code}
        /\ req[p].on = enabled
        /\ \A q \in Procs : q # p => req'[q] = req[q]
    BY <1>0, <1>a, <1>4, EndFacts, FinishFacts DEF Solo, Left
  <2>2. EnabledHasSecret'
    BY <1>0, <1>b, <1>4, <2>1, EndFacts DEF EnabledHasSecret, Accepts
  <2>3. ASSUME NEW c \in Backup, c[1] = secret', uses'[c] = 0
        PROVE  c \in codes'
    <3>0. c # <<secret, 0>> /\ c[1] # 0
      BY CountAssumption DEF Backup, Setups
    <3>1. CASE CommitDisable(p)
      BY <2>3, <3>0, <3>1 DEF CommitDisable
    <3>2. CASE ~CommitDisable(p) /\ c = req[p].code
      <4>1. Abort(p)
        BY <1>0, <1>4, <2>3, <3>2, EndFacts, AnswerFacts
      <4>. QED
        BY <2>1, <3>0, <3>2, <4>1 DEF Abort, Accepts
    <3>3. CASE ~CommitDisable(p) /\ c # req[p].code
      <4>1. c[1] = secret
        BY <1>0, <1>4, <2>3, <3>3, EndFacts
      <4>2. uses[c] = 0
        BY <1>0, <1>4, <2>3, <3>3, EndFacts, AnswerFacts
      <4>3. \A q \in Procs : req[q].code # c
        BY <1>0, <1>a, <2>1, <3>3, IdleType DEF Solo
      <4>4. c \in codes
        BY <1>b, <4>1, <4>2, <4>3 DEF UnusedCodeWorks
      <4>. QED
        BY <1>0, <1>4, <2>1, <3>3, <4>4, EndFacts
    <3>. QED
      BY <3>1, <3>2, <3>3
  <2>. QED
    BY <2>2, <2>3 DEF UnusedCodeWorks
<1>. QED
  BY <1>1, <1>2, <1>3, <1>4, Steps

LEMMA InvInit == Init => IInv
<1>. SUFFICES ASSUME Init PROVE IInv
  OBVIOUS
<1>1. \A p \in Procs : req[p] = Idle
  BY DEF Init
<1>2. TypeOK
  <2>1. req \in [Procs -> Req]
    BY IdleType DEF Init
  <2>2. \A p \in Procs : /\ req[p].code \notin req[p].left
                         /\ \A c \in req[p].left : c[1] <= gen
    BY <1>1, IdleType
  <2>3. gen \in 0 .. MaxSetups /\ secret \in 0 .. gen
    BY CountAssumption DEF Init
  <2>4. uses \in [Backup -> 0 .. MaxUses]
    BY CountAssumption DEF Init
  <2>. QED
    BY <2>1, <2>2, <2>3, <2>4 DEF Init, TypeOK
<1>3. Sequential
  <2>1. \A c \in Backup : c[1] # 0
    BY CountAssumption DEF Backup, Setups
  <2>. QED
    BY <2>1 DEF Init, Sequential, EnabledHasSecret, UnusedCodeWorks
<1>. QED
  BY <1>1, <1>2, <1>3 DEF IInv, Coded, Solo

\* The inductive invariant holds of every state.
THEOREM Invariance == Spec => []IInv
<1>1. IInv /\ [Next]_vars => IInv'
  BY TypeStep, CodedStep, SoloStep, SequentialStep DEF IInv
<1>. QED
  BY <1>1, InvInit, PTL DEF Spec

\* Every variable keeps its type; nothing is of a setup not made yet, and what a
\* request is to write back does not hold the code it spends.
THEOREM TypeCorrect == Spec => []TypeOK
<1>1. IInv => TypeOK
  BY DEF IInv
<1>. QED
  BY <1>1, Invariance, PTL

\* As long as requests come one at a time the account never asks for a code it
\* cannot check, and no backup code of the secret in force is lost, whichever
\* requests are cut short (services/mfa.py, docs/security/mfa.md).
THEOREM OneAtATime == Spec => []Sequential
<1>1. IInv => Sequential
  BY DEF IInv
<1>. QED
  BY <1>1, Invariance, PTL

-------------------------------------------------------------------------------
(* Codes implement Lifecycle, however requests overlap.                    *)

\* What a step may make of codes: a code that works, or is about to be written
\* back, was such before, or is of the setup of this very step.
LEMMA CodesOnward ==
  ASSUME IInv, [Next]_vars, NEW c \in Backup \cup App, c[1] <= gen
  PROVE  /\ c[1] <= gen'
         /\ (Accepts(c) \/ Pending(c))' => Accepts(c) \/ Pending(c)
<1>0. TypeOK /\ Coded /\ gen \in Nat /\ c[1] \in Nat
  BY CountAssumption DEF IInv, TypeOK, Backup, App, Setups
<1>1. CASE Setup
  <2>1. /\ secret' = gen + 1 /\ codes' = {gen + 1} \X (1 .. Count)
        /\ gen' = gen + 1 /\ req' = req
    BY <1>1 DEF Setup, NewCodes
  <2>2. c[1] # gen + 1 /\ c # <<gen + 1, 0>>
    BY <1>0
  <2>3. ~Accepts(c)'
    BY <2>1, <2>2 DEF Accepts
  <2>. QED
    BY <1>0, <2>1, <2>3 DEF Pending
<1>2. CASE Challenge \/ ChallengeExpires \/ UNCHANGED vars
  <2>1. UNCHANGED <<gen, secret, codes, req>>
    BY <1>2 DEF Challenge, ChallengeExpires, vars
  <2>. QED
    BY <2>1 DEF Accepts, Pending
<1>3. ASSUME NEW p \in Procs, NEW kind \in Kinds, NEW d \in Backup \cup App,
             BeginVerify(p, kind, d)
      PROVE  /\ c[1] <= gen'
             /\ (Accepts(c) \/ Pending(c))' => Accepts(c) \/ Pending(c)
  <2>1. /\ Accepts(d) /\ req'[p].left = codes \ {d}
        /\ \A q \in Procs : q # p => req'[q] = req[q]
        /\ UNCHANGED <<gen, secret, codes>>
    BY <1>0, <1>3, BeginFacts
  <2>. QED
    BY <2>1 DEF Accepts, Pending
<1>4. ASSUME NEW p \in Procs, Ends(p)
      PROVE  /\ c[1] <= gen'
             /\ (Accepts(c) \/ Pending(c))' => Accepts(c) \/ Pending(c)
  <2>1. /\ gen' = gen /\ secret' \in {secret, 0}
        /\ codes' \in {codes, req[p].left, {}}
    BY <1>0, <1>4, EndFacts
  <2>2. \A q \in Procs : req'[q].left \subseteq req[q].left
    BY <1>0, <1>4, EndFacts, FinishFacts, IdleType
  <2>3. Pending(c)' => Pending(c)
    BY <2>2 DEF Pending
  <2>4. Accepts(c)' => Accepts(c) \/ Pending(c)
    BY <2>1 DEF Accepts, Pending
  <2>. QED
    BY <2>1, <2>3, <2>4
<1>. QED
  BY <1>1, <1>2, <1>3, <1>4, Steps

\* A code that is refused, and that no request under way is about to write back,
\* is refused ever after: neither a late commit nor a new setup brings it back
\* (services/mfa.py, verify_totp and setup_totp).
THEOREM CodesLive == Spec => CodeLifecycle
<1>1. Init => CodeLife!Init
  <2>1. \A c \in Backup \cup App : 0 < c[1]
    BY CountAssumption DEF Backup, App, Setups
  <2>. QED
    BY <2>1 DEF Init, CodeLife!Init
<1>2. ASSUME IInv, [Next]_vars PROVE CodeLife!Advance
  <2>. SUFFICES ASSUME NEW c \in Backup \cup App
       PROVE  LET old == IF gen < c[1] THEN "unissued"
                         ELSE IF Accepts(c) \/ Pending(c) THEN "valid"
                         ELSE "dead"
                  new == IF gen' < c[1] THEN "unissued"
                         ELSE IF Accepts(c)' \/ Pending(c)' THEN "valid"
                         ELSE "dead"
              IN /\ new \in CodeLife!Stages
                 /\ new # old => <<old, new>> \in CodeLife!Forward
    BY DEF CodeLife!Advance
  <2>0. gen \in Nat /\ gen' \in Nat /\ c[1] \in Nat
    BY <1>2, TypeStep, CountAssumption DEF IInv, TypeOK, Backup, App, Setups
  <2>1. CASE gen < c[1]
    BY <2>1 DEF CodeLife!Forward, CodeLife!Stages
  <2>2. CASE ~(gen < c[1])
    <3>1. ~(gen' < c[1])
      BY <1>2, <2>0, <2>2, CodesOnward
    <3>2. Accepts(c)' \/ Pending(c)' => Accepts(c) \/ Pending(c)
      BY <1>2, <2>0, <2>2, CodesOnward
    <3>. QED
      BY <2>2, <3>1, <3>2 DEF CodeLife!Forward, CodeLife!Stages
  <2>. QED
    BY <2>1, <2>2
<1>3. IInv /\ [Next]_vars => CodeLife!Advance
  BY <1>2
<1>. QED
  BY <1>1, <1>3, Invariance, PTL DEF Spec, CodeLifecycle, CodeLife!Spec
=============================================================================
