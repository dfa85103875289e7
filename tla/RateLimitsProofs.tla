--------------------------- MODULE RateLimitsProofs ---------------------------
(***************************************************************************)
(* What holds of both limiters for any limit and period, any callers and   *)
(* any number of calls in flight.                                          *)
(***************************************************************************)
EXTENDS RateLimits, TLAPS

-------------------------------------------------------------------------------
(* The inductive invariant.                                                *)

\* The counter a call in flight is about.
KeyOf(p) == Key(req[p].caller, req[p].at)

\* Neither an entry nor what a call has read of it is ahead of the calls counted.
Earned ==
  /\ \A k \in Keys : counters[k].count <= passed[k] + unsure[k]
  /\ \A p \in Procs :
       req[p] # Idle => req[p].count <= passed[KeyOf(p)] + unsure[KeyOf(p)]

\* An entry that counted a call outlives the window the call arrived in.
Covers(k) == \A t \in Times : Window(t) = k[2] => t < counters[k].until

\* As long as calls do not overlap, no entry is behind the calls let through
\* either, nor is what the call in flight has read.
Alone ==
  ~failOpen /\ ~lapped =>
    /\ \A p, q \in Procs : req[p] # Idle /\ req[q] # Idle => p = q
    /\ \A k \in Keys : passed[k] <= counters[k].count
    /\ \A k \in Keys : passed[k] = 0 \/ Covers(k)
    /\ \A p \in Procs : req[p] # Idle => passed[KeyOf(p)] <= req[p].count

IInv == TypeOK /\ Earned /\ Alone

-------------------------------------------------------------------------------
(* Lemmas.                                                                 *)

\* Two instants of one window are less than two periods apart.
LEMMA WindowSpan ==
  ASSUME NEW t \in Nat, NEW at \in Nat, Window(t) = Window(at)
  PROVE  t < Until(at)
BY LimitAssumption DEF Window, Until

LEMMA KeyType ==
  ASSUME NEW c \in Callers, NEW at \in Times
  PROVE  Key(c, at) \in Keys /\ Key(c, at)[2] = Window(at)
BY DEF Key, Keys

\* A call in flight is about the counter of a window that has begun.
LEMMA FlightType ==
  ASSUME TypeOK, NEW p \in Procs, req[p] # Idle
  PROVE  /\ req[p].at \in Times /\ req[p].at <= now
         /\ req[p].count \in 0 .. Limit - 1
         /\ KeyOf(p) \in Keys /\ KeyOf(p)[2] = Window(req[p].at)
<1>1. /\ req[p] \in [caller : Callers, at : 0 .. now, count : 0 .. Limit - 1]
      /\ now \in 0 .. MaxTime
  BY DEF TypeOK, Times
<1>2. req[p].at \in Times /\ req[p].at <= now
  BY <1>1, LimitAssumption DEF Times
<1>. QED
  BY <1>1, <1>2, KeyType DEF KeyOf

\* What was read of a counter in the window of the reading is no more than was
\* counted, and when the entry covers its window no less than was let through.
LEMMA CountFacts ==
  ASSUME TypeOK, NEW k \in Keys
  PROVE  /\ Count(k) \in 0 .. Limit
         /\ counters[k].count <= passed[k] + unsure[k]
              => Count(k) <= passed[k] + unsure[k]
         /\ passed[k] <= counters[k].count /\ (passed[k] = 0 \/ Covers(k))
              /\ k[2] = Window(now)
              => passed[k] <= Count(k)
<1>1. /\ counters[k].count \in 0 .. Limit /\ counters[k].until \in Nat
      /\ passed[k] \in Nat /\ unsure[k] \in Nat /\ now \in Times /\ now \in Nat
  <2>1. /\ counters[k] \in [count : 0 .. Limit, until : 0 .. Until(MaxTime)]
        /\ Until(MaxTime) \in Nat
    BY LimitAssumption DEF TypeOK, Until
  <2>. QED
    BY <2>1, LimitAssumption DEF TypeOK, Times
<1>2. CASE counters[k].until > now
  BY <1>1, <1>2, LimitAssumption DEF Count
<1>3. CASE ~(counters[k].until > now)
  BY <1>1, <1>3, LimitAssumption DEF Count, Covers
<1>. QED
  BY <1>2, <1>3

\* A counter advanced by a call in flight.
LEMMA AdvanceFacts ==
  ASSUME TypeOK, NEW p \in Procs, req[p] # Idle,
         Advance(KeyOf(p), req[p].count)
  PROVE  /\ counters' \in [Keys -> [count : 0 .. Limit,
                                    until : 0 .. Until(MaxTime)]]
         /\ counters'[KeyOf(p)].count = req[p].count + 1
         /\ \A t \in Times :
              Window(t) = KeyOf(p)[2] => t < counters'[KeyOf(p)].until
         /\ \A k \in Keys : k # KeyOf(p) => counters'[k] = counters[k]
<1>1. PICK k, r : k = KeyOf(p) /\ r = req[p]
  OBVIOUS
<1>2. /\ k \in Keys /\ k[2] = Window(r.at)
      /\ r.at \in Times /\ r.at <= now /\ r.count \in 0 .. Limit - 1
  BY <1>1, FlightType
<1>3. PICK e : /\ e = [count |-> r.count + 1, until |-> Until(now)]
               /\ counters' = [counters EXCEPT ![k] = e]
  BY <1>1 DEF Advance, NextCount
<1>4. now \in 0 .. MaxTime /\ now \in Nat
  BY LimitAssumption DEF TypeOK, Times
<1>5. r.count + 1 \in 0 .. Limit /\ Until(now) \in 0 .. Until(MaxTime)
  BY <1>2, <1>4, LimitAssumption DEF Until
<1>6. e \in [count : 0 .. Limit, until : 0 .. Until(MaxTime)]
  BY <1>3, <1>5
<1>7. counters \in [Keys -> [count : 0 .. Limit, until : 0 .. Until(MaxTime)]]
  BY DEF TypeOK
<1>8. /\ counters'[k] = e
      /\ \A j \in Keys : j # k => counters'[j] = counters[j]
  BY <1>2, <1>3, <1>7
<1>9. ASSUME NEW t \in Times, Window(t) = k[2] PROVE t < Until(now)
  <2>1. t \in Nat /\ r.at \in Nat /\ Period \in Nat
    BY <1>2, LimitAssumption DEF Times
  <2>2. t < Until(r.at)
    BY <1>2, <1>9, <2>1, WindowSpan
  <2>. QED
    BY <1>2, <1>4, <2>1, <2>2 DEF Until
<1>10. \A t \in Times : Window(t) = k[2] => t < counters'[k].until
  BY <1>3, <1>8, <1>9
<1>11. counters' \in [Keys -> [count : 0 .. Limit,
                                until : 0 .. Until(MaxTime)]]
  BY <1>3, <1>6, <1>7
<1>12. counters'[k].count = r.count + 1
  BY <1>3, <1>8
<1>. QED
  BY <1>1, <1>8, <1>10, <1>11, <1>12

-------------------------------------------------------------------------------
(* The steps, as the proofs below tell them apart.                         *)

\* A call has found its counter k below the limit, and goes on as r.
Begins(p, k, r) ==
  /\ req[p] = Idle /\ k \in Keys /\ k = Key(r.caller, r.at)
  /\ k[2] = Window(now) /\ r.count = Count(k)
  /\ r \in [caller : Callers, at : 0 .. now, count : 0 .. Limit - 1]
  /\ req' = [req EXCEPT ![p] = r]
  /\ lapped' = (lapped \/ \E q \in Procs : req[q] # Idle)
  /\ UNCHANGED <<failOpen, now, counters, passed, unsure>>

\* A call in flight ends: let through, or refused as the cache did not answer.
Ends(p) ==
  /\ req[p] # Idle /\ req' = [req EXCEPT ![p] = Idle]
  /\ UNCHANGED <<failOpen, now, lapped>>
  /\ \/ Advance(KeyOf(p), req[p].count) /\ Pass(KeyOf(p))
     \/ failOpen /\ UNCHANGED counters /\ Pass(KeyOf(p))
     \/ /\ ~failOpen /\ Refuse(KeyOf(p))
        /\ UNCHANGED counters \/ Advance(KeyOf(p), req[p].count)

\* A call is decided without its counter: let through, or refused.
Skips ==
  /\ UNCHANGED <<failOpen, now, counters, req>>
  /\ lapped => lapped'
  /\ lapped' \in BOOLEAN
  /\ \/ UNCHANGED <<passed, unsure>>
     \/ failOpen /\ \E k \in Keys : Pass(k)

LEMMA Steps ==
  ASSUME TypeOK, [Next]_vars
  PROVE  \/ \E p \in Procs : Ends(p) \/ \E k, r : Begins(p, k, r)
         \/ Skips \/ Tick
<1>0. now \in Times /\ now \in 0 .. now /\ Limit - 1 \in Nat
  BY LimitAssumption DEF TypeOK, Times
<1>1. ASSUME NEW p \in Procs, NEW c \in Callers, Read(p, c)
      PROVE  Skips \/ \E k, r : Begins(p, k, r)
  <2>1. PICK k : k = Key(c, now) /\ k \in Keys /\ k[2] = Window(now)
    BY <1>0, KeyType
  <2>2. CASE Full(Count(k))
    BY <1>1, <2>1, <2>2 DEF Read, Skips, TypeOK
  <2>3. CASE ~Full(Count(k))
    <3>1. PICK r : r = [caller |-> c, at |-> now, count |-> Count(k)]
      OBVIOUS
    <3>2. Count(k) \in 0 .. Limit - 1
      <4>1. Count(k) \in 0 .. Limit
        BY <2>1, CountFacts
      <4>. QED
        BY <2>3, <4>1, LimitAssumption DEF Full
    <3>3. req' = [req EXCEPT ![p] = r]
      BY <1>1, <2>1, <2>3, <3>1 DEF Read
    <3>4. r \in [caller : Callers, at : 0 .. now, count : 0 .. Limit - 1]
      BY <1>0, <3>1, <3>2
    <3>5. k = Key(r.caller, r.at) /\ r.count = Count(k)
      BY <2>1, <3>1
    <3>6. /\ req[p] = Idle
          /\ lapped' = (lapped \/ \E q \in Procs : req[q] # Idle)
          /\ UNCHANGED <<failOpen, now, counters, passed, unsure>>
      BY <1>1 DEF Read
    <3>. QED
      BY <2>1, <3>3, <3>4, <3>5, <3>6 DEF Begins
  <2>. QED
    BY <2>2, <2>3
<1>2. ASSUME NEW p \in Procs, NEW c \in Callers, ReadFails(p, c) PROVE Skips
  <2>1. Key(c, now) \in Keys
    BY <1>0, KeyType
  <2>. QED
    BY <1>2, <2>1 DEF ReadFails, Skips, TypeOK
<1>3. ASSUME NEW p \in Procs, Write(p) \/ WriteFails(p) PROVE Ends(p)
  BY <1>3 DEF Write, WriteFails, Ends, KeyOf
<1>4. CASE UNCHANGED vars
  BY <1>4 DEF vars, Skips, TypeOK
<1>. QED
  BY <1>1, <1>2, <1>3, <1>4 DEF Next

\* One more call counted, in one of the two histories.
LEMMA PassFacts ==
  ASSUME TypeOK, NEW k \in Keys, Pass(k)
  PROVE  /\ passed' \in [Keys -> 0 .. MaxCalls] /\ unsure' = unsure
         /\ passed'[k] = passed[k] + 1
         /\ \A j \in Keys : j # k => passed'[j] = passed[j]
<1>1. passed[k] + 1 \in 0 .. MaxCalls
  BY LimitAssumption DEF Pass, TypeOK
<1>. QED
  BY <1>1 DEF Pass, TypeOK

LEMMA RefuseFacts ==
  ASSUME TypeOK, NEW k \in Keys, Refuse(k)
  PROVE  /\ unsure' \in [Keys -> 0 .. MaxCalls] /\ passed' = passed
         /\ unsure'[k] = unsure[k] + 1
         /\ \A j \in Keys : j # k => unsure'[j] = unsure[j]
<1>1. unsure[k] + 1 \in 0 .. MaxCalls
  BY LimitAssumption DEF Refuse, TypeOK
<1>. QED
  BY <1>1 DEF Refuse, TypeOK

\* A call that ends is counted once, and its entry is left or set to one more
\* than it had read.
LEMMA EndFacts ==
  ASSUME TypeOK, NEW p \in Procs, Ends(p)
  PROVE  /\ passed' \in [Keys -> 0 .. MaxCalls]
         /\ unsure' \in [Keys -> 0 .. MaxCalls]
         /\ passed'[KeyOf(p)] + unsure'[KeyOf(p)]
              = passed[KeyOf(p)] + unsure[KeyOf(p)] + 1
         /\ \A k \in Keys : k # KeyOf(p) => passed'[k] = passed[k]
         /\ \A k \in Keys : passed[k] + unsure[k] <= passed'[k] + unsure'[k]
         /\ counters' = counters \/ Advance(KeyOf(p), req[p].count)
         /\ ~failOpen => \/ passed' = passed
                         \/ /\ passed'[KeyOf(p)] = passed[KeyOf(p)] + 1
                            /\ Advance(KeyOf(p), req[p].count)
<1>1. PICK k \in Keys : k = KeyOf(p)
  BY FlightType DEF Ends
<1>2. \A j \in Keys : passed[j] \in Nat /\ unsure[j] \in Nat
  BY LimitAssumption DEF TypeOK
<1>3. CASE Pass(k)
  <2>1. /\ passed' \in [Keys -> 0 .. MaxCalls] /\ unsure' = unsure
        /\ passed'[k] = passed[k] + 1
        /\ \A j \in Keys : j # k => passed'[j] = passed[j]
    BY <1>3, PassFacts
  <2>2. \A j \in Keys : passed[j] <= passed'[j]
    BY <1>2, <2>1
  <2>3. \A j \in Keys : passed'[j] \in Nat
    BY <2>1, LimitAssumption
  <2>4. /\ counters' = counters \/ Advance(KeyOf(p), req[p].count)
        /\ ~failOpen => \/ passed' = passed
                        \/ Advance(KeyOf(p), req[p].count)
    BY DEF Ends, Refuse
  <2>5. unsure \in [Keys -> 0 .. MaxCalls]
    BY DEF TypeOK
  <2>6. \A j \in Keys : passed[j] + unsure[j] <= passed'[j] + unsure'[j]
    BY <1>2, <2>1, <2>2, <2>3
  <2>7. passed'[k] + unsure'[k] = passed[k] + unsure[k] + 1
    BY <1>2, <2>1
  <2>. QED
    BY <1>1, <2>1, <2>4, <2>5, <2>6, <2>7
<1>4. CASE Refuse(k)
  <2>1. /\ unsure' \in [Keys -> 0 .. MaxCalls] /\ passed' = passed
        /\ unsure'[k] = unsure[k] + 1
        /\ \A j \in Keys : j # k => unsure'[j] = unsure[j]
    BY <1>4, RefuseFacts
  <2>2. \A j \in Keys : unsure[j] <= unsure'[j] /\ unsure'[j] \in Nat
    BY <1>2, <2>1, LimitAssumption
  <2>3. counters' = counters \/ Advance(KeyOf(p), req[p].count)
    BY DEF Ends
  <2>4. passed \in [Keys -> 0 .. MaxCalls]
    BY DEF TypeOK
  <2>5. \A j \in Keys : passed[j] + unsure[j] <= passed'[j] + unsure'[j]
    BY <1>2, <2>1, <2>2
  <2>6. passed'[k] + unsure'[k] = passed[k] + unsure[k] + 1
    BY <1>2, <2>1
  <2>. QED
    BY <1>1, <2>1, <2>3, <2>4, <2>5, <2>6
<1>. QED
  BY <1>1, <1>3, <1>4 DEF Ends

-------------------------------------------------------------------------------
(* Each conjunct of the invariant is kept.                                 *)

\* Where the calls in flight are after a step.
LEMMA FlightStep ==
  ASSUME TypeOK, NEW p \in Procs
  PROVE  /\ \A k, r : Begins(p, k, r) =>
              /\ req'[p] = r /\ \A q \in Procs : q # p => req'[q] = req[q]
         /\ Ends(p) =>
              /\ req'[p] = Idle /\ \A q \in Procs : q # p => req'[q] = req[q]
BY DEF Begins, Ends, TypeOK

\* What a step leaves alone is of its type.
LEMMA TypeStep == IInv /\ [Next]_vars => TypeOK'
<1>. SUFFICES ASSUME IInv, [Next]_vars PROVE TypeOK'
  OBVIOUS
<1>. DEFINE Flight(t) == {Idle} \cup [caller : Callers, at : 0 .. t,
                                      count : 0 .. Limit - 1]
<1>0. TypeOK /\ req \in [Procs -> Flight(now)]
  BY DEF IInv, TypeOK
<1>1. ASSUME NEW p \in Procs, NEW k, NEW r, Begins(p, k, r) PROVE TypeOK'
  <2>1. req' \in [Procs -> Flight(now)]
    BY <1>0, <1>1 DEF Begins
  <2>2. lapped' \in BOOLEAN
    BY <1>1 DEF Begins
  <2>. QED
    BY <1>0, <1>1, <2>1, <2>2 DEF Begins, TypeOK
<1>2. ASSUME NEW p \in Procs, Ends(p) PROVE TypeOK'
  <2>1. req' \in [Procs -> Flight(now)]
    BY <1>0, <1>2 DEF Ends
  <2>2. counters' \in [Keys -> [count : 0 .. Limit, until : 0 .. Until(MaxTime)]]
    <3>1. counters' = counters \/ Advance(KeyOf(p), req[p].count)
      BY <1>0, <1>2, EndFacts
    <3>. QED
      BY <1>0, <1>2, <3>1, AdvanceFacts DEF Ends, TypeOK
  <2>3. /\ passed' \in [Keys -> 0 .. MaxCalls]
        /\ unsure' \in [Keys -> 0 .. MaxCalls]
    BY <1>0, <1>2, EndFacts
  <2>. QED
    BY <1>0, <1>2, <2>1, <2>2, <2>3 DEF Ends, TypeOK
<1>3. CASE Skips
  <2>1. /\ passed' \in [Keys -> 0 .. MaxCalls]
        /\ unsure' \in [Keys -> 0 .. MaxCalls]
    BY <1>0, <1>3, PassFacts DEF Skips, TypeOK
  <2>. QED
    BY <1>0, <1>3, <2>1 DEF Skips, TypeOK
<1>4. CASE Tick
  <2>1. now' \in Times /\ 0 .. now \subseteq 0 .. now'
    BY <1>0, <1>4, LimitAssumption DEF Tick, TypeOK, Times
  <2>2. Flight(now) \subseteq Flight(now')
    BY <2>1
  <2>. HIDE DEF Flight
  <2>3. req' \in [Procs -> Flight(now')]
    BY <1>0, <1>4, <2>2 DEF Tick
  <2>. USE DEF Flight
  <2>. QED
    BY <1>0, <1>4, <2>1, <2>3 DEF Tick, TypeOK
<1>. QED
  BY <1>0, <1>1, <1>2, <1>3, <1>4, Steps

LEMMA EarnedStep == IInv /\ [Next]_vars => Earned'
<1>. SUFFICES ASSUME IInv, [Next]_vars PROVE Earned'
  OBVIOUS
<1>. DEFINE All(k) == passed[k] + unsure[k]
<1>0. /\ TypeOK /\ Earned /\ TypeOK'
      /\ \A k \in Keys : All(k) \in Nat /\ All(k)' \in Nat
      /\ \A k \in Keys : counters[k].count \in Nat
  <2>1. TypeOK /\ Earned /\ TypeOK'
    BY TypeStep DEF IInv
  <2>2. \A k \in Keys : /\ passed[k] \in Nat /\ unsure[k] \in Nat
                        /\ passed'[k] \in Nat /\ unsure'[k] \in Nat
                        /\ counters[k].count \in Nat
    BY <2>1, LimitAssumption DEF TypeOK
  <2>. QED
    BY <2>1, <2>2
<1>1. ASSUME \A k \in Keys : All(k) <= All(k)',
             \A k \in Keys : counters'[k] = counters[k]
                             \/ counters'[k].count <= All(k)',
             \A p \in Procs : req'[p] = Idle \/ req'[p] = req[p]
                              \/ \E k \in Keys :
                                   /\ k = Key(req'[p].caller, req'[p].at)
                                   /\ req'[p].count <= passed'[k] + unsure'[k]
      PROVE  Earned'
  <2>1. \A k \in Keys : counters'[k].count <= passed'[k] + unsure'[k]
    BY <1>0, <1>1 DEF Earned
  <2>2. ASSUME NEW p \in Procs, req'[p] # Idle, req'[p] = req[p]
        PROVE  \E k \in Keys : /\ k = Key(req'[p].caller, req'[p].at)
                               /\ req'[p].count <= passed'[k] + unsure'[k]
    <3>1. PICK k, n : k = KeyOf(p) /\ n = req[p].count
      OBVIOUS
    <3>2. k \in Keys /\ n \in Nat
      BY <1>0, <2>2, <3>1, FlightType, LimitAssumption
    <3>3. n <= passed[k] + unsure[k]
      BY <1>0, <2>2, <3>1 DEF Earned
    <3>4. n <= passed'[k] + unsure'[k]
      BY <1>0, <1>1, <3>2, <3>3
    <3>. QED
      BY <2>2, <3>1, <3>2, <3>4 DEF KeyOf
  <2>3. ASSUME NEW p \in Procs, req'[p] # Idle
        PROVE  req'[p].count <= passed'[KeyOf(p)'] + unsure'[KeyOf(p)']
    <3>1. PICK k \in Keys : /\ k = Key(req'[p].caller, req'[p].at)
                            /\ req'[p].count <= passed'[k] + unsure'[k]
      BY <1>1, <2>2, <2>3
    <3>2. KeyOf(p)' = k
      BY <3>1 DEF KeyOf, Key, Window
    <3>. QED
      BY <3>1, <3>2
  <2>. QED
    BY <2>1, <2>3 DEF Earned
<1>2. ASSUME NEW p \in Procs, NEW k, NEW r, Begins(p, k, r) PROVE Earned'
  <2>1. req'[p] = r /\ \A q \in Procs : q # p => req'[q] = req[q]
    BY <1>0, <1>2, FlightStep
  <2>2. /\ k \in Keys /\ k = Key(r.caller, r.at) /\ r.count = Count(k)
        /\ UNCHANGED <<counters, passed, unsure>>
    BY <1>2 DEF Begins
  <2>3. Count(k) <= passed[k] + unsure[k]
    BY <1>0, <2>2, CountFacts DEF Earned
  <2>4. \A j \in Keys : All(j) <= All(j)'
    BY <1>0, <2>2
  <2>. QED
    BY <1>1, <2>1, <2>2, <2>3, <2>4
<1>3. ASSUME NEW p \in Procs, Ends(p) PROVE Earned'
  <2>1. req'[p] = Idle /\ \A q \in Procs : q # p => req'[q] = req[q]
    BY <1>0, <1>3, FlightStep
  <2>2. PICK k : k = KeyOf(p)
    OBVIOUS
  <2>3. /\ k \in Keys /\ req[p].count \in Nat
        /\ req[p].count <= passed[k] + unsure[k]
    BY <1>0, <1>3, <2>2, FlightType, LimitAssumption DEF Ends, Earned
  <2>4. /\ passed'[k] + unsure'[k] = passed[k] + unsure[k] + 1
        /\ \A j \in Keys : passed[j] + unsure[j] <= passed'[j] + unsure'[j]
        /\ counters' = counters \/ Advance(k, req[p].count)
    BY <1>0, <1>3, <2>2, EndFacts
  <2>5. ASSUME Advance(k, req[p].count)
        PROVE  /\ counters'[k].count = req[p].count + 1
               /\ \A j \in Keys : j # k => counters'[j] = counters[j]
    BY <1>0, <1>3, <2>2, <2>5, AdvanceFacts DEF Ends
  <2>6. req[p].count + 1 <= passed'[k] + unsure'[k]
    BY <1>0, <2>3, <2>4
  <2>7. \A j \in Keys : counters'[j] = counters[j]
                        \/ counters'[j].count <= passed'[j] + unsure'[j]
    BY <2>4, <2>5, <2>6
  <2>. QED
    BY <1>1, <2>1, <2>4, <2>7
<1>4. CASE Skips
  <2>1. \A k \in Keys : All(k) <= All(k)'
    BY <1>0, <1>4, PassFacts, LimitAssumption DEF Skips, TypeOK
  <2>. QED
    BY <1>1, <1>4, <2>1 DEF Skips
<1>5. CASE Tick
  <2>1. \A k \in Keys : All(k) <= All(k)'
    BY <1>0, <1>5 DEF Tick
  <2>. QED
    BY <1>1, <1>5, <2>1 DEF Tick
<1>. QED
  BY <1>0, <1>2, <1>3, <1>4, <1>5, Steps

LEMMA AloneStep == IInv /\ [Next]_vars => Alone'
<1>. SUFFICES ASSUME IInv, [Next]_vars, ~failOpen', ~lapped' PROVE Alone'
  BY DEF Alone
<1>0. /\ TypeOK /\ Alone
      /\ \A k \in Keys : /\ passed[k] \in Nat /\ counters[k].count \in Nat
                         /\ Count(k) \in Nat
  <2>1. TypeOK /\ Alone
    BY DEF IInv
  <2>2. \A k \in Keys : Count(k) \in 0 .. Limit
    BY <2>1, CountFacts
  <2>. QED
    BY <2>1, <2>2, LimitAssumption DEF TypeOK
<1>1. ASSUME UNCHANGED <<failOpen, counters, req, passed>>, ~lapped
      PROVE  Alone'
  BY <1>0, <1>1 DEF Alone, Covers, KeyOf
<1>2. ASSUME NEW p \in Procs, NEW k, NEW r, Begins(p, k, r) PROVE Alone'
  <2>1. req'[p] = r /\ \A q \in Procs : q # p => req'[q] = req[q]
    BY <1>0, <1>2, FlightStep
  <2>2. /\ k \in Keys /\ k = Key(r.caller, r.at) /\ r.count = Count(k)
        /\ k[2] = Window(now) /\ UNCHANGED <<failOpen, counters, passed>>
        /\ ~lapped /\ \A q \in Procs : req[q] = Idle
    BY <1>2 DEF Begins
  <2>3. \A j \in Keys : /\ passed[j] <= counters[j].count
                        /\ passed[j] = 0 \/ Covers(j)
    BY <1>0, <2>2 DEF Alone
  <2>4. passed[k] <= Count(k)
    BY <1>0, <2>2, <2>3, CountFacts
  <2>5. \A q \in Procs : req'[q] # Idle => q = p
    BY <2>1, <2>2
  <2>6. \A j \in Keys : passed'[j] = 0 \/ Covers(j)'
    BY <2>2, <2>3 DEF Covers
  <2>7. passed'[KeyOf(p)'] <= req'[p].count
    <3>1. KeyOf(p)' = k
      BY <2>1, <2>2 DEF KeyOf, Key, Window
    <3>. QED
      BY <2>1, <2>2, <2>4, <3>1
  <2>. QED
    BY <2>2, <2>3, <2>5, <2>6, <2>7 DEF Alone
<1>3. ASSUME NEW p \in Procs, Ends(p) PROVE Alone'
  <2>1. PICK k, n : k = KeyOf(p) /\ n = req[p].count
    OBVIOUS
  <2>2. /\ ~failOpen /\ ~lapped /\ req[p] # Idle
        /\ k \in Keys /\ n \in Nat
    BY <1>0, <1>3, <2>1, FlightType, LimitAssumption DEF Ends
  <2>3. \A q \in Procs : req'[q] = Idle
    BY <1>0, <1>3, <2>2, FlightStep DEF Alone
  <2>4. /\ passed[k] <= n
        /\ \A j \in Keys : /\ passed[j] <= counters[j].count
                           /\ passed[j] = 0 \/ Covers(j)
    BY <1>0, <2>1, <2>2 DEF Alone
  <2>5. /\ \A j \in Keys : j # k => passed'[j] = passed[j]
        /\ counters' = counters \/ Advance(k, n)
        /\ \/ passed' = passed
           \/ passed'[k] = passed[k] + 1 /\ Advance(k, n)
    BY <1>0, <1>3, <2>1, <2>2, EndFacts
  <2>6. ASSUME Advance(k, n)
        PROVE  /\ counters'[k].count = n + 1
               /\ \A t \in Times : Window(t) = k[2] => t < counters'[k].until
               /\ \A j \in Keys : j # k => counters'[j] = counters[j]
    BY <1>0, <2>1, <2>2, <2>6, AdvanceFacts
  <2>7. \A j \in Keys : passed'[j] <= counters'[j].count
    <3>1. CASE Advance(k, n)
      <4>1. passed'[k] <= n + 1
        BY <1>0, <2>2, <2>4, <2>5
      <4>. QED
        BY <2>4, <2>5, <2>6, <3>1, <4>1
    <3>2. CASE counters' = counters /\ passed' = passed
      BY <2>4, <3>2
    <3>. QED
      BY <2>5, <3>1, <3>2
  <2>8. ASSUME NEW j \in Keys
        PROVE  passed'[j] = 0 \/ Covers(j)'
    <3>1. \/ passed'[j] = 0
          \/ \A t \in Times : Window(t) = j[2] => t < counters'[j].until
      <4>1. CASE Advance(k, n)
        BY <2>4, <2>5, <2>6, <4>1 DEF Covers
      <4>2. CASE counters' = counters /\ passed' = passed
        BY <2>4, <4>2 DEF Covers
      <4>. QED
        BY <2>5, <4>1, <4>2
    <3>. QED
      BY <3>1 DEF Covers
  <2>. QED
    BY <2>3, <2>7, <2>8 DEF Alone
<1>4. CASE Skips
  BY <1>1, <1>4 DEF Skips
<1>5. CASE Tick
  BY <1>1, <1>5 DEF Tick
<1>. QED
  BY <1>0, <1>2, <1>3, <1>4, <1>5, Steps

LEMMA InvInit == Init => IInv
<1>. SUFFICES ASSUME Init PROVE IInv
  OBVIOUS
<1>1. /\ 0 \in Times /\ 0 \in 0 .. Limit /\ 0 \in 0 .. MaxCalls
      /\ 0 \in 0 .. Until(MaxTime)
  BY LimitAssumption DEF Times, Until
<1>2. /\ counters \in [Keys -> [count : 0 .. Limit, until : 0 .. Until(MaxTime)]]
      /\ \A k \in Keys : counters[k].count = 0
  BY <1>1 DEF Init
<1>3. /\ passed \in [Keys -> 0 .. MaxCalls] /\ unsure \in [Keys -> 0 .. MaxCalls]
      /\ \A k \in Keys : passed[k] = 0 /\ unsure[k] = 0
  BY <1>1 DEF Init
<1>4. \A p \in Procs : req[p] = Idle
  BY DEF Init
<1>5. TypeOK
  BY <1>1, <1>2, <1>3 DEF Init, TypeOK
<1>6. Earned /\ Alone
  BY <1>2, <1>3, <1>4 DEF Earned, Alone
<1>. QED
  BY <1>5, <1>6 DEF IInv

-------------------------------------------------------------------------------
(* Theorems.                                                               *)

\* The invariant holds of every behaviour of either limiter.
THEOREM Invariance == Spec => []IInv
<1>1. Init => IInv
  BY InvInit
<1>2. IInv /\ [Next]_vars => IInv'
  BY TypeStep, EarnedStep, AloneStep DEF IInv
<1>. QED
  BY <1>1, <1>2, PTL DEF Spec

\* No counter passes its limit, however many calls read and write it at a time
\* (RateLimiter._check, RateLimitMiddleware._check).
THEOREM TypeCorrect == Spec => []TypeOK
<1>1. IInv => TypeOK
  BY DEF IInv
<1>. QED
  BY <1>1, Invariance, PTL

\* What a call reads is never ahead of the calls of that caller and window, so
\* that overlapping calls and failures of the cache refuse nobody too early.
THEOREM NoneInvented == Spec => []NoOvercount
<1>1. IInv => NoOvercount
  BY CountFacts DEF IInv, Earned, NoOvercount
<1>. QED
  BY <1>1, Invariance, PTL

\* Calls that do not overlap pass the dependency at most Limit times a window,
\* although entries expire and writes fail (RateLimiter._check).
THEOREM WindowLimited == Spec => []WindowLimit
<1>1. IInv => WindowLimit
  <2>. SUFFICES ASSUME IInv, ~failOpen, ~lapped, NEW k \in Keys
                PROVE  passed[k] <= Limit
    BY DEF WindowLimit
  <2>1. passed[k] <= counters[k].count
    BY DEF IInv, Alone
  <2>2. counters[k].count \in 0 .. Limit /\ passed[k] \in 0 .. MaxCalls
    BY DEF IInv, TypeOK
  <2>. QED
    BY <2>1, <2>2, LimitAssumption
<1>. QED
  BY <1>1, Invariance, PTL
=============================================================================
