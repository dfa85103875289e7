------------------------------ MODULE RateLimits ------------------------------
(***************************************************************************)
(* The limiter of calls per caller, as a dependency of a route and as the  *)
(* middleware before all routes: the same counter in the cache, read,      *)
(* compared and written back, one per caller and window of time.  They     *)
(* differ when the cache fails: the middleware lets the call through, the  *)
(* dependency refuses it.  They count under different names of a route,    *)
(* so a behaviour is one of them.                                          *)
(***************************************************************************)
EXTENDS Naturals

CONSTANTS
  Callers, Procs,
  Limit, Period,        \* the limit of a route: calls, and length of a window
  CacheFails,           \* whether the cache may fail
  MaxTime, MaxCalls     \* bounds: the clock, the calls counted in one window

ASSUME LimitAssumption ==
  /\ Limit \in Nat \ {0} /\ Period \in Nat \ {0}
  /\ CacheFails \in BOOLEAN
  /\ MaxTime \in Nat /\ MaxCalls \in Nat
  /\ "none" \notin Callers

VARIABLES
  failOpen,   \* the middleware, not the dependency
  now,
  counters,   \* cache: [caller, window] -> [count, until]
  req,        \* the calls in flight: what each has read
  passed,     \* history: calls let through, by caller and window of arrival
  unsure,     \* history: those refused because they could not be counted, likewise
  lapped      \* history: have two calls overlapped?

vars == <<failOpen, now, counters, req, passed, unsure, lapped>>

Times == 0 .. MaxTime
Window(t) == t \div Period
Keys == Callers \X {Window(t) : t \in Times}

\* The key of a call: the window is that of its arrival.
Key(c, at) == <<c, Window(at)>>

Idle == [caller |-> "none", at |-> 0, count |-> 0]

\* ttl of half a window
SlipUntil(t) == t + (Period \div 2)

Until(t) == t + Period * 2

\* An entry past its time is gone, and reads as zero.
Count(k) == IF counters[k].until > now THEN counters[k].count ELSE 0

\* `>` for `>=`
SlipFull(n) == n > Limit

Full(n) == n >= Limit

Pass(k) ==
  /\ passed[k] < MaxCalls
  /\ passed' = [passed EXCEPT ![k] = @ + 1]
  /\ UNCHANGED unsure

\* the call is refused as the service is unavailable
Refuse(k) ==
  /\ unsure[k] < MaxCalls
  /\ unsure' = [unsure EXCEPT ![k] = @ + 1]
  /\ UNCHANGED passed

-------------------------------------------------------------------------------
\* The counter is read; at the limit the call is refused there and then.
Read(p, c) ==
  LET k == Key(c, now) IN
  /\ req[p] = Idle
  /\ \/ /\ Full(Count(k))
        /\ UNCHANGED req
     \/ /\ ~Full(Count(k))
        /\ req' = [req EXCEPT ![p] =
                     [caller |-> c, at |-> now, count |-> Count(k)]]
  /\ lapped' = (lapped \/ \E q \in Procs : req[q] # Idle)
  /\ UNCHANGED <<failOpen, now, counters, passed, unsure>>

\* the counter is advanced by one more than was read
SlipNext(n) == n + 2

NextCount(n) == n + 1

Advance(k, n) ==
  counters' = [counters EXCEPT ![k] = [count |-> NextCount(n),
                                       until |-> Until(now)]]

\* The counter is written, and the call goes through.
Write(p) ==
  LET k == Key(req[p].caller, req[p].at) IN
  /\ req[p] # Idle
  /\ Advance(k, req[p].count) /\ Pass(k)
  /\ req' = [req EXCEPT ![p] = Idle]
  /\ UNCHANGED <<failOpen, now, lapped>>

\* The cache fails at the read.
ReadFails(p, c) ==
  /\ CacheFails /\ req[p] = Idle
  /\ failOpen => Pass(Key(c, now))
  /\ ~failOpen => UNCHANGED <<passed, unsure>>
  /\ UNCHANGED <<failOpen, now, counters, req, lapped>>

\* The cache fails at the write: it is done or it is not.
WriteFails(p) ==
  LET k == Key(req[p].caller, req[p].at) IN
  /\ CacheFails /\ req[p] # Idle
  /\ failOpen => Pass(k)
  /\ ~failOpen => Refuse(k)
  /\ UNCHANGED counters \/ Advance(k, req[p].count)
  /\ req' = [req EXCEPT ![p] = Idle]
  /\ UNCHANGED <<failOpen, now, lapped>>

Tick ==
  /\ now < MaxTime /\ now' = now + 1
  /\ UNCHANGED <<failOpen, counters, req, passed, unsure, lapped>>

Init ==
  /\ failOpen \in BOOLEAN /\ lapped = FALSE
  /\ now = 0
  /\ counters = [k \in Keys |-> [count |-> 0, until |-> 0]]
  /\ req = [p \in Procs |-> Idle]
  /\ passed = [k \in Keys |-> 0] /\ unsure = passed

Next ==
  \/ \E p \in Procs :
       \/ \E c \in Callers : Read(p, c) \/ ReadFails(p, c)
       \/ Write(p) \/ WriteFails(p)
  \/ Tick

Spec == Init /\ [][Next]_vars

-------------------------------------------------------------------------------
(* Properties.                                                             *)

\* Every variable keeps its type; a call in flight read a count below the limit, in
\* the past.
TypeOK ==
  /\ now \in Times
  /\ counters \in [Keys -> [count : 0 .. Limit, until : 0 .. Until(MaxTime)]]
  /\ req \in [Procs -> {Idle} \cup [caller : Callers, at : 0 .. now,
                                     count : 0 .. Limit - 1]]
  /\ passed \in [Keys -> 0 .. MaxCalls] /\ unsure \in [Keys -> 0 .. MaxCalls]
  /\ failOpen \in BOOLEAN /\ lapped \in BOOLEAN

\* A counter never runs ahead of the calls it stands for, whatever calls overlap and
\* whenever entries expire: a caller is refused only for calls of his own that were
\* let through in this window, or failed for want of an answer of the cache.
NoOvercount == \A k \in Keys : Count(k) <= passed[k] + unsure[k]

\* docs/security/rate-limiting.md: a call beyond the limit is answered 429.  The
\* dependency never lets through more than Limit calls of a caller in a window, as
\* long as no two calls overlap, whenever they come and whichever writes fail.
WindowLimit == ~failOpen /\ ~lapped => \A k \in Keys : passed[k] <= Limit

-------------------------------------------------------------------------------
(* What the code or the documentation says and the code does not do.       *)

\* docs/security/rate-limiting.md: a call beyond the limit is answered 429.
EveryWindowLimit == \A k \in Keys : passed[k] <= Limit
=============================================================================
