----------------------------- MODULE OrderLimit -----------------------------
(***************************************************************************)
(* The rate limit of orders and cancellations (Bridge/OrderLimit.cpp): a   *)
(* token bucket kept in one atomic time, the time from which a token may   *)
(* be taken, and moved on by threads with compare-and-exchange loops.      *)
(* The code counts nanoseconds; the model counts ticks.                    *)
(***************************************************************************)
EXTENDS Integers

CONSTANTS
  Threads,   \* the threads that send orders
  Second,    \* ticks of a second
  Rate,      \* tokens made in a second
  Capacity,  \* tokens the bucket is meant to hold
  MaxTime    \* bound of the model: ticks

ASSUME LimitAssumption ==
  /\ Second \in Nat /\ MaxTime \in Nat
  /\ Rate \in Nat \ {0} /\ Capacity \in Nat \ {0}

TimePerToken == Second \div Rate
TimePerBurst == ((Capacity - 1) * Second) \div Rate

VARIABLES
  now,      \* the clock
  next,     \* nextFreeTime_
  calls,    \* the call a thread is in: when it read the clock, next as it knows it
  granted,  \* how many calls were granted
  window    \* an observer: since when, and how many of the calls made since then

limitVars == <<now, next, calls, granted, window>>

Returned == [busy |-> FALSE, since |-> 0, seen |-> 0]

LimitInit ==
  /\ now = 0
  /\ next = now
  /\ calls = [t \in Threads |-> Returned]
  /\ granted = 0
  /\ window = [from |-> 0, granted |-> 0]

Tick ==
  /\ now < MaxTime
  /\ now' = now + 1
  /\ UNCHANGED <<next, calls, granted, window>>

\* A window of observation may begin at any time.
Observe ==
  /\ window' = [from |-> now, granted |-> 0]
  /\ UNCHANGED <<now, next, calls, granted>>

\* tryConsume reads the clock once, and next for the first time.
Call(t) ==
  /\ ~calls[t].busy
  /\ calls' = [calls EXCEPT ![t] = [busy |-> TRUE, since |-> now, seen |-> next]]
  /\ UNCHANGED <<now, next, granted, window>>

\* Mutant: what was not used in idle time is kept.
UnlimitedIdle(c) == c.seen + TimePerToken

\* The bucket is never fuller than a burst.
NewNext(c) ==
  (IF c.since - TimePerBurst > c.seen THEN c.since - TimePerBurst ELSE c.seen)
  + TimePerToken

Deny(t) ==
  /\ calls[t].busy
  /\ NewNext(calls[t]) > calls[t].since
  /\ calls' = [calls EXCEPT ![t] = Returned]
  /\ UNCHANGED <<now, next, granted, window>>

\* The exchange succeeds when next is still what the thread knows.
Grant(t) ==
  /\ calls[t].busy
  /\ NewNext(calls[t]) <= calls[t].since
  /\ next = calls[t].seen
  /\ next' = NewNext(calls[t])
  /\ granted' = granted + 1
  /\ window' = IF calls[t].since >= window.from
                 THEN [window EXCEPT !.granted = @ + 1] ELSE window
  /\ calls' = [calls EXCEPT ![t] = Returned]
  /\ UNCHANGED now

\* Mutant: the value the failed exchange read is not used.
RetryStale(t) ==
  /\ calls[t].busy
  /\ NewNext(calls[t]) <= calls[t].since
  /\ next # calls[t].seen
  /\ UNCHANGED limitVars

\* It fails when another thread was granted a token, and reads next again.  (A
\* spurious failure of the weak exchange reads the same value: a stutter.)
Retry(t) ==
  /\ calls[t].busy
  /\ NewNext(calls[t]) <= calls[t].since
  /\ next # calls[t].seen
  /\ calls' = [calls EXCEPT ![t].seen = next]
  /\ UNCHANGED <<now, next, granted, window>>

ThreadStep(t) == Deny(t) \/ Grant(t) \/ Retry(t)

LimitNext == Tick \/ Observe \/ \E t \in Threads : Call(t) \/ ThreadStep(t)

\* A thread in a call runs on.
LimitSpec ==
  LimitInit /\ [][LimitNext]_limitVars /\ \A t \in Threads : WF_limitVars(ThreadStep(t))

-----------------------------------------------------------------------------
(* Properties. *)

LimitTypeOK ==
  /\ now \in Nat /\ next \in Int
  /\ calls \in [Threads -> [busy : BOOLEAN, since : Nat, seen : Int]]
  /\ granted \in Nat
  /\ window \in [from : Nat, granted : Nat]

\* Whenever one begins to count, of the calls made from then on no more are
\* granted than a burst and the tokens made since, whatever threads race.
BurstBounded ==
  window.granted * TimePerToken <= now - window.from + TimePerBurst

\* A call returns, though other threads move next on under it: each time that
\* they do, there is less left up to the time at which the call read the clock.
CallsReturn == \A t \in Threads : calls[t].busy ~> ~calls[t].busy

\* What the constructor says of the bucket, that it is full to begin with: as long
\* as fewer calls were granted than a full bucket has tokens for, none is denied.
BucketStartsFull ==
  [][\A t \in Threads : Deny(t) => granted >= Capacity - 1]_limitVars
=============================================================================
