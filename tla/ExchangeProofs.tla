--------------------------- MODULE ExchangeProofs ---------------------------
(***************************************************************************)
(* The counts of the exchange manager for any strategies, exchanges,       *)
(* symbols and pools, with the threads of real-time strategies (FlowRuns). *)
(*                                                                         *)
(* The properties say nothing of the counts; the proofs need them.  The    *)
(* count of an exchange has no lock: a login may fail, two logins may race *)
(* and set it to 1 twice, a stop counts down what was never counted up,    *)
(* and a count set while the entry is erased may be lost.  As long as no   *)
(* login crossed a closing it is at most the number of owners, and that is *)
(* enough: there is a session exactly while it is positive, or until the   *)
(* one that counted it down has logged out.  A login crosses the closing   *)
(* of another strategy only: what one strategy alone requires is safe.     *)
(*                                                                         *)
(* The counts of symbols are under a lock.  A control thread unsubscribes  *)
(* before it launches a worker, so that no subscription is replaced and    *)
(* these counts are exact.                                                 *)
(***************************************************************************)
EXTENDS FlowRuns, FiniteSetTheorems, TLAPS

-----------------------------------------------------------------------------

\* There are finitely many strategies, so that their subsets are counted.
LEMMA CountsAreNumbers ==
  ASSUME NEW X \in SUBSET Strategies
  PROVE  IsFiniteSet(X) /\ Cardinality(X) \in Nat /\ (Cardinality(X) > 0 <=> X # {})
<1>1. IsFiniteSet(X)  BY StrategiesAssumption, FS_Subset
<1>2. Cardinality(X) \in Nat /\ (Cardinality(X) = 0 <=> X = {})
  BY <1>1, FS_CardinalityType, FS_EmptySet
<1> QED  BY <1>1, <1>2

\* One more strategy counts one more, one less counts one less.
LEMMA OneMoreOrLess ==
  ASSUME NEW X \in SUBSET Strategies, NEW st \in Strategies
  PROVE  /\ st \notin X => Cardinality(X \cup {st}) = Cardinality(X) + 1
         /\ st \in X => Cardinality(X \ {st}) = Cardinality(X) - 1
BY CountsAreNumbers, FS_AddElement, FS_RemoveElement

-----------------------------------------------------------------------------
(* The invariants. *)

\* A control thread waits for the worker before it goes on.  It has exchanges to
\* start only while it is starting, and one of the two has some to stop only while
\* it stops.
ThreadsInOrder ==
  \A st \in Strategies :
    /\ worker[st] # "none" => control[st] \in {"idle", "joining"}
    /\ control[st] # "starting" => starting[st] = {} /\ login[st] = {}
    /\ control[st] # "stopping" /\ worker[st] # "leaving" => Stopped(st)

FlowInv == TypeOK /\ ThreadsInOrder

Owners(e) == {st \in Strategies : e \in owned[st]}

\* A strategy starts an exchange once in a run, gives it up before it is closed, and
\* owns none when it is stopped.  Only a login has a stale reference.
OwnedOnce ==
  \A st \in Strategies :
    /\ (starting[st] \cup login[st]) \cap owned[st] = {}
    /\ starting[st] \cap login[st] = {}
    /\ (leaving[st] \cup erasing[st]) \cap owned[st] = {}
    /\ control[st] = "stopping" => owned[st] \subseteq stopping[st]
    /\ st \in stale => login[st] # {}
    /\ control[st] = "idle" /\ worker[st] = "none" => owned[st] = {}

\* Of an exchange no login of which crossed a closing: the count has owners, a session
\* has a count or is being closed, and who closes it is alone with it.
CountedSession(e) ==
  /\ refCount[e] <= Cardinality(Owners(e))
  /\ e \in loggedIn <=> refCount[e] > 0 \/ \E st \in Strategies : e \in leaving[st]
  /\ \A st \in Strategies : e \in leaving[st] \cup erasing[st] =>
       /\ refCount[e] = 0 /\ LoggingIn(e) = {}
       /\ \A o \in Strategies : e \in leaving[o] \cup erasing[o] => o = st
  /\ \A st \in stale : e \notin login[st]

CountedByOwners == \A e \in Exchanges \ crossed : CountedSession(e)

\* A login crosses a closing of another strategy.
CrossedAreShared ==
  \A e \in crossed : \E st, o \in Strategies :
    st # o /\ e \in Required[st] /\ e \in Required[o]

OwnedAreLoggedIn == \A st \in Strategies : OwnedAlone(st) \subseteq loggedIn

FlowSessionInv ==
  FlowInv /\ OwnedOnce /\ CountedByOwners /\ CrossedAreShared /\ OwnedAreLoggedIn

\* While its worker runs a strategy is subscribed to its pool; it is subscribed to
\* nothing when it starts.
SubscribedToPool ==
  \A st \in Strategies :
    /\ subscription[st] \in {{}, Pool[st]}
    /\ worker[st] # "none" => subscription[st] = Pool[st]
    /\ control[st] \in {"stopping", "starting"} => subscription[st] = {}

SymbolsCountedOnce ==
  \A s \in Symbols : symbolCount[s] = Cardinality(Subscribers(s))

SharedAreWatched ==
  \A s \in Symbols : \A e \in SharedBy(s) : s \in watched[e] <=> symbolCount[s] > 0

FlowQuoteInv == FlowInv /\ SubscribedToPool /\ SymbolsCountedOnce /\ SharedAreWatched

-----------------------------------------------------------------------------
(* Types of the flow subsystem. *)

LEMMA FlowInit == Init => FlowInv
BY DEF Init, InitManager, FlowInv, TypeOK, OneOrNone, ManagerTypeOK, ThreadsInOrder, Stopped

LEMMA SubscriptionTypes ==
  ASSUME ManagerTypeOK, NEW st \in Strategies, NEW names \in SUBSET Exchanges
  PROVE  /\ UnsubscribeSymbols(st, names) =>
              /\ subscription' \in [Strategies -> SUBSET Symbols]
              /\ symbolCount' \in [Symbols -> Nat]
              /\ watched' \in [Exchanges -> SUBSET Symbols]
         /\ \A symbols \in SUBSET Symbols : SubscribeSymbols(st, names, symbols) =>
              /\ subscription' \in [Strategies -> SUBSET Symbols]
              /\ symbolCount' \in [Symbols -> Nat]
              /\ watched' \in [Exchanges -> SUBSET Symbols]
<1>1. UnsubscribeSymbols(st, names) => symbolCount' \in [Symbols -> Nat]
  BY DEF ManagerTypeOK, UnsubscribeSymbols
<1>2. UnsubscribeSymbols(st, names) =>
        /\ subscription' \in [Strategies -> SUBSET Symbols]
        /\ watched' \in [Exchanges -> SUBSET Symbols]
  BY DEF ManagerTypeOK, UnsubscribeSymbols
<1>3. ASSUME NEW symbols \in SUBSET Symbols, SubscribeSymbols(st, names, symbols)
      PROVE  symbolCount' \in [Symbols -> Nat]
  BY <1>3 DEF ManagerTypeOK, SubscribeSymbols
<1>4. ASSUME NEW symbols \in SUBSET Symbols, SubscribeSymbols(st, names, symbols)
      PROVE  /\ subscription' \in [Strategies -> SUBSET Symbols]
             /\ watched' \in [Exchanges -> SUBSET Symbols]
  BY <1>4 DEF ManagerTypeOK, SubscribeSymbols
<1> QED  BY <1>1, <1>2, <1>3, <1>4

\* The steps of a control thread keep the types and the order of the threads.
\* The steps of a control thread keep the types and the order of the threads.
LEMMA ControlKeepsOrder ==
  ASSUME FlowInv, NEW st \in Strategies,
         (\E start \in BOOLEAN : Call(st, start)) \/ ControlStep(st)
  PROVE  FlowInv'
<1> USE RequiredAssumption, FlowAssumption DEF FlowInv, TypeOK, ThreadsInOrder, Stopped
<1>1. ASSUME NEW start \in BOOLEAN, Call(st, start) PROVE FlowInv'
  BY <1>1 DEF Call, Goto, ManagerTypeOK, sessions, quotes, modes
<1>2. CASE Join(st)
  BY <1>2 DEF Join, Goto, ManagerTypeOK, sessions, quotes, modes
<1>3. CASE Unsubscribe(st)
  <2>1. ManagerTypeOK'
    BY <1>3, SubscriptionTypes DEF Unsubscribe, ManagerTypeOK
  <2> QED  BY <1>3, <2>1 DEF Unsubscribe, Goto, sessions, modes
<1>4. CASE EndStop(st)
  BY <1>4 DEF EndStop, Goto, ManagerTypeOK, sessions, quotes, modes
<1>5. ASSUME NEW e \in Exchanges, StartExchange(st, e) PROVE FlowInv'
  <2>1. /\ starting' = [starting EXCEPT ![st] = @ \ {e}]
        /\ \/ login' = login /\ owned' = [owned EXCEPT ![st] = @ \cup {e}]
           \/ login' = [login EXCEPT ![st] = {e}] /\ owned' = owned
        /\ e \in Required[st] /\ control[st] = "starting"
    BY <1>5 DEF StartExchange
  <2>2. /\ starting' \in [Strategies -> SUBSET Exchanges]
        /\ owned' \in [Strategies -> SUBSET Exchanges]
    BY <2>1
  <2>6. login' \in [Strategies -> OneOrNone]
    <3>1. login \in [Strategies -> OneOrNone] /\ {e} \in OneOrNone
      BY DEF OneOrNone
    <3> HIDE DEF FlowInv, TypeOK
    <3> QED  BY <2>1, <3>1
  <2>3. \A t \in Strategies : starting'[t] \cup login'[t] \cup owned'[t] \subseteq Required[t]
    BY <2>1
  <2>4. refCount' \in [Exchanges -> Nat] /\ loggedIn' \cup crossed' \subseteq Exchanges
    BY <1>5 DEF StartExchange
  <2>5. ThreadsInOrder'
    BY <1>5, <2>1 DEF StartExchange
  <2> QED
    BY <1>5, <2>2, <2>3, <2>4, <2>5, <2>6 DEF StartExchange, ManagerTypeOK, quotes, modes
<1>6. CASE LoginEnds(st)
  <2>1. /\ login' = [login EXCEPT ![st] = {}] /\ stale' = stale \ {st}
        /\ owned' = owned \/ owned' = [owned EXCEPT ![st] = @ \cup login[st]]
        /\ refCount' \in [Exchanges -> Nat] /\ loggedIn' \subseteq Exchanges
    BY <1>6 DEF LoginEnds, CountSet
  <2>2. owned' \in [Strategies -> SUBSET Exchanges] /\ login' \in [Strategies -> OneOrNone]
    BY <2>1 DEF OneOrNone
  <2>3. \A t \in Strategies : starting[t] \cup login'[t] \cup owned'[t] \subseteq Required[t]
    BY <2>1
  <2> QED  BY <1>6, <2>1, <2>2, <2>3 DEF LoginEnds, ManagerTypeOK, quotes, modes
<1>7. CASE Launch(st)
  <2>1. ManagerTypeOK'
    BY <1>7, SubscriptionTypes DEF Launch, ManagerTypeOK
  <2> QED  BY <1>7, <2>1 DEF Launch, Goto, sessions, modes
<1> QED  BY <1>1, <1>2, <1>3, <1>4, <1>5, <1>6, <1>7 DEF ControlStep

LEMMA WorkerKeepsOrder ==
  ASSUME FlowInv, NEW st \in Strategies, WorkerStep(st) \/ Fail(st)
  PROVE  FlowInv'
<1> USE RequiredAssumption DEF FlowInv, TypeOK, ThreadsInOrder, Stopped, Work, ManagerTypeOK,
                               controls, sessions, quotes
<1>1. CASE EndOwnStop(st)
  BY <1>1 DEF EndOwnStop, modes
<1>2. CASE Enter(st)
  <2>1. mode' \in {"live", "shadow"}  BY <1>2 DEF Enter
  <2>2. original' \in [Strategies -> {"live", "shadow"}]  BY <1>2 DEF Enter
  <2> QED  BY <1>2, <2>1, <2>2 DEF Enter
<1>7. CASE Restore(st)
  <2>1. mode' \in {"live", "shadow"}  BY <1>7 DEF Restore
  <2> QED  BY <1>7, <2>1 DEF Restore
<1>3. CASE NoQuotes(st)
  BY <1>3 DEF NoQuotes, modes
<1>6. CASE Loop(st)
  BY <1>6 DEF Loop, modes
<1>4. CASE Quit(st)
  BY <1>4 DEF Quit, modes
<1>5. CASE Fail(st)
  BY <1>5 DEF Fail, modes
<1> QED  BY <1>1, <1>2, <1>3, <1>4, <1>5, <1>6, <1>7 DEF WorkerStep

\* Exchanges are stopped only by a thread that stops.
LEMMA StopKeepsOrder ==
  ASSUME FlowInv, NEW st \in Strategies, StopStep(st)
  PROVE  FlowInv'
<1> USE RequiredAssumption DEF FlowInv, TypeOK, ThreadsInOrder, Stopped, ManagerTypeOK,
                               controls, quotes, modes
<1>1. ASSUME NEW e \in Exchanges, StopExchange(st, e) PROVE FlowInv'
  <2>1. refCount' \in [Exchanges -> Nat] /\ crossed' \subseteq Exchanges
    BY <1>1 DEF StopExchange
  <2>2. leaving' \in [Strategies -> OneOrNone]
    <3>1. /\ leaving \in [Strategies -> OneOrNone] /\ {e} \in OneOrNone /\ {} \in OneOrNone
          /\ leaving' = [leaving EXCEPT ![st] = IF refCount[e] = 1 THEN {e} ELSE {}]
      BY <1>1 DEF StopExchange, OneOrNone
    <3> HIDE DEF FlowInv, TypeOK
    <3> QED  BY <3>1
  <2>4. /\ stopping' \in [Strategies -> SUBSET Exchanges]
        /\ owned' \in [Strategies -> SUBSET Exchanges]
    BY <1>1 DEF StopExchange
  <2>3. \A t \in Strategies :
          /\ starting'[t] \cup login'[t] \cup owned'[t] \subseteq Required[t]
          /\ stopping'[t] \cup leaving'[t] \cup erasing'[t] \subseteq Required[t]
    BY <1>1 DEF StopExchange
  <2> QED  BY <1>1, <2>1, <2>2, <2>3, <2>4 DEF StopExchange
<1>2. CASE Logout(st)
  <2>1. leaving' \in [Strategies -> OneOrNone] /\ erasing' \in [Strategies -> OneOrNone]
    BY <1>2 DEF Logout, OneOrNone
  <2> QED  BY <1>2, <2>1 DEF Logout
<1>3. CASE Erase(st)
  <2>1. erasing' \in [Strategies -> OneOrNone]
    BY <1>3 DEF Erase, OneOrNone
  <2>2. refCount' \in [Exchanges -> Nat] /\ stale' \subseteq Strategies
    BY <1>3 DEF Erase
  <2> QED  BY <1>3, <2>1, <2>2 DEF Erase
<1> QED  BY <1>1, <1>2, <1>3 DEF StopStep

LEMMA FlowStep == FlowInv /\ [Next]_vars => FlowInv'
<1>1. FlowInv /\ UNCHANGED vars => FlowInv'
  BY DEF FlowInv, TypeOK, ThreadsInOrder, Stopped, ManagerTypeOK, vars, controls, sessions,
         quotes, modes
<1> QED  BY <1>1, ControlKeepsOrder, WorkerKeepsOrder, StopKeepsOrder DEF Next

THEOREM FlowTypesCorrect == Spec => []FlowInv
BY FlowInit, FlowStep, PTL DEF Spec

-----------------------------------------------------------------------------
(* Sessions of the flow subsystem. *)

\* What owns an exchange is a set of strategies, so that it is counted.
LEMMA OwnersAreCounted ==
  ASSUME TypeOK, NEW e \in Exchanges
  PROVE  /\ Owners(e) \in SUBSET Strategies
         /\ Cardinality(Owners(e)) \in Nat /\ (Cardinality(Owners(e)) > 0 <=> Owners(e) # {})
         /\ refCount[e] \in Nat
BY CountsAreNumbers DEF TypeOK, Owners

LEMMA FlowSessionInit ==
  Init => OwnedOnce /\ CountedByOwners /\ CrossedAreShared /\ OwnedAreLoggedIn
<1> SUFFICES ASSUME Init
             PROVE  OwnedOnce /\ CountedByOwners /\ CrossedAreShared /\ OwnedAreLoggedIn
  OBVIOUS
<1>1. CountedByOwners
  <2> SUFFICES ASSUME NEW e \in Exchanges PROVE CountedSession(e)
    BY DEF CountedByOwners
  <2>1. Cardinality(Owners(e)) \in Nat  BY FlowInit, OwnersAreCounted DEF FlowInv
  <2> QED  BY <2>1 DEF Init, CountedSession, LoggingIn
<1>2. OwnedOnce /\ CrossedAreShared /\ OwnedAreLoggedIn
  BY DEF Init, OwnedOnce, CrossedAreShared, OwnedAreLoggedIn, OwnedAlone
<1> QED  BY <1>1, <1>2

\* Each exchange is started once in a run, and a stop gives up all of them.
LEMMA OwnedOnceStep == FlowSessionInv /\ [Next]_vars => OwnedOnce'
<1> SUFFICES ASSUME FlowSessionInv, [Next]_vars PROVE OwnedOnce'
  OBVIOUS
<1> USE DEF FlowSessionInv, FlowInv, ThreadsInOrder, Stopped, TypeOK, OwnedOnce, Goto, Work,
            sessions
<1>1. ASSUME NEW st \in Strategies, NEW start \in BOOLEAN, Call(st, start) PROVE OwnedOnce'
  BY <1>1 DEF Call
<1>2. ASSUME NEW st \in Strategies, Join(st) \/ Unsubscribe(st) \/ Launch(st) PROVE OwnedOnce'
  BY <1>2 DEF Join, Unsubscribe, Launch
<1>3. ASSUME NEW st \in Strategies, EndStop(st) PROVE OwnedOnce'
  BY <1>3 DEF EndStop
<1>4. ASSUME NEW st \in Strategies, NEW e \in Exchanges, StartExchange(st, e) PROVE OwnedOnce'
  BY <1>4 DEF StartExchange
<1>5. ASSUME NEW st \in Strategies, LoginEnds(st) PROVE OwnedOnce'
  BY <1>5 DEF LoginEnds
<1>6. ASSUME NEW st \in Strategies, WorkerStep(st) \/ Fail(st) PROVE OwnedOnce'
  BY <1>6 DEF WorkerStep, Enter, NoQuotes, Loop, Quit, EndOwnStop, Restore, Fail, controls
<1>7. ASSUME NEW st \in Strategies, NEW e \in Exchanges, StopExchange(st, e) PROVE OwnedOnce'
  BY <1>7 DEF StopExchange, controls
<1>8. ASSUME NEW st \in Strategies, Logout(st) \/ Erase(st) PROVE OwnedOnce'
  BY <1>8 DEF Logout, Erase, controls
<1>9. CASE UNCHANGED vars
  BY <1>9 DEF vars, controls
<1> QED
  BY <1>1, <1>2, <1>3, <1>4, <1>5, <1>6, <1>7, <1>8, <1>9 DEF Next, ControlStep, StopStep

\* Who logs in does not stop, and who stops does not log in.
LEMMA CrossedStep == FlowSessionInv /\ [Next]_vars => CrossedAreShared'
<1> SUFFICES ASSUME FlowSessionInv, [Next]_vars PROVE CrossedAreShared'
  OBVIOUS
<1> USE DEF FlowSessionInv, FlowInv, ThreadsInOrder, Stopped, TypeOK, CrossedAreShared
<1>1. ASSUME UNCHANGED crossed PROVE CrossedAreShared'
  BY <1>1
<1>2. ASSUME NEW st \in Strategies, NEW e \in Exchanges, StartExchange(st, e)
      PROVE  CrossedAreShared'
  <2>1. CASE Closing(e)
    <3>1. PICK o \in Strategies : e \in leaving[o] \cup erasing[o]  BY <2>1 DEF Closing
    <3>2. st # o /\ e \in Required[st] /\ e \in Required[o]
      BY <1>2, <3>1 DEF StartExchange
    <3> QED  BY <1>2, <3>2 DEF StartExchange
  <2>2. CASE ~Closing(e)
    BY <1>1, <1>2, <2>2 DEF StartExchange
  <2> QED  BY <2>1, <2>2
<1>3. ASSUME NEW st \in Strategies, NEW e \in Exchanges, StopExchange(st, e)
      PROVE  CrossedAreShared'
  <2>1. CASE LoggingIn(e) # {}
    <3>1. PICK o \in Strategies : e \in login[o]  BY <2>1 DEF LoggingIn
    <3>2. st # o /\ e \in Required[st] /\ e \in Required[o]
      BY <1>3, <3>1 DEF StopExchange
    <3> QED  BY <1>3, <3>2 DEF StopExchange
  <2>2. CASE LoggingIn(e) = {}
    BY <1>1, <1>3, <2>2 DEF StopExchange
  <2> QED  BY <2>1, <2>2
<1>4. ASSUME NEW st \in Strategies, NEW start \in BOOLEAN, Call(st, start)
      PROVE  UNCHANGED crossed
  BY <1>4 DEF Call, sessions
<1>5. ASSUME NEW st \in Strategies,
             \/ Join(st) \/ Unsubscribe(st) \/ EndStop(st) \/ LoginEnds(st) \/ Launch(st)
             \/ WorkerStep(st) \/ Fail(st) \/ Logout(st) \/ Erase(st)
      PROVE  UNCHANGED crossed
  BY <1>5 DEF Join, Unsubscribe, EndStop, LoginEnds, Launch, WorkerStep, Enter, NoQuotes, Loop,
              Quit, EndOwnStop, Restore, Fail, Logout, Erase, sessions
<1>6. CASE UNCHANGED vars
  BY <1>1, <1>6 DEF vars, sessions
<1> QED  BY <1>1, <1>2, <1>3, <1>4, <1>5, <1>6 DEF Next, ControlStep, StopStep

\* A strategy that stops an exchange owns it no more and counts it down: the count
\* stays within the owners, also if the strategy was none.  The last one closes it.
LEMMA StopKeepsCounted ==
  ASSUME FlowSessionInv, NEW st \in Strategies, NEW x \in Exchanges, StopExchange(st, x)
  PROVE  CountedByOwners' /\ OwnedAreLoggedIn'
<1> USE DEF FlowSessionInv, FlowInv
<1>0. /\ refCount' = [refCount EXCEPT ![x] = IF @ > 0 THEN @ - 1 ELSE @]
      /\ leaving' = [leaving EXCEPT ![st] = IF refCount[x] = 1 THEN {x} ELSE {}]
      /\ crossed' = IF refCount[x] = 1 /\ LoggingIn(x) # {} THEN crossed \cup {x} ELSE crossed
      /\ owned' = [owned EXCEPT ![st] = @ \ {x}]
      /\ leaving[st] = {} /\ erasing[st] = {}
      /\ x \in Required[st]
      /\ UNCHANGED <<loggedIn, stale, erasing, login>>
  BY DEF StopExchange, controls, TypeOK
<1>1. ASSUME NEW e \in Exchanges \ crossed' PROVE CountedSession(e)'
  <2>1. CountedSession(e)  BY <1>0 DEF CountedByOwners
  <2>2. CASE e # x
    <3>1. Owners(e)' = Owners(e)  BY <1>0, <2>2 DEF Owners, TypeOK
    <3>2. refCount'[e] = refCount[e]  BY <1>0, <2>2 DEF TypeOK
    <3>3. \A o \in Strategies : e \in leaving'[o] <=> e \in leaving[o]
      BY <1>0, <2>2 DEF TypeOK
    <3>4. LoggingIn(e)' = LoggingIn(e)  BY <1>0 DEF LoggingIn
    <3> QED  BY <1>0, <2>1, <3>1, <3>2, <3>3, <3>4 DEF CountedSession
  <2>3. CASE e = x
    <3>1. /\ Owners(e) \in SUBSET Strategies /\ Cardinality(Owners(e)) \in Nat
          /\ refCount[e] \in Nat /\ refCount[e] <= Cardinality(Owners(e))
      BY <2>1, OwnersAreCounted DEF CountedSession
    <3>2. Owners(e)' = Owners(e) \ {st}
      BY <1>0, <2>3 DEF Owners, TypeOK
    <3>3. refCount'[e] = IF refCount[e] > 0 THEN refCount[e] - 1 ELSE refCount[e]
      BY <1>0, <2>3 DEF TypeOK
    <3>4. refCount'[e] <= Cardinality(Owners(e)')
      <4>1. CASE st \in Owners(e)
        <5>1. Cardinality(Owners(e)') = Cardinality(Owners(e)) - 1
          BY <3>1, <3>2, <4>1, OneMoreOrLess
        <5>2. Cardinality(Owners(e)) > 0  BY <4>1, OwnersAreCounted
        <5> HIDE DEF FlowSessionInv, FlowInv
        <5> QED  BY <3>1, <3>3, <5>1, <5>2
      <4>2. CASE st \notin Owners(e)
        <5>1. Owners(e)' = Owners(e)  BY <3>2, <4>2
        <5> QED  BY <3>1, <3>3, <5>1
      <4> QED  BY <4>1, <4>2
    <3>5. CASE refCount[e] = 1
      <4>1. \A o \in Strategies : e \notin leaving[o] /\ e \notin erasing[o]
        BY <2>1, <3>5 DEF CountedSession
      <4>2. \A o \in Strategies : e \in leaving'[o] <=> o = st
        BY <1>0, <2>3, <3>5, <4>1 DEF TypeOK
      <4>3. refCount'[e] = 0  BY <3>3, <3>5
      <4>4. LoggingIn(e)' = {}  BY <1>0, <2>3, <3>5 DEF LoggingIn
      <4>5. e \in loggedIn'  BY <1>0, <2>1, <3>5 DEF CountedSession
      <4> QED  BY <1>0, <2>1, <3>4, <4>1, <4>2, <4>3, <4>4, <4>5 DEF CountedSession
    <3>6. CASE refCount[e] # 1
      <4>1. leaving' = leaving  BY <1>0, <2>3, <3>6 DEF TypeOK
      <4>2. refCount'[e] > 0 <=> refCount[e] > 0  BY <3>1, <3>3, <3>6
      <4>3. refCount[e] = 0 => refCount'[e] = 0  BY <3>3
      <4>4. LoggingIn(e)' = LoggingIn(e)  BY <1>0 DEF LoggingIn
      <4> QED  BY <1>0, <2>1, <3>4, <4>1, <4>2, <4>3, <4>4 DEF CountedSession
    <3> QED  BY <3>5, <3>6
  <2> QED  BY <2>2, <2>3
<1>2. OwnedAreLoggedIn'
  BY <1>0 DEF OwnedAreLoggedIn, OwnedAlone, TypeOK
<1> QED  BY <1>1, <1>2 DEF CountedByOwners

\* The session ends with the one that closes it.  Who owns an exchange alone is not
\* the one: it gave the exchange up before.
LEMMA LogoutKeepsCounted ==
  ASSUME FlowSessionInv, NEW st \in Strategies, Logout(st)
  PROVE  CountedByOwners' /\ OwnedAreLoggedIn'
<1> USE DEF FlowSessionInv, FlowInv
<1>0. /\ loggedIn' = loggedIn \ leaving[st]
      /\ erasing' = [erasing EXCEPT ![st] = leaving[st]]
      /\ leaving' = [leaving EXCEPT ![st] = {}]
      /\ UNCHANGED <<refCount, stale, crossed, login, owned>>
  BY DEF Logout, controls
<1>1. ASSUME NEW e \in Exchanges \ crossed' PROVE CountedSession(e)'
  <2>1. CountedSession(e)  BY <1>0 DEF CountedByOwners
  <2>2. Owners(e)' = Owners(e) /\ LoggingIn(e)' = LoggingIn(e)
    BY <1>0 DEF Owners, LoggingIn
  <2>3. \A o \in Strategies :
          e \in leaving'[o] \cup erasing'[o] => e \in leaving[o] \cup erasing[o]
    BY <1>0 DEF TypeOK
  <2>4. e \in loggedIn' <=> refCount[e] > 0 \/ \E o \in Strategies : e \in leaving'[o]
    <3>1. CASE e \in leaving[st]
      <4>1. refCount[e] = 0 /\ \A o \in Strategies : e \in leaving[o] => o = st
        BY <2>1, <3>1 DEF CountedSession
      <4> QED  BY <1>0, <3>1, <4>1 DEF TypeOK
    <3>2. CASE e \notin leaving[st]
      BY <1>0, <2>1, <3>2 DEF CountedSession, TypeOK
    <3> QED  BY <3>1, <3>2
  <2> QED  BY <1>0, <2>1, <2>2, <2>3, <2>4 DEF CountedSession
<1>2. ASSUME NEW t \in Strategies, NEW e \in OwnedAlone(t)' PROVE e \in loggedIn'
  <2>1. e \in OwnedAlone(t) /\ e \in owned[t]  BY <1>0 DEF OwnedAlone
  <2>2. e \notin leaving[st]
    BY <2>1 DEF OwnedAlone, OwnedOnce, TypeOK
  <2> QED  BY <1>0, <2>1, <2>2 DEF OwnedAreLoggedIn
<1> QED  BY <1>1, <1>2 DEF CountedByOwners, OwnedAreLoggedIn

\* The entry of an exchange that nothing crossed holds 0 when it is erased.
LEMMA EraseKeepsCounted ==
  ASSUME FlowSessionInv, NEW st \in Strategies, Erase(st)
  PROVE  CountedByOwners' /\ OwnedAreLoggedIn'
<1> USE DEF FlowSessionInv, FlowInv
<1>0. /\ refCount' = [e \in Exchanges |-> IF e \in erasing[st] THEN 0 ELSE refCount[e]]
      /\ stale' = stale \cup {o \in Strategies : login[o] \cap erasing[st] # {}}
      /\ erasing' = [erasing EXCEPT ![st] = {}]
      /\ UNCHANGED <<loggedIn, crossed, leaving, login, owned>>
  BY DEF Erase, controls
<1>1. ASSUME NEW e \in Exchanges \ crossed' PROVE CountedSession(e)'
  <2>1. CountedSession(e)  BY <1>0 DEF CountedByOwners
  <2>2. Owners(e)' = Owners(e) /\ LoggingIn(e)' = LoggingIn(e)
    BY <1>0 DEF Owners, LoggingIn
  <2>3. refCount'[e] = refCount[e]
    BY <1>0, <2>1 DEF CountedSession
  <2>4. \A o \in Strategies : e \in erasing'[o] => e \in erasing[o]
    BY <1>0 DEF TypeOK
  <2>5. \A o \in stale' : e \notin login'[o]
    <3> SUFFICES ASSUME NEW o \in Strategies, e \in login[o],
                        login[o] \cap erasing[st] # {} PROVE FALSE
      BY <1>0, <2>1 DEF CountedSession
    <3>1. login[o] = {e}  BY DEF TypeOK, OneOrNone
    <3>2. LoggingIn(e) = {}  BY <3>1, <2>1 DEF CountedSession
    <3> QED  BY <3>2 DEF LoggingIn
  <2> QED  BY <1>0, <2>1, <2>2, <2>3, <2>4, <2>5 DEF CountedSession
<1>2. OwnedAreLoggedIn'
  BY <1>0 DEF OwnedAreLoggedIn, OwnedAlone
<1> QED  BY <1>1, <1>2 DEF CountedByOwners

\* A start of an exchange that has users adds an owner and a reference; a login
\* begins while nobody closes the exchange, or it crosses.
LEMMA StartKeepsCounted ==
  ASSUME FlowSessionInv, NEW st \in Strategies, NEW x \in Exchanges, StartExchange(st, x)
  PROVE  CountedByOwners' /\ OwnedAreLoggedIn'
<1> USE DEF FlowSessionInv, FlowInv
<1>0. UNCHANGED <<loggedIn, stale, leaving, erasing>>
  BY DEF StartExchange
<1>1. CASE refCount[x] > 0
  <2>1. /\ refCount' = [refCount EXCEPT ![x] = @ + 1]
        /\ owned' = [owned EXCEPT ![st] = @ \cup {x}]
        /\ x \notin owned[st] /\ x \in Required[st]
        /\ UNCHANGED <<login, crossed>>
    BY <1>1 DEF StartExchange, OwnedOnce, TypeOK
  <2>2. ASSUME NEW e \in Exchanges \ crossed' PROVE CountedSession(e)'
    <3>1. CountedSession(e)  BY <2>1 DEF CountedByOwners
    <3>2. LoggingIn(e)' = LoggingIn(e)  BY <2>1 DEF LoggingIn
    <3>3. /\ refCount[e] <= Cardinality(Owners(e)) /\ refCount[e] \in Nat
          /\ Cardinality(Owners(e)) \in Nat /\ Owners(e) \in SUBSET Strategies
      BY <3>1, OwnersAreCounted DEF CountedSession
    <3>4. CASE e = x
      <4>1. Owners(e)' = Owners(e) \cup {st} /\ st \notin Owners(e)
        BY <2>1, <3>4 DEF Owners, TypeOK
      <4>2. Cardinality(Owners(e)') = Cardinality(Owners(e)) + 1
        BY <3>3, <4>1, OneMoreOrLess
      <4>3. refCount'[e] = refCount[e] + 1  BY <2>1, <3>4 DEF TypeOK
      <4>4. refCount'[e] <= Cardinality(Owners(e)') /\ refCount'[e] > 0 /\ refCount[e] > 0
        BY <1>1, <3>3, <3>4, <4>2, <4>3
      <4>5. refCount[e] # 0  BY <1>1, <3>4
      <4> QED  BY <1>0, <2>1, <3>1, <3>2, <4>4, <4>5 DEF CountedSession
    <3>5. CASE e # x
      <4>1. Owners(e)' = Owners(e)  BY <2>1, <3>5 DEF Owners, TypeOK
      <4>2. refCount'[e] = refCount[e]  BY <2>1, <3>5 DEF TypeOK
      <4> QED  BY <1>0, <2>1, <3>1, <3>2, <4>1, <4>2 DEF CountedSession
    <3> QED  BY <3>4, <3>5
  <2>3. OwnedAreLoggedIn'
    <3> SUFFICES ASSUME NEW t \in Strategies, NEW e \in OwnedAlone(t)' PROVE e \in loggedIn
      BY <1>0 DEF OwnedAreLoggedIn
    <3>1. CASE e \in OwnedAlone(t)
      BY <3>1 DEF OwnedAreLoggedIn
    <3>2. CASE e \notin OwnedAlone(t)
      <4>1. t = st /\ e = x  BY <2>1, <3>2 DEF OwnedAlone, TypeOK
      <4>2. \A o \in Strategies \ {t} : e \notin Required[o]  BY DEF OwnedAlone
      <4>3. e \notin crossed
        BY <4>2 DEF CrossedAreShared
      <4> QED  BY <1>1, <4>1, <4>3 DEF CountedByOwners, CountedSession
    <3> QED  BY <3>1, <3>2
  <2> QED  BY <2>2, <2>3 DEF CountedByOwners
<1>2. CASE ~(refCount[x] > 0)
  <2>1. /\ login' = [login EXCEPT ![st] = {x}]
        /\ crossed' = IF Closing(x) THEN crossed \cup {x} ELSE crossed
        /\ UNCHANGED <<refCount, owned>>
        /\ login[st] = {}
    BY <1>2 DEF StartExchange
  <2>2. ASSUME NEW e \in Exchanges \ crossed' PROVE CountedSession(e)'
    <3>1. CountedSession(e) /\ Owners(e)' = Owners(e)
      BY <2>1 DEF CountedByOwners, Owners
    <3>2. CASE e # x
      <4>1. LoggingIn(e)' = LoggingIn(e)  BY <2>1, <3>2 DEF LoggingIn, TypeOK
      <4>2. \A o \in Strategies : e \in login'[o] <=> e \in login[o]
        BY <2>1, <3>2 DEF TypeOK
      <4>3. stale \subseteq Strategies  BY DEF TypeOK
      <4> QED  BY <1>0, <2>1, <3>1, <4>1, <4>2, <4>3 DEF CountedSession
    <3>3. CASE e = x
      <4>1. \A o \in Strategies : e \notin leaving[o] \cup erasing[o]
        BY <2>1, <3>3 DEF Closing
      <4>2. st \notin stale
        BY <2>1 DEF OwnedOnce
      <4>3. \A o \in stale : e \notin login'[o]
        BY <2>1, <3>1, <4>2 DEF CountedSession, TypeOK
      <4> QED  BY <1>0, <2>1, <3>1, <4>1, <4>3 DEF CountedSession
    <3> QED  BY <3>2, <3>3
  <2>3. OwnedAreLoggedIn'
    BY <1>0, <2>1 DEF OwnedAreLoggedIn, OwnedAlone
  <2> QED  BY <2>2, <2>3 DEF CountedByOwners
<1> QED  BY <1>1, <1>2

\* A login sets the count to 1, whatever it was: one owner is enough for that.
LEMMA LoginKeepsCounted ==
  ASSUME FlowSessionInv, NEW st \in Strategies, LoginEnds(st)
  PROVE  CountedByOwners' /\ OwnedAreLoggedIn'
<1> USE DEF FlowSessionInv, FlowInv
<1>0. /\ login' = [login EXCEPT ![st] = {}] /\ stale' = stale \ {st}
      /\ UNCHANGED <<crossed, leaving, erasing>>
  BY DEF LoginEnds
<1>1. CASE UNCHANGED <<refCount, loggedIn, owned>>
  <2>1. ASSUME NEW e \in Exchanges \ crossed' PROVE CountedSession(e)'
    <3>1. CountedSession(e) /\ Owners(e)' = Owners(e)
      BY <1>0, <1>1 DEF CountedByOwners, Owners
    <3>2. LoggingIn(e)' \subseteq LoggingIn(e)
      BY <1>0 DEF LoggingIn, TypeOK
    <3>3. \A o \in stale' : e \notin login'[o]
      BY <1>0, <3>1 DEF CountedSession, TypeOK
    <3> QED  BY <1>0, <1>1, <3>1, <3>2, <3>3 DEF CountedSession
  <2> QED  BY <1>1, <2>1 DEF CountedByOwners, OwnedAreLoggedIn, OwnedAlone
<1>2. CASE /\ loggedIn' = loggedIn \cup login[st] /\ CountSet(st)
           /\ owned' = [owned EXCEPT ![st] = @ \cup login[st]]
  <2>1. ASSUME NEW e \in Exchanges \ crossed' PROVE CountedSession(e)'
    <3>1. CountedSession(e)  BY <1>0 DEF CountedByOwners
    <3>2. LoggingIn(e)' \subseteq LoggingIn(e)
      BY <1>0 DEF LoggingIn, TypeOK
    <3>3. \A o \in stale' : e \notin login'[o]
      BY <1>0, <3>1 DEF CountedSession, TypeOK
    <3>4. CASE e \in login[st]
      <4>1. st \notin stale  BY <3>1, <3>4 DEF CountedSession
      <4>2. refCount'[e] = 1  BY <1>2, <3>4, <4>1 DEF CountSet
      <4>3. st \in Owners(e)' /\ Owners(e)' \in SUBSET Strategies
        BY <1>2, <3>4 DEF Owners, TypeOK
      <4>4. Cardinality(Owners(e)') \in Nat /\ Cardinality(Owners(e)') > 0
        BY <4>3, CountsAreNumbers
      <4>5. refCount'[e] <= Cardinality(Owners(e)') /\ refCount'[e] > 0
        BY <4>2, <4>4
      <4>6. \A o \in Strategies : e \notin leaving[o] \cup erasing[o]
        BY <3>1, <3>4 DEF CountedSession, LoggingIn
      <4>7. e \in loggedIn'  BY <1>2, <3>4
      <4> QED  BY <1>0, <3>3, <4>5, <4>6, <4>7 DEF CountedSession
    <3>5. CASE e \notin login[st]
      <4>1. Owners(e)' = Owners(e)  BY <1>2, <3>5 DEF Owners, TypeOK
      <4>2. refCount'[e] = refCount[e]  BY <1>2, <3>5 DEF CountSet
      <4>3. e \in loggedIn' <=> e \in loggedIn  BY <1>2, <3>5
      <4> QED  BY <1>0, <3>1, <3>2, <3>3, <4>1, <4>2, <4>3 DEF CountedSession
    <3> QED  BY <3>4, <3>5
  <2>2. OwnedAreLoggedIn'
    BY <1>2 DEF OwnedAreLoggedIn, OwnedAlone, TypeOK
  <2> QED  BY <2>1, <2>2 DEF CountedByOwners
<1> QED  BY <1>1, <1>2 DEF LoginEnds

LEMMA FlowSessionStep ==
  FlowSessionInv /\ [Next]_vars => CountedByOwners' /\ OwnedAreLoggedIn'
<1> SUFFICES ASSUME FlowSessionInv, [Next]_vars PROVE CountedByOwners' /\ OwnedAreLoggedIn'
  OBVIOUS
<1>1. ASSUME UNCHANGED <<sessions, login, owned>> PROVE CountedByOwners' /\ OwnedAreLoggedIn'
  BY <1>1 DEF FlowSessionInv, sessions, CountedByOwners, CountedSession, Owners, LoggingIn,
              OwnedAreLoggedIn, OwnedAlone
<1>2. ASSUME NEW st \in Strategies, NEW start \in BOOLEAN, Call(st, start)
      PROVE  UNCHANGED <<sessions, login, owned>>
  BY <1>2 DEF Call
<1>3. ASSUME NEW st \in Strategies, Join(st) \/ Unsubscribe(st) \/ EndStop(st) \/ Launch(st)
      PROVE  UNCHANGED <<sessions, login, owned>>
  BY <1>3 DEF Join, Unsubscribe, EndStop, Launch
<1>4. ASSUME NEW st \in Strategies, WorkerStep(st) \/ Fail(st)
      PROVE  UNCHANGED <<sessions, login, owned>>
  BY <1>4 DEF WorkerStep, Enter, NoQuotes, Loop, Quit, EndOwnStop, Restore, Fail, controls
<1>5. CASE UNCHANGED vars
  BY <1>1, <1>5 DEF vars, controls
<1> QED
  BY <1>1, <1>2, <1>3, <1>4, <1>5, StartKeepsCounted, LoginKeepsCounted, StopKeepsCounted,
     LogoutKeepsCounted, EraseKeepsCounted
  DEF Next, ControlStep, StopStep

\* The inductive invariant of the sessions, for any number of strategies that
\* start, stop and fail as they like, with every interleaving of their logins and
\* logouts.
THEOREM FlowSessionsCorrect == Spec => []FlowSessionInv
<1>1. Init => FlowSessionInv
  BY FlowInit, FlowSessionInit DEF FlowSessionInv
<1>2. FlowSessionInv /\ [Next]_vars => FlowSessionInv'
  BY FlowStep, OwnedOnceStep, CrossedStep, FlowSessionStep DEF FlowSessionInv
<1> QED  BY <1>1, <1>2, PTL DEF Spec

\* What was started for a running strategy alone stays logged in.
THEOREM OwnExchangesAreKept == Spec => []RunningKeepsOwnExchanges
<1>1. FlowSessionInv => RunningKeepsOwnExchanges
  BY DEF FlowSessionInv, OwnedAreLoggedIn, RunningKeepsOwnExchanges
<1> QED  BY <1>1, FlowSessionsCorrect, PTL

\* When all its strategies were stopped an exchange that no login crossed is logged
\* out: a session is counted or being closed, a count has an owner, and neither an
\* owner nor who closes has been stopped.
THEOREM StoppedAreLoggedOut == Spec => []StoppedIsLoggedOut
<1>1. FlowSessionInv => StoppedIsLoggedOut
  <2> USE DEF FlowSessionInv, FlowInv
  <2> SUFFICES ASSUME FlowSessionInv, NEW e \in loggedIn \ crossed
               PROVE  \E st \in Strategies :
                        e \in Required[st] /\ ~(control[st] = "idle" /\ worker[st] = "none")
    BY DEF StoppedIsLoggedOut
  <2>1. e \in Exchanges  BY DEF TypeOK
  <2>2. CountedSession(e)  BY <2>1 DEF CountedByOwners
  <2>3. CASE refCount[e] > 0
    <3>1. Owners(e) # {}
      BY <2>1, <2>2, <2>3, OwnersAreCounted DEF CountedSession
    <3>2. PICK st \in Strategies : e \in owned[st]  BY <3>1 DEF Owners
    <3>3. e \in Required[st]  BY <3>2 DEF TypeOK
    <3> QED  BY <3>2, <3>3 DEF OwnedOnce
  <2>4. CASE ~(refCount[e] > 0)
    <3>1. PICK st \in Strategies : e \in leaving[st]
      BY <2>2, <2>4 DEF CountedSession
    <3>2. e \in Required[st]  BY <3>1 DEF TypeOK
    <3> QED  BY <3>1, <3>2 DEF ThreadsInOrder, Stopped
  <2> QED  BY <2>3, <2>4
<1> QED  BY <1>1, FlowSessionsCorrect, PTL

-----------------------------------------------------------------------------
(* Quotes of the flow subsystem. *)

LEMMA FlowQuoteInit == Init => SubscribedToPool /\ SymbolsCountedOnce /\ SharedAreWatched
<1> SUFFICES ASSUME Init PROVE SubscribedToPool /\ SymbolsCountedOnce /\ SharedAreWatched
  OBVIOUS
<1>1. \A s \in Symbols : Subscribers(s) = {}
  BY DEF Init, InitManager, Subscribers
<1>2. SymbolsCountedOnce
  <2> SUFFICES ASSUME NEW s \in Symbols PROVE symbolCount[s] = Cardinality(Subscribers(s))
    BY DEF SymbolsCountedOnce
  <2>1. Cardinality(Subscribers(s)) = 0  BY <1>1, FS_EmptySet
  <2> QED  BY <2>1 DEF Init, InitManager
<1>3. SubscribedToPool /\ SharedAreWatched
  BY DEF Init, InitManager, SubscribedToPool, SharedAreWatched, SharedBy
<1> QED  BY <1>2, <1>3

\* The subscribers of a symbol: they have it in their pools, and are counted.
LEMMA SubscribersAreCounted ==
  ASSUME FlowQuoteInv, NEW s \in Symbols
  PROVE  /\ Subscribers(s) \in SUBSET Strategies
         /\ symbolCount[s] = Cardinality(Subscribers(s)) /\ symbolCount[s] \in Nat
         /\ symbolCount[s] > 0 <=> Subscribers(s) # {}
         /\ \A st \in Strategies : st \in Subscribers(s) <=> s \in subscription[st]
<1>1. Subscribers(s) \in SUBSET Strategies  BY DEF Subscribers
<1>2. symbolCount[s] = Cardinality(Subscribers(s)) /\ symbolCount[s] \in Nat
  BY DEF FlowQuoteInv, SymbolsCountedOnce, FlowInv, TypeOK, ManagerTypeOK
<1>3. \A st \in Strategies : st \in Subscribers(s) <=> s \in subscription[st]
  BY DEF Subscribers
<1> QED  BY <1>1, <1>2, <1>3, CountsAreNumbers

\* A stop takes the strategy from the subscribers of its symbols, and one
\* reference; the last of them ends the polling.
LEMMA UnsubscribeKeepsQuotes ==
  ASSUME FlowQuoteInv, NEW st \in Strategies, UnsubscribeSymbols(st, Required[st])
  PROVE  SymbolsCountedOnce' /\ SharedAreWatched'
<1>1. ASSUME NEW s \in Symbols
      PROVE  /\ symbolCount'[s] = Cardinality(Subscribers(s)')
             /\ symbolCount'[s] = IF s \in subscription[st] THEN symbolCount[s] - 1
                                                              ELSE symbolCount[s]
  <2>1. Subscribers(s)' = Subscribers(s) \ {st}
    BY DEF UnsubscribeSymbols, Subscribers, FlowQuoteInv, FlowInv, TypeOK, ManagerTypeOK
  <2>2. CASE s \in subscription[st]
    <3>1. Cardinality(Subscribers(s)') = Cardinality(Subscribers(s)) - 1 /\ symbolCount[s] > 0
      BY <2>1, <2>2, SubscribersAreCounted, OneMoreOrLess
    <3> QED  BY <2>2, <3>1, SubscribersAreCounted DEF UnsubscribeSymbols
  <2>3. CASE s \notin subscription[st]
    <3>1. Subscribers(s)' = Subscribers(s)
      BY <2>1, <2>3, SubscribersAreCounted
    <3> QED  BY <2>3, <3>1, SubscribersAreCounted DEF UnsubscribeSymbols
  <2> QED  BY <2>2, <2>3
<1>2. ASSUME NEW s \in Symbols, NEW e \in SharedBy(s)
      PROVE  s \in watched'[e] <=> symbolCount'[s] > 0
  <2>1. e \in Exchanges /\ (s \in subscription[st] => e \in Required[st])
    BY DEF SharedBy, FlowQuoteInv, SubscribedToPool
  <2>2. s \in watched[e] <=> symbolCount[s] > 0  BY DEF FlowQuoteInv, SharedAreWatched
  <2>3. s \in watched'[e] <=>
          s \in watched[e] /\ ~(s \in subscription[st] /\ symbolCount[s] = 1)
    BY <2>1 DEF UnsubscribeSymbols
  <2>4. symbolCount[s] \in Nat /\ (s \in subscription[st] => symbolCount[s] > 0)
    BY SubscribersAreCounted
  <2> QED  BY <1>1, <2>2, <2>3, <2>4
<1>3. \A s \in Symbols : SharedBy(s)' = SharedBy(s)  BY DEF SharedBy
<1> QED  BY <1>1, <1>2, <1>3 DEF SymbolsCountedOnce, SharedAreWatched

\* A launched strategy was subscribed to nothing: it is one more subscriber of
\* each symbol of its pool, and the first one starts the polling.
LEMMA LaunchKeepsQuotes ==
  ASSUME FlowQuoteInv, NEW st \in Strategies, Launch(st)
  PROVE  SymbolsCountedOnce' /\ SharedAreWatched'
<1>1. subscription[st] = {} /\ SubscribeSymbols(st, Required[st], Pool[st])
  BY DEF Launch, Goto, FlowQuoteInv, SubscribedToPool
<1>2. ASSUME NEW s \in Symbols
      PROVE  /\ symbolCount'[s] = Cardinality(Subscribers(s)')
             /\ symbolCount'[s] = IF s \in Pool[st] THEN symbolCount[s] + 1 ELSE symbolCount[s]
  <2>1. /\ st \notin Subscribers(s)
        /\ Subscribers(s)' = IF s \in Pool[st] THEN Subscribers(s) \cup {st} ELSE Subscribers(s)
    BY <1>1 DEF SubscribeSymbols, Subscribers, FlowQuoteInv, FlowInv, TypeOK,
                ManagerTypeOK
  <2>2. symbolCount'[s] = IF s \in Pool[st] THEN symbolCount[s] + 1 ELSE symbolCount[s]
    BY <1>1 DEF SubscribeSymbols
  <2>3. Cardinality(Subscribers(s) \cup {st}) = Cardinality(Subscribers(s)) + 1
    BY <2>1, SubscribersAreCounted, OneMoreOrLess
  <2>4. CASE s \in Pool[st]
    BY <2>1, <2>2, <2>3, <2>4, SubscribersAreCounted
  <2>5. CASE s \notin Pool[st]
    BY <2>1, <2>2, <2>5, SubscribersAreCounted
  <2> QED  BY <2>4, <2>5
<1>3. ASSUME NEW s \in Symbols, NEW e \in SharedBy(s)
      PROVE  s \in watched'[e] <=> symbolCount'[s] > 0
  <2>1. e \in Exchanges /\ (s \in Pool[st] => e \in Required[st])
    BY DEF SharedBy
  <2>2. s \in watched[e] <=> symbolCount[s] > 0  BY DEF FlowQuoteInv, SharedAreWatched
  <2>3. s \in watched'[e] <=> s \in watched[e] \/ (s \in Pool[st] /\ symbolCount[s] = 0)
    BY <1>1, <2>1 DEF SubscribeSymbols
  <2>4. symbolCount[s] \in Nat  BY SubscribersAreCounted
  <2> QED  BY <1>2, <2>2, <2>3, <2>4
<1>4. \A s \in Symbols : SharedBy(s)' = SharedBy(s)  BY DEF SharedBy
<1> QED  BY <1>2, <1>3, <1>4 DEF SymbolsCountedOnce, SharedAreWatched

LEMMA SubscribedStep == FlowQuoteInv /\ [Next]_vars => SubscribedToPool'
<1> SUFFICES ASSUME FlowQuoteInv, [Next]_vars PROVE SubscribedToPool'
  OBVIOUS
<1> USE DEF FlowQuoteInv, FlowInv, ThreadsInOrder, TypeOK, SubscribedToPool,
            Goto, Work, quotes
<1>1. ASSUME NEW st \in Strategies, NEW start \in BOOLEAN, Call(st, start)
      PROVE  SubscribedToPool'
  BY <1>1 DEF Call
<1>2. ASSUME NEW st \in Strategies, Join(st) PROVE SubscribedToPool'
  BY <1>2 DEF Join
<1>10. ASSUME NEW st \in Strategies, EndStop(st) PROVE SubscribedToPool'
  BY <1>10 DEF EndStop
<1>3. ASSUME NEW st \in Strategies, Unsubscribe(st) PROVE SubscribedToPool'
  <2>1. subscription' = [subscription EXCEPT ![st] = {}] /\ worker' = worker
    BY <1>3 DEF Unsubscribe, UnsubscribeSymbols
  <2>2. control' = [control EXCEPT ![st] = "stopping"] /\ worker[st] = "none"
    BY <1>3 DEF Unsubscribe
  <2>3. /\ subscription \in [Strategies -> SUBSET Symbols]
        /\ control \in [Strategies -> {"idle", "joining", "unsubscribing", "stopping", "starting"}]
        /\ \A o \in Strategies :
             /\ subscription[o] \in {{}, Pool[o]}
             /\ worker[o] # "none" => subscription[o] = Pool[o]
             /\ control[o] \in {"stopping", "starting"} => subscription[o] = {}
    BY DEF ManagerTypeOK
  <2> HIDE DEF FlowQuoteInv
  <2> QED  BY <2>1, <2>2, <2>3
<1>4. ASSUME NEW st \in Strategies, NEW e \in Exchanges, StartExchange(st, e)
      PROVE  SubscribedToPool'
  BY <1>4 DEF StartExchange
<1>5. ASSUME NEW st \in Strategies, LoginEnds(st) PROVE SubscribedToPool'
  BY <1>5 DEF LoginEnds
<1>6. ASSUME NEW st \in Strategies, Launch(st) PROVE SubscribedToPool'
  BY <1>6 DEF Launch, SubscribeSymbols, ManagerTypeOK
<1>7. ASSUME NEW st \in Strategies, WorkerStep(st) \/ Fail(st) PROVE SubscribedToPool'
  BY <1>7 DEF WorkerStep, Enter, NoQuotes, Loop, Quit, EndOwnStop, Restore, Fail, controls
<1>9. ASSUME NEW st \in Strategies, StopStep(st) PROVE SubscribedToPool'
  BY <1>9 DEF StopStep, StopExchange, Logout, Erase, controls
<1>8. CASE UNCHANGED vars
  BY <1>8 DEF vars, controls
<1> QED  BY <1>1, <1>2, <1>3, <1>4, <1>5, <1>6, <1>7, <1>8, <1>9, <1>10
  DEF Next, ControlStep

LEMMA FlowQuoteStep ==
  FlowQuoteInv /\ [Next]_vars => SymbolsCountedOnce' /\ SharedAreWatched'
<1> SUFFICES ASSUME FlowQuoteInv, [Next]_vars PROVE SymbolsCountedOnce' /\ SharedAreWatched'
  OBVIOUS
<1>1. ASSUME UNCHANGED quotes PROVE SymbolsCountedOnce' /\ SharedAreWatched'
  BY <1>1 DEF FlowQuoteInv, quotes, SymbolsCountedOnce, Subscribers, SharedAreWatched, SharedBy
<1>2. ASSUME NEW st \in Strategies, Unsubscribe(st)
      PROVE  SymbolsCountedOnce' /\ SharedAreWatched'
  BY <1>2, UnsubscribeKeepsQuotes DEF Unsubscribe
<1>3. ASSUME NEW st \in Strategies, NEW start \in BOOLEAN, Call(st, start)
      PROVE  UNCHANGED quotes
  BY <1>3 DEF Call
<1>4. ASSUME NEW st \in Strategies,
             Join(st) \/ EndStop(st) \/ LoginEnds(st)
             \/ \E e \in Exchanges : StartExchange(st, e)
      PROVE  UNCHANGED quotes
  BY <1>4 DEF Join, EndStop, StartExchange, LoginEnds
<1>5. ASSUME NEW st \in Strategies, WorkerStep(st) \/ Fail(st) \/ StopStep(st)
      PROVE  UNCHANGED quotes
  BY <1>5 DEF WorkerStep, Enter, NoQuotes, Loop, Quit, EndOwnStop, Restore, Fail, StopStep,
              StopExchange, Logout, Erase
<1>6. CASE UNCHANGED vars
  BY <1>1, <1>6 DEF vars
<1> QED  BY <1>1, <1>2, <1>3, <1>4, <1>5, <1>6, LaunchKeepsQuotes DEF Next, ControlStep

\* The inductive invariant of the subscriptions of real-time strategies.
THEOREM FlowQuotesCorrect == Spec => []FlowQuoteInv
<1>1. Init => FlowQuoteInv
  BY FlowInit, FlowQuoteInit DEF FlowQuoteInv
<1>2. FlowQuoteInv /\ [Next]_vars => FlowQuoteInv'
  BY FlowStep, SubscribedStep, FlowQuoteStep DEF FlowQuoteInv
<1> QED  BY <1>1, <1>2, PTL DEF Spec

\* The symbols of a running strategy are polled where all that share them look.
THEOREM RunningAreSubscribed == Spec => []RunningIsSubscribed
<1>1. FlowQuoteInv => RunningIsSubscribed
  <2> SUFFICES ASSUME FlowQuoteInv, NEW st \in Strategies, Trades(st),
                      NEW s \in Pool[st], NEW e \in SharedBy(s)
               PROVE  s \in watched[e]
    BY DEF RunningIsSubscribed
  <2>1. s \in subscription[st]
    BY DEF Trades, FlowQuoteInv, SubscribedToPool
  <2>2. s \in Symbols  BY FlowAssumption
  <2>3. symbolCount[s] > 0  BY <2>1, <2>2, SubscribersAreCounted
  <2> QED  BY <2>2, <2>3 DEF FlowQuoteInv, SharedAreWatched
<1> QED  BY <1>1, FlowQuotesCorrect, PTL

\* Those exchanges poll only what some strategy is subscribed to.
THEOREM UnusedSymbolsAreDropped == Spec => []UnusedAreDropped
<1>1. FlowQuoteInv => UnusedAreDropped
  BY SubscribersAreCounted DEF UnusedAreDropped, FlowQuoteInv, SharedAreWatched
<1> QED  BY <1>1, FlowQuotesCorrect, PTL
=============================================================================
