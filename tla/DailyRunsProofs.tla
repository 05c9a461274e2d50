-------------------------- MODULE DailyRunsProofs --------------------------
(***************************************************************************)
(* For any strategies, pools and days, a strategy has one run at a time,   *)
(* none is left once a stop has returned, the errors of a day are mailed,  *)
(* and, where strategies require the same exchanges, enlisted symbols stay *)
(* polled.                                                                 *)
(*                                                                         *)
(* The first needs that a strategy with a run in progress was executed     *)
(* today, or withdrawn: nothing triggers it again.  The second follows the *)
(* handle of the worker: whoever is alive is in the handle or is awaited,  *)
(* and a strategy that does not run has given both away.  Errors are kept  *)
(* only while a run has still to call back.  Symbols stay polled because a *)
(* strategy that has run keeps one reference to each of its pool.          *)
(***************************************************************************)
EXTENDS DailyRuns, FiniteSetTheorems, TLAPS

Stages == {"none", "triggered", "released", "checked", "created", "replaying",
           "reported", "closed", "ended"}

FlowTypeOK ==
  /\ enlisted \subseteq Strategies
  /\ stage \in [Strategies -> [Slots -> Stages]]
  /\ handle \in [Strategies -> SUBSET Slots]
  /\ awaited \in [Strategies -> SUBSET Slots]
  /\ control \in [Strategies -> {"idle", "run", "stop", "runJoins", "stopJoins",
                                 "runCloses", "stopCloses", "stopped"}]

\* No two runs, and none of a strategy that may be triggered today.
OneRun ==
  \A st \in Strategies :
    /\ \A m, n \in InProgress(st) : m = n
    /\ InProgress(st) # {} => st \notin enlisted \ executed

\* Workers are in the handle or awaited; a strategy that does not run gives up
\* its handle before it joins and waits for nobody afterwards.
WorkersAreHeld ==
  \A st \in Strategies :
    /\ control[st] # "idle" => st \notin running
    /\ st \notin running /\ control[st] \notin {"run", "stop"} => handle[st] = {}
    /\ awaited[st] # {} => control[st] \in {"runJoins", "stopJoins"}
    /\ Alive(st) \subseteq handle[st] \cup awaited[st]

RunsInv == FlowTypeOK /\ OneRun /\ WorkersAreHeld

-----------------------------------------------------------------------------
(* The stages of a run. *)

\* A run that advances is the only one that moves.
LEMMA AdvanceMoves ==
  ASSUME FlowTypeOK, NEW st \in Strategies, NEW n \in Slots,
         NEW from \in Stages, NEW to \in Stages, Advance(st, n, from, to)
  PROVE  /\ stage' \in [Strategies -> [Slots -> Stages]]
         /\ stage[st][n] = from /\ stage'[st][n] = to
         /\ \A r \in Strategies, k \in Slots :
              r # st \/ k # n => stage'[r][k] = stage[r][k]
BY DEF FlowTypeOK, Advance

\* No step of a run puts another one in progress.
LEMMA RunsOnlyEnd ==
  ASSUME FlowTypeOK, NEW st \in Strategies, NEW n \in Slots, RunStep(st, n)
  PROVE  /\ stage' \in [Strategies -> [Slots -> Stages]]
         /\ \A r \in Strategies : InProgress(r)' \subseteq InProgress(r)
<1>1. ASSUME NEW from \in Stages \ {"none", "ended"}, NEW to \in Stages,
             Advance(st, n, from, to)
      PROVE  /\ stage' \in [Strategies -> [Slots -> Stages]]
             /\ \A r \in Strategies : InProgress(r)' \subseteq InProgress(r)
  <2>1. /\ stage' \in [Strategies -> [Slots -> Stages]]
        /\ stage[st][n] = from
        /\ \A r \in Strategies, k \in Slots :
             r # st \/ k # n => stage'[r][k] = stage[r][k]
    BY <1>1, AdvanceMoves
  <2>2. n \in InProgress(st)
    BY <2>1 DEF InProgress
  <2>3. ASSUME NEW r \in Strategies, NEW k \in InProgress(r)' PROVE k \in InProgress(r)
    BY <2>1, <2>2, <2>3 DEF InProgress
  <2> QED  BY <2>1, <2>3
<1>2. CASE Reap(st, n)
  <2>1. Advance(st, n, "ended", "none")
    BY <1>2 DEF Reap
  <2>2. "ended" \in Stages /\ "none" \in Stages
    BY DEF Stages
  <2>3. /\ stage' \in [Strategies -> [Slots -> Stages]]
        /\ stage[st][n] = "ended" /\ stage'[st][n] = "none"
        /\ \A r \in Strategies, k \in Slots :
             r # st \/ k # n => stage'[r][k] = stage[r][k]
    BY <2>1, <2>2, AdvanceMoves
  <2> QED  BY <2>3 DEF InProgress
<1>3. CASE Skip(st, n)
  <2>1. Advance(st, n, "released", "none") \/ Advance(st, n, "checked", "none")
    BY <1>3 DEF Skip
  <2> QED  BY <1>1, <2>1 DEF Stages
<1>4. CASE ReleaseOld(st, n)
  BY <1>1, <1>4 DEF ReleaseOld, Stages
<1>5. CASE CheckRunning(st, n)
  BY <1>1, <1>5 DEF CheckRunning, Stages
<1>6. CASE CreateWorker(st, n)
  BY <1>1, <1>6 DEF CreateWorker, Stages
<1>7. CASE Open(st, n)
  BY <1>1, <1>7 DEF Open, Stages
<1>8. CASE Report(st, n)
  BY <1>1, <1>8 DEF Report, Stages
<1>9. CASE Finish(st, n)
  BY <1>1, <1>9 DEF Finish, Stages
<1>10. CASE GiveUp(st, n)
  BY <1>1, <1>10 DEF GiveUp, Stages
<1>11. CASE ReportFailure(st, n)
  BY <1>1, <1>11 DEF ReportFailure, Stages
<1> QED
  BY <1>2, <1>3, <1>4, <1>5, <1>6, <1>7, <1>8, <1>9, <1>10, <1>11 DEF RunStep

\* A ready symbol gives one run to each strategy that is due.
LEMMA TriggeredRuns ==
  ASSUME FlowTypeOK, NEW set \in SUBSET Strategies, Triggered(set)
  PROVE  /\ stage' \in [Strategies -> [Slots -> Stages]]
         /\ \A st \in Strategies \ set : stage'[st] = stage[st]
         /\ \A st \in set : \E n \in Slots :
              /\ stage[st][n] = "none" /\ stage'[st][n] = "triggered"
              /\ \A k \in Slots \ {n} : stage'[st][k] = stage[st][k]
<1>1. ASSUME NEW st \in set
      PROVE  \E n \in Slots :
               /\ stage[st][n] = "none"
               /\ stage'[st] = [stage[st] EXCEPT ![n] = "triggered"]
  <2> DEFINE free == CHOOSE n \in Slots : stage[st][n] = "none"
  <2>1. \E n \in Slots : stage[st][n] = "none"
    BY DEF Triggered
  <2>2. free \in Slots /\ stage[st][free] = "none"
    BY <2>1
  <2>3. stage'[st] = [stage[st] EXCEPT ![free] = "triggered"]
    BY DEF Triggered
  <2> QED  BY <2>2, <2>3
<1>2. \A st \in Strategies \ set : stage'[st] = stage[st]
  BY DEF Triggered
<1>3. \A st \in Strategies : stage[st] \in [Slots -> Stages]
  BY DEF FlowTypeOK
<1>4. ASSUME NEW st \in Strategies PROVE stage'[st] \in [Slots -> Stages]
  <2>1. CASE st \in set
    <3>1. PICK n \in Slots : stage'[st] = [stage[st] EXCEPT ![n] = "triggered"]
      BY <1>1, <2>1
    <3>2. "triggered" \in Stages
      BY DEF Stages
    <3> QED  BY <1>3, <3>1, <3>2
  <2> QED  BY <1>2, <1>3, <2>1
<1>5. stage' = [st \in Strategies |-> stage'[st]]
  BY DEF Triggered
<1>6. stage' \in [Strategies -> [Slots -> Stages]]
  BY <1>4, <1>5
<1>7. ASSUME NEW st \in set
      PROVE  \E n \in Slots :
               /\ stage[st][n] = "none" /\ stage'[st][n] = "triggered"
               /\ \A k \in Slots \ {n} : stage'[st][k] = stage[st][k]
  <2>1. PICK n \in Slots :
          stage[st][n] = "none" /\ stage'[st] = [stage[st] EXCEPT ![n] = "triggered"]
    BY <1>1
  <2>2. stage[st] \in [Slots -> Stages]
    BY <1>3
  <2>3. stage'[st][n] = "triggered" /\ \A k \in Slots \ {n} : stage'[st][k] = stage[st][k]
    BY <2>1, <2>2
  <2> QED  BY <2>1, <2>3
<1> QED  BY <1>2, <1>6, <1>7

\* Joining changes runs that have ended only.
LEMMA JoinKeepsRuns ==
  ASSUME FlowTypeOK, NEW st \in Strategies, Join(st)
  PROVE  /\ stage' \in [Strategies -> [Slots -> Stages]]
         /\ \A r \in Strategies : InProgress(r)' = InProgress(r)
         /\ \A r \in Strategies : Alive(r)' = Alive(r)
         /\ Alive(st) \cap awaited[st] = {}
<1>1. \A n \in awaited[st] : stage[st][n] = "ended"
  BY DEF Join
<1>2. /\ \A n \in Slots : stage'[st][n] = IF n \in awaited[st] THEN "none" ELSE stage[st][n]
      /\ \A r \in Strategies \ {st} : stage'[r] = stage[r]
      /\ stage' \in [Strategies -> [Slots -> Stages]]
  BY DEF Join, FlowTypeOK, Stages
<1>3. \A r \in Strategies : InProgress(r)' = InProgress(r)
  BY <1>1, <1>2 DEF InProgress
<1>4. \A r \in Strategies : Alive(r)' = Alive(r)
  BY <1>1, <1>2, <1>3 DEF Alive, InProgress
<1> QED  BY <1>1, <1>2, <1>3, <1>4 DEF Alive, InProgress
-----------------------------------------------------------------------------
(* Types. *)

LEMMA FlowTypeStep == FlowTypeOK /\ [Next]_vars => FlowTypeOK'
<1> SUFFICES ASSUME FlowTypeOK, [Next]_vars PROVE FlowTypeOK'
  OBVIOUS
<1> USE DEF flows, pipeline
<1>1. CASE EnsureDailyReady
  BY <1>1 DEF EnsureDailyReady, FlowTypeOK
<1>2. ASSUME NEW s \in Symbols, MarkSymbolReady(s) PROVE FlowTypeOK'
  <2>1. Due(s) \in SUBSET Strategies
    BY DEF Due, FlowTypeOK
  <2> QED  BY <1>2, <2>1, TriggeredRuns DEF MarkSymbolReady, FlowTypeOK
<1>3. ASSUME NEW st \in Strategies, SubscribeEnlisted(st) PROVE FlowTypeOK'
  BY <1>3 DEF SubscribeEnlisted, FlowTypeOK
<1>4. ASSUME NEW st \in Strategies, NEW n \in Slots, RunStep(st, n) PROVE FlowTypeOK'
  <2>1. handle' \in [Strategies -> SUBSET Slots]
    <3>1. handle' = [handle EXCEPT ![st] = {}] \/ handle' = [handle EXCEPT ![st] = {n}]
          \/ handle' = handle
      BY <1>4 DEF RunStep, ReleaseOld, Skip, CheckRunning, CreateWorker, Open, Report,
                  Finish, GiveUp, ReportFailure, Reap
    <3>2. {n} \in SUBSET Slots /\ {} \in SUBSET Slots
      OBVIOUS
    <3> QED  BY <3>1, <3>2 DEF FlowTypeOK
  <2>2. awaited' = awaited /\ control' = control /\ enlisted' = enlisted
    BY <1>4 DEF RunStep, ReleaseOld, Skip, CheckRunning, CreateWorker, Open, Report,
                Finish, GiveUp, ReportFailure, Reap
  <2> QED  BY <1>4, <2>1, <2>2, RunsOnlyEnd DEF FlowTypeOK
<1>5. ASSUME NEW st \in Strategies, NEW goal \in DOMAIN Joining, Call(st, goal)
      PROVE  FlowTypeOK'
  BY <1>5 DEF Call, Goto, Joining, FlowTypeOK
<1>6. ASSUME NEW st \in Strategies, TakeHandle(st) PROVE FlowTypeOK'
  BY <1>6 DEF TakeHandle, Goto, Joining, FlowTypeOK
<1>7. ASSUME NEW st \in Strategies, Join(st) PROVE FlowTypeOK'
  <2>1. control' \in [Strategies -> {"idle", "run", "stop", "runJoins", "stopJoins",
                                     "runCloses", "stopCloses", "stopped"}]
    BY <1>7 DEF Join, Goto, Joined, FlowTypeOK
  <2>2. awaited' \in [Strategies -> SUBSET Slots] /\ handle' = handle
        /\ enlisted' = enlisted
    BY <1>7 DEF Join, FlowTypeOK
  <2> QED  BY <1>7, <2>1, <2>2, JoinKeepsRuns DEF FlowTypeOK
<1>8. ASSUME NEW st \in Strategies, EndRun(st) \/ EndFlowStop(st) \/ Withdraw(st)
      PROVE  FlowTypeOK'
  BY <1>8 DEF EndRun, EndFlowStop, Withdraw, Goto, FlowTypeOK
<1>9. CASE UNCHANGED vars
  BY <1>9 DEF vars, FlowTypeOK
<1> QED
  BY <1>1, <1>2, <1>3, <1>4, <1>5, <1>6, <1>7, <1>8, <1>9 DEF Next, CallStep

-----------------------------------------------------------------------------
(* One run at a time. *)

LEMMA OneRunStep == FlowTypeOK /\ OneRun /\ [Next]_vars => OneRun'
<1> SUFFICES ASSUME FlowTypeOK, OneRun, [Next]_vars PROVE OneRun'
  OBVIOUS
<1> USE DEF OneRun
<1>1. ASSUME \A r \in Strategies : InProgress(r)' \subseteq InProgress(r),
             (enlisted \ executed)' \subseteq enlisted \ executed
      PROVE  OneRun'
  BY <1>1
<1>2. CASE EnsureDailyReady
  BY <1>2 DEF EnsureDailyReady, InProgress
<1>3. ASSUME NEW s \in Symbols, MarkSymbolReady(s) PROVE OneRun'
  <2>1. /\ Triggered(Due(s)) /\ executed' = executed \cup Due(s) /\ enlisted' = enlisted
    BY <1>3 DEF MarkSymbolReady
  <2> SUFFICES ASSUME NEW st \in Strategies
               PROVE  /\ \A m, n \in InProgress(st)' : m = n
                      /\ InProgress(st)' # {} => st \notin enlisted' \ executed'
    OBVIOUS
  <2>2. CASE st \in Due(s)
    <3>1. st \in enlisted \ executed
      BY <2>2 DEF Due
    <3>2. InProgress(st) = {}
      BY <3>1
    <3>3. Due(s) \in SUBSET Strategies
      BY DEF Due, FlowTypeOK
    <3>4. PICK n \in Slots : /\ stage[st][n] = "none" /\ stage'[st][n] = "triggered"
                             /\ \A k \in Slots \ {n} : stage'[st][k] = stage[st][k]
      BY <2>1, <2>2, <3>3, TriggeredRuns
    <3>5. InProgress(st)' = {n}
      BY <3>2, <3>4 DEF InProgress
    <3> QED  BY <2>1, <2>2, <3>5
  <2>3. CASE st \notin Due(s)
    <3>1. Due(s) \in SUBSET Strategies
      BY DEF Due, FlowTypeOK
    <3>2. InProgress(st)' = InProgress(st)
      BY <2>1, <2>3, <3>1, TriggeredRuns DEF InProgress
    <3> QED  BY <2>1, <3>2
  <2> QED  BY <2>2, <2>3
<1>4. ASSUME NEW st \in Strategies, SubscribeEnlisted(st) PROVE OneRun'
  BY <1>4 DEF SubscribeEnlisted, flows, InProgress
<1>5. ASSUME NEW st \in Strategies, NEW n \in Slots, RunStep(st, n) PROVE OneRun'
  <2>1. enlisted' = enlisted /\ executed' = executed
    BY <1>5 DEF RunStep, ReleaseOld, Skip, CheckRunning, CreateWorker, Open, Report,
                Finish, GiveUp, ReportFailure, Reap, pipeline
  <2> QED  BY <1>1, <1>5, <2>1, RunsOnlyEnd
<1>6. ASSUME NEW st \in Strategies, NEW goal \in DOMAIN Joining, Call(st, goal)
      PROVE  OneRun'
  BY <1>6 DEF Call, pipeline, InProgress
<1>7. ASSUME NEW st \in Strategies, TakeHandle(st) PROVE OneRun'
  BY <1>7 DEF TakeHandle, pipeline, InProgress
<1>8. ASSUME NEW st \in Strategies, Join(st) PROVE OneRun'
  <2>1. enlisted' = enlisted /\ executed' = executed
    BY <1>8 DEF Join, pipeline
  <2> QED  BY <1>1, <1>8, <2>1, JoinKeepsRuns
<1>9. ASSUME NEW st \in Strategies, EndRun(st) \/ EndFlowStop(st) PROVE OneRun'
  BY <1>9 DEF EndRun, EndFlowStop, pipeline, InProgress
<1>10. ASSUME NEW st \in Strategies, Withdraw(st) PROVE OneRun'
  <2>1. (enlisted \ executed)' \subseteq enlisted \ executed /\ stage' = stage
    BY <1>10 DEF Withdraw
  <2> QED  BY <1>1, <2>1 DEF InProgress
<1>11. CASE UNCHANGED vars
  BY <1>11 DEF vars, pipeline, flows, InProgress
<1> QED
  BY <1>2, <1>3, <1>4, <1>5, <1>6, <1>7, <1>8, <1>9, <1>10, <1>11 DEF Next, CallStep

LEMMA RunsInit == Init => FlowTypeOK /\ OneRun /\ WorkersAreHeld
<1> SUFFICES ASSUME Init PROVE FlowTypeOK /\ OneRun /\ WorkersAreHeld
  OBVIOUS
<1>1. FlowTypeOK
  BY DEF Init, FlowTypeOK, Stages
<1>2. \A st \in Strategies : InProgress(st) = {}
  BY DEF Init, InProgress
<1>3. OneRun
  BY <1>2 DEF OneRun
<1>4. WorkersAreHeld
  BY <1>2 DEF Init, WorkersAreHeld, Alive
<1> QED  BY <1>1, <1>3, <1>4

\* No strategy has two runs at once, whatever comes between (MarkSymbolReady,
\* StartDaily).
THEOREM RunsDoNotOverlap == Spec => []OneRunAtATime
<1>1. OneRun => OneRunAtATime
  <2> SUFFICES ASSUME OneRun, NEW st \in Strategies
               PROVE  Cardinality(InProgress(st)) <= 1
    BY DEF OneRunAtATime
  <2>1. CASE InProgress(st) = {}
    BY <2>1, FS_EmptySet
  <2>2. ASSUME NEW n \in InProgress(st) PROVE Cardinality(InProgress(st)) <= 1
    <3>1. InProgress(st) = {n}
      BY <2>2 DEF OneRun
    <3> QED  BY <3>1, FS_Singleton
  <2> QED  BY <2>1, <2>2
<1> QED  BY <1>1, RunsInit, FlowTypeStep, OneRunStep, PTL DEF Spec

-----------------------------------------------------------------------------
(* No run after a stop. *)

\* The workers of a strategy all of whose runs were new are none.
LEMMA NewRunHasNoWorker ==
  ASSUME OneRun, NEW st \in Strategies, NEW n \in InProgress(st),
         stage[st][n] \in {"triggered", "released", "checked"}
  PROVE  Alive(st) = {}
BY DEF OneRun, Alive

\* A step of one strategy that leaves the others alone keeps them held.
LEMMA OthersAreHeld ==
  ASSUME WorkersAreHeld, NEW st \in Strategies,
         \A r \in Strategies \ {st} :
           /\ stage'[r] = stage[r] /\ handle'[r] = handle[r]
           /\ awaited'[r] = awaited[r] /\ control'[r] = control[r]
           /\ r \in running' <=> r \in running,
         /\ control'[st] # "idle" => st \notin running'
         /\ st \notin running' /\ control'[st] \notin {"run", "stop"} => handle'[st] = {}
         /\ awaited'[st] # {} => control'[st] \in {"runJoins", "stopJoins"}
         /\ Alive(st)' \subseteq handle'[st] \cup awaited'[st]
  PROVE  WorkersAreHeld'
<1>1. \A r \in Strategies \ {st} : Alive(r)' = Alive(r)
  BY DEF Alive, InProgress
<1> QED  BY <1>1 DEF WorkersAreHeld

LEMMA HeldRunStep ==
  ASSUME RunsInv, NEW st \in Strategies, NEW n \in Slots, RunStep(st, n)
  PROVE  WorkersAreHeld'
<1> DEFINE Young == {"triggered", "released", "checked"}
<1> USE DEF RunsInv
<1>1. awaited' = awaited /\ control' = control /\ running' = running
  BY DEF RunStep, ReleaseOld, Skip, CheckRunning, CreateWorker, Open, Report,
         Finish, GiveUp, ReportFailure, Reap
<1>2. ASSUME NEW from \in Stages, NEW to \in Stages, Advance(st, n, from, to)
      PROVE  /\ stage[st][n] = from /\ stage'[st][n] = to
             /\ \A k \in Slots \ {n} : stage'[st][k] = stage[st][k]
             /\ \A r \in Strategies \ {st} : stage'[r] = stage[r]
  <2>1. \A r \in Strategies \ {st} : stage'[r] = stage[r]
    BY <1>2 DEF Advance, FlowTypeOK
  <2> QED  BY <1>2, <2>1, AdvanceMoves
<1>3. ASSUME NEW from \in Stages, NEW to \in Stages, Advance(st, n, from, to),
             handle' = handle,
             to \in Young \cup {"none", "ended"} \/ from \notin Young \cup {"none", "ended"}
      PROVE  WorkersAreHeld'
  <2>1. Alive(st)' \subseteq Alive(st)
    BY <1>2, <1>3 DEF Alive, InProgress
  <2> QED  BY <1>1, <1>2, <1>3, <2>1, OthersAreHeld DEF WorkersAreHeld
<1>4. CASE ReleaseOld(st, n)
  <2>1. Advance(st, n, "triggered", "released") /\ handle' = [handle EXCEPT ![st] = {}]
    BY <1>4 DEF ReleaseOld
  <2>2. /\ stage[st][n] = "triggered" /\ stage'[st][n] = "released"
        /\ \A k \in Slots \ {n} : stage'[st][k] = stage[st][k]
        /\ \A r \in Strategies \ {st} : stage'[r] = stage[r]
    BY <1>2, <2>1 DEF Stages
  <2>3. Alive(st) = {}
    BY <2>2, NewRunHasNoWorker DEF InProgress
  <2>4. Alive(st)' = {}
    BY <2>2, <2>3 DEF Alive, InProgress
  <2>5. handle'[st] = {} /\ \A r \in Strategies \ {st} : handle'[r] = handle[r]
    BY <2>1 DEF FlowTypeOK
  <2> QED  BY <1>1, <2>2, <2>4, <2>5, OthersAreHeld DEF WorkersAreHeld
<1>5. CASE CreateWorker(st, n)
  <2>1. Advance(st, n, "checked", "created") /\ handle' = [handle EXCEPT ![st] = {n}]
        /\ st \in running
    BY <1>5 DEF CreateWorker
  <2>2. /\ stage[st][n] = "checked" /\ stage'[st][n] = "created"
        /\ \A k \in Slots \ {n} : stage'[st][k] = stage[st][k]
        /\ \A r \in Strategies \ {st} : stage'[r] = stage[r]
    BY <1>2, <2>1 DEF Stages
  <2>3. Alive(st) = {}
    BY <2>2, NewRunHasNoWorker DEF InProgress
  <2>4. Alive(st)' \subseteq {n}
    BY <2>2, <2>3 DEF Alive, InProgress
  <2>5. handle'[st] = {n} /\ \A r \in Strategies \ {st} : handle'[r] = handle[r]
    BY <2>1 DEF FlowTypeOK
  <2> QED  BY <1>1, <2>1, <2>2, <2>4, <2>5, OthersAreHeld DEF WorkersAreHeld
<1>6. CASE Skip(st, n)
  BY <1>3, <1>6 DEF Skip, Stages
<1>7. CASE CheckRunning(st, n)
  BY <1>3, <1>7 DEF CheckRunning, Stages
<1>8. CASE Open(st, n)
  BY <1>3, <1>8 DEF Open, Stages
<1>9. CASE Report(st, n)
  BY <1>3, <1>9 DEF Report, Stages
<1>10. CASE Finish(st, n)
  BY <1>3, <1>10 DEF Finish, Stages
<1>11. CASE GiveUp(st, n)
  BY <1>3, <1>11 DEF GiveUp, Stages
<1>12. CASE ReportFailure(st, n)
  BY <1>3, <1>12 DEF ReportFailure, Stages
<1>13. CASE Reap(st, n)
  BY <1>3, <1>13 DEF Reap, Stages
<1> QED
  BY <1>4, <1>5, <1>6, <1>7, <1>8, <1>9, <1>10, <1>11, <1>12, <1>13 DEF RunStep

LEMMA HeldCallStep ==
  ASSUME RunsInv, NEW st \in Strategies,
         CallStep(st) \/ \E goal \in DOMAIN Joining : Call(st, goal)
  PROVE  WorkersAreHeld'
<1> USE DEF RunsInv
<1>1. ASSUME NEW from, NEW to, Goto(st, from, to)
      PROVE  /\ control[st] = from /\ control'[st] = to
             /\ \A r \in Strategies \ {st} : control'[r] = control[r]
  BY <1>1 DEF Goto, FlowTypeOK
<1>2. ASSUME stage' = stage PROVE Alive(st)' = Alive(st)
  BY <1>2 DEF Alive, InProgress
<1>3. ASSUME NEW goal \in DOMAIN Joining, Call(st, goal) PROVE WorkersAreHeld'
  <2>1. /\ Goto(st, "idle", goal) /\ goal \in {"run", "stop"}
        /\ running' = running \ {st}
        /\ stage' = stage /\ handle' = handle /\ awaited' = awaited
    BY <1>3 DEF Call, Joining
  <2>2. control[st] = "idle" /\ control'[st] = goal
        /\ \A r \in Strategies \ {st} : control'[r] = control[r]
    BY <1>1, <2>1
  <2>3. awaited[st] = {} /\ Alive(st)' \subseteq handle[st]
    BY <1>2, <2>1, <2>2 DEF WorkersAreHeld
  <2> QED  BY <2>1, <2>2, <2>3, OthersAreHeld
<1>4. CASE TakeHandle(st)
  <2>1. PICK goal \in DOMAIN Joining : Goto(st, goal, Joining[goal])
    BY <1>4 DEF TakeHandle
  <2>2. goal \in {"run", "stop"} /\ Joining[goal] \in {"runJoins", "stopJoins"}
    BY DEF Joining
  <2>3. control[st] = goal /\ control'[st] = Joining[goal]
        /\ \A r \in Strategies \ {st} : control'[r] = control[r]
    BY <1>1, <2>1
  <2>4. /\ handle'[st] = {} /\ awaited'[st] = handle[st]
        /\ \A r \in Strategies \ {st} : handle'[r] = handle[r] /\ awaited'[r] = awaited[r]
        /\ stage' = stage /\ running' = running
    BY <1>4 DEF TakeHandle, FlowTypeOK
  <2>5. st \notin running /\ awaited[st] = {} /\ Alive(st)' \subseteq handle[st]
    BY <1>2, <2>2, <2>3, <2>4 DEF WorkersAreHeld
  <2> QED  BY <2>2, <2>3, <2>4, <2>5, OthersAreHeld
<1>5. CASE Join(st)
  <2>1. PICK at \in DOMAIN Joined : Goto(st, at, Joined[at])
    BY <1>5 DEF Join
  <2>2. at \in {"runJoins", "stopJoins"} /\ Joined[at] \in {"runCloses", "stopCloses"}
    BY DEF Joined
  <2>3. control[st] = at /\ control'[st] = Joined[at]
        /\ \A r \in Strategies \ {st} : control'[r] = control[r]
    BY <1>1, <2>1
  <2>4. /\ awaited'[st] = {} /\ handle' = handle /\ running' = running
        /\ \A r \in Strategies \ {st} : awaited'[r] = awaited[r] /\ stage'[r] = stage[r]
    BY <1>5 DEF Join, FlowTypeOK
  <2>5. st \notin running /\ handle[st] = {}
    BY <2>2, <2>3 DEF WorkersAreHeld
  <2>6. Alive(st)' = {}
    BY <1>5, <2>5, JoinKeepsRuns DEF WorkersAreHeld
  <2> QED  BY <2>2, <2>3, <2>4, <2>5, <2>6, OthersAreHeld
<1>6. ASSUME NEW from \in {"runCloses", "stopCloses", "stopped"},
             NEW to \in {"idle", "stopped"}, Goto(st, from, to),
             stage' = stage, handle' = handle, awaited' = awaited,
             running' = running \/ (running' = running \cup {st} /\ to = "idle")
      PROVE  WorkersAreHeld'
  <2>1. control[st] = from /\ control'[st] = to
        /\ \A r \in Strategies \ {st} : control'[r] = control[r]
    BY <1>1, <1>6
  <2>2. st \notin running /\ handle[st] = {} /\ awaited[st] = {} /\ Alive(st)' = {}
    BY <1>2, <1>6, <2>1 DEF WorkersAreHeld
  <2> QED  BY <1>6, <2>1, <2>2, OthersAreHeld
<1>7. CASE EndRun(st)  BY <1>6, <1>7 DEF EndRun
<1>8. CASE EndFlowStop(st)  BY <1>6, <1>8 DEF EndFlowStop
<1>9. CASE Withdraw(st)  BY <1>6, <1>9 DEF Withdraw
<1> QED  BY <1>3, <1>4, <1>5, <1>7, <1>8, <1>9 DEF CallStep

LEMMA RunsStep == RunsInv /\ [Next]_vars => RunsInv'
<1> SUFFICES ASSUME RunsInv, [Next]_vars PROVE WorkersAreHeld'
  BY FlowTypeStep, OneRunStep DEF RunsInv
<1> USE DEF RunsInv
<1>1. ASSUME stage' = stage, UNCHANGED <<handle, running, control, awaited>>
      PROVE  WorkersAreHeld'
  BY <1>1 DEF WorkersAreHeld, Alive, InProgress
<1>2. CASE EnsureDailyReady
  BY <1>1, <1>2 DEF EnsureDailyReady
<1>3. ASSUME NEW s \in Symbols, MarkSymbolReady(s) PROVE WorkersAreHeld'
  <2>1. Due(s) \in SUBSET Strategies /\ Triggered(Due(s))
    BY <1>3 DEF MarkSymbolReady, Due, FlowTypeOK
  <2>2. ASSUME NEW st \in Strategies PROVE Alive(st)' \subseteq Alive(st)
    <3>1. CASE st \notin Due(s)
      BY <2>1, <3>1, TriggeredRuns DEF Alive, InProgress
    <3>2. CASE st \in Due(s)
      <4>1. PICK n \in Slots : /\ stage[st][n] = "none" /\ stage'[st][n] = "triggered"
                               /\ \A k \in Slots \ {n} : stage'[st][k] = stage[st][k]
        BY <2>1, <3>2, TriggeredRuns
      <4> QED  BY <4>1 DEF Alive, InProgress
    <3> QED  BY <3>1, <3>2
  <2>3. UNCHANGED <<handle, running, control, awaited>>
    BY <1>3 DEF MarkSymbolReady
  <2> QED  BY <2>2, <2>3 DEF WorkersAreHeld
<1>4. ASSUME NEW st \in Strategies, SubscribeEnlisted(st) PROVE WorkersAreHeld'
  BY <1>1, <1>4 DEF SubscribeEnlisted, flows
<1>5. CASE UNCHANGED vars
  BY <1>1, <1>5 DEF vars, flows
<1> QED  BY <1>2, <1>3, <1>4, <1>5, HeldRunStep, HeldCallStep DEF Next

\* When Stop has returned no worker of the strategy is alive, for any order of
\* quotes, starts and stops (StartDaily's second look at _running).
THEOREM NoRunAfterStop == Spec => []StopEndsRuns
<1>1. RunsInv => StopEndsRuns
  BY DEF RunsInv, WorkersAreHeld, StopEndsRuns
<1>2. Init => RunsInv
  BY RunsInit DEF RunsInv
<1> QED  BY <1>1, <1>2, RunsStep, PTL DEF Spec
-----------------------------------------------------------------------------
(* Errors are mailed. *)

\* The stages of a run that has still to call back.
Owing == {"triggered", "released", "checked", "created", "replaying", "closed"}

\* Errors are kept for a run that will report when all were triggered.
LastReports ==
  enlisted = Strategies /\ executed = Strategies /\ errors # {} =>
    \E st \in Strategies, n \in Slots : stage[st][n] \in Owing

\* A report when all strategies were triggered leaves no error.
LEMMA CallbackMails ==
  ASSUME NEW st, NEW failed, Callback(st, failed), enlisted = executed,
         executed = Strategies
  PROVE  errors' = {}
<1>1. Cardinality(executed) \in Nat
  BY StrategiesAssumption, FS_CardinalityType
<1>2. Cardinality(executed) >= Cardinality(enlisted)
  BY <1>1
<1> QED  BY <1>2 DEF Callback

LEMMA ErrorsRunStep ==
  ASSUME FlowTypeOK, LastReports, NEW st \in Strategies, NEW n \in Slots, RunStep(st, n)
  PROVE  LastReports'
<1>1. enlisted' = enlisted /\ executed' = executed
  BY DEF RunStep, ReleaseOld, Skip, CheckRunning, CreateWorker, Open, Report,
         Finish, GiveUp, ReportFailure, Reap, pipeline
<1>2. ASSUME NEW failed, Callback(st, failed) PROVE LastReports'
  BY <1>1, <1>2, CallbackMails DEF LastReports
<1>3. ASSUME NEW from \in Stages, NEW to \in Stages, Advance(st, n, from, to),
             errors' = errors, from \in Owing => to \in Owing
      PROVE  LastReports'
  <2>1. ASSUME NEW r \in Strategies, NEW k \in Slots, stage[r][k] \in Owing
        PROVE  stage'[r][k] \in Owing
    BY <1>3, <2>1, AdvanceMoves
  <2> QED  BY <1>1, <1>3, <2>1 DEF LastReports
<1>4. CASE ReleaseOld(st, n)
  BY <1>3, <1>4 DEF ReleaseOld, pipeline, Stages, Owing
<1>5. CASE CheckRunning(st, n)
  BY <1>3, <1>5 DEF CheckRunning, pipeline, Stages, Owing
<1>6. CASE CreateWorker(st, n)
  BY <1>3, <1>6 DEF CreateWorker, pipeline, Stages, Owing
<1>7. CASE Open(st, n)
  BY <1>3, <1>7 DEF Open, pipeline, Stages, Owing
<1>8. CASE Finish(st, n)
  BY <1>3, <1>8 DEF Finish, pipeline, Stages, Owing
<1>9. CASE GiveUp(st, n)
  BY <1>3, <1>9 DEF GiveUp, pipeline, Stages, Owing
<1>10. CASE Reap(st, n)
  BY <1>3, <1>10 DEF Reap, pipeline, Stages, Owing
<1>11. CASE Skip(st, n) \/ Report(st, n) \/ ReportFailure(st, n)
  BY <1>2, <1>11 DEF Skip, Report, ReportFailure
<1> QED  BY <1>4, <1>5, <1>6, <1>7, <1>8, <1>9, <1>10, <1>11 DEF RunStep

LEMMA ErrorsStep == FlowTypeOK /\ LastReports /\ [Next]_vars => LastReports'
<1> SUFFICES ASSUME FlowTypeOK, LastReports, [Next]_vars PROVE LastReports'
  OBVIOUS
<1>1. ASSUME enlisted' = enlisted, executed' = executed, errors' = errors,
             \A st \in Strategies, n \in Slots :
               stage[st][n] \in Owing => stage'[st][n] \in Owing
      PROVE  LastReports'
  BY <1>1 DEF LastReports
<1>2. CASE EnsureDailyReady
  BY <1>2 DEF EnsureDailyReady, LastReports
<1>3. ASSUME NEW s \in Symbols, MarkSymbolReady(s) PROVE LastReports'
  <2>1. /\ Due(s) \in SUBSET Strategies /\ Triggered(Due(s))
        /\ enlisted' = enlisted /\ errors' = errors /\ executed' = executed \cup Due(s)
    BY <1>3 DEF MarkSymbolReady, Due, FlowTypeOK
  <2>2. CASE Due(s) = {}
    <3>1. \A st \in Strategies : stage'[st] = stage[st]
      BY <2>1, <2>2, TriggeredRuns
    <3> QED  BY <1>1, <2>1, <2>2, <3>1
  <2>3. ASSUME NEW st \in Due(s) PROVE LastReports'
    <3>1. PICK n \in Slots : stage'[st][n] = "triggered"
      BY <2>1, <2>3, TriggeredRuns
    <3> QED  BY <2>1, <3>1 DEF LastReports, Owing
  <2> QED  BY <2>2, <2>3
<1>4. ASSUME NEW st \in Strategies, SubscribeEnlisted(st) PROVE LastReports'
  BY <1>1, <1>4 DEF SubscribeEnlisted, flows
<1>5. ASSUME NEW st \in Strategies, NEW goal \in DOMAIN Joining, Call(st, goal)
      PROVE  LastReports'
  BY <1>1, <1>5 DEF Call, pipeline
<1>6. ASSUME NEW st \in Strategies, CallStep(st) PROVE LastReports'
  <2>1. CASE Join(st)
    <3>1. \A n \in awaited[st] : stage[st][n] = "ended"
      BY <2>1 DEF Join
    <3>2. \A r \in Strategies, n \in Slots :
            stage'[r][n] = IF r = st /\ n \in awaited[st] THEN "none" ELSE stage[r][n]
      BY <2>1 DEF Join, FlowTypeOK
    <3> QED  BY <1>1, <2>1, <3>1, <3>2 DEF Join, pipeline, Owing
  <2>2. CASE Withdraw(st)
    <3>1. enlisted' # Strategies
      BY <2>2 DEF Withdraw
    <3> QED  BY <3>1 DEF LastReports
  <2>3. CASE TakeHandle(st) \/ EndRun(st) \/ EndFlowStop(st)
    BY <1>1, <2>3 DEF TakeHandle, EndRun, EndFlowStop, pipeline
  <2> QED  BY <1>6, <2>1, <2>2, <2>3 DEF CallStep
<1>7. CASE UNCHANGED vars
  BY <1>1, <1>7 DEF vars, flows, pipeline
<1> QED  BY <1>2, <1>3, <1>4, <1>5, <1>6, <1>7, ErrorsRunStep DEF Next

\* No error is left when the last strategy of the day has reported, whichever
\* comes last (ExecuteDailyStrategy's callback).
THEOREM DaysErrorsAreMailed == Spec => []ErrorsAreMailed
<1>1. LastReports => ErrorsAreMailed
  BY DEF LastReports, ErrorsAreMailed, InProgress, Owing
<1>2. Init => FlowTypeOK /\ LastReports
  BY RunsInit DEF Init, LastReports
<1> QED  BY <1>1, <1>2, FlowTypeStep, ErrorsStep, PTL DEF Spec
-----------------------------------------------------------------------------
(* Enlisted strategies are polled.  The reference that the second           *)
(* subscription of a run leaks is what keeps their symbols for the next day. *)

Opened(st) == \E n \in Slots : stage[st][n] \in {"replaying", "reported"}

\* The strategies that EnlistedArePolled is about.
Settled == enlisted \ (toSubscribe \cup disturbed)

\* The settled strategies with a run that has subscribed again: one reference
\* to their symbols is left over.
Keepers(s) ==
  {st \in Settled : s \in Pool[st] /\ (subscription[st] = {} \/ Opened(st))}

\* Strategies subscribe their pools; a run that was not disturbed has done so.
PoolsAreSubscribed ==
  /\ \A st \in Strategies : subscription[st] \in {{}, Pool[st]}
  /\ \A st \in Strategies : control[st] # "idle" => st \in disturbed
  /\ \A st \in Strategies \ disturbed : Opened(st) => subscription[st] = Pool[st]

ReferencesAreKept ==
  \A s \in Symbols :
    symbolCount[s] >= Cardinality(Subscribers(s)) + Cardinality(Keepers(s))

Common == {e \in Exchanges : \A st \in Strategies : e \in Required[st]}

CountedAreWatched ==
  \A s \in Symbols : \A e \in Common : s \in watched[e] <=> symbolCount[s] > 0

QuoteTypes ==
  /\ subscription \in [Strategies -> SUBSET Symbols]
  /\ symbolCount \in [Symbols -> Nat]
  /\ watched \in [Exchanges -> SUBSET Symbols]

PollInv ==
  /\ FlowTypeOK /\ OneRun /\ QuoteTypes
  /\ PoolsAreSubscribed /\ ReferencesAreKept /\ CountedAreWatched

\* There are finitely many strategies: one more counts one more.
LEMMA CountStrategies ==
  ASSUME NEW X \in SUBSET Strategies, NEW st \in Strategies
  PROVE  /\ Cardinality(X) \in Nat
         /\ st \in X => Cardinality(X) > 0
         /\ st \notin X => Cardinality(X \cup {st}) = Cardinality(X) + 1
         /\ st \in X => Cardinality(X \ {st}) = Cardinality(X) - 1
<1>1. IsFiniteSet(X)
  BY StrategiesAssumption, FS_Subset
<1>2. Cardinality(X) \in Nat /\ (Cardinality(X) = 0 <=> X = {})
  BY <1>1, FS_CardinalityType, FS_EmptySet
<1>3. st \in X => Cardinality(X) > 0
  BY <1>2
<1>4. st \notin X => Cardinality(X \cup {st}) = Cardinality(X) + 1
  BY <1>1, FS_AddElement
<1>5. st \in X => Cardinality(X \ {st}) = Cardinality(X) - 1
  BY <1>1, FS_RemoveElement
<1> QED  BY <1>2, <1>3, <1>4, <1>5

LEMMA FewerStrategies ==
  ASSUME NEW X \in SUBSET Strategies, NEW Y \in SUBSET X
  PROVE  /\ Cardinality(X) \in Nat /\ Cardinality(Y) \in Nat
         /\ Cardinality(Y) <= Cardinality(X)
<1>1. IsFiniteSet(X)
  BY StrategiesAssumption, FS_Subset
<1>2. IsFiniteSet(Y) /\ Cardinality(Y) <= Cardinality(X)
  BY <1>1, FS_Subset
<1> QED  BY <1>1, <1>2, FS_CardinalityType

\* A subscription of a pool: the common exchanges poll it from its first
\* reference on.
LEMMA SubscribeWatches ==
  ASSUME QuoteTypes, CountedAreWatched, NEW st \in Strategies,
         SubscribeSymbols(st, Required[st], Pool[st])
  PROVE  /\ QuoteTypes' /\ CountedAreWatched'
         /\ subscription'[st] = Pool[st]
         /\ \A r \in Strategies \ {st} : subscription'[r] = subscription[r]
         /\ \A s \in Symbols :
              symbolCount'[s] = IF s \in Pool[st] THEN symbolCount[s] + 1 ELSE symbolCount[s]
<1> USE DEF SubscribeSymbols, QuoteTypes
<1>1. Pool[st] \in SUBSET Symbols
  BY DailyAssumption
<1>2. /\ subscription'[st] = Pool[st]
      /\ \A r \in Strategies \ {st} : subscription'[r] = subscription[r]
      /\ subscription' \in [Strategies -> SUBSET Symbols]
  BY <1>1
<1>3. /\ \A s \in Symbols :
           symbolCount'[s] = IF s \in Pool[st] THEN symbolCount[s] + 1 ELSE symbolCount[s]
      /\ symbolCount' \in [Symbols -> Nat]
  OBVIOUS
<1>4. watched' \in [Exchanges -> SUBSET Symbols]
  BY <1>1
<1>5. CountedAreWatched'
  <2> SUFFICES ASSUME NEW s \in Symbols, NEW e \in Common
               PROVE  s \in watched'[e] <=> symbolCount'[s] > 0
    BY DEF CountedAreWatched, Common
  <2>1. e \in Exchanges /\ e \in Required[st]
    BY DEF Common
  <2>2. s \in watched[e] <=> symbolCount[s] > 0
    BY DEF CountedAreWatched
  <2>3. s \in watched'[e] <=> s \in watched[e] \/ (s \in Pool[st] /\ symbolCount[s] = 0)
    BY <2>1
  <2> QED  BY <1>3, <2>2, <2>3
<1> QED  BY <1>2, <1>3, <1>4, <1>5

\* The end of a subscription: the last reference drops the symbol.
LEMMA CloseWatches ==
  ASSUME QuoteTypes, CountedAreWatched, NEW st \in Strategies, Close(st)
  PROVE  /\ QuoteTypes' /\ CountedAreWatched'
         /\ subscription'[st] = {}
         /\ \A r \in Strategies \ {st} : subscription'[r] = subscription[r]
         /\ \A s \in Symbols :
              symbolCount'[s] = IF s \in subscription[st] /\ symbolCount[s] > 0
                                THEN symbolCount[s] - 1 ELSE symbolCount[s]
<1>1. UnsubscribeSymbols(st, Required[st])
  BY DEF Close
<1> USE DEF UnsubscribeSymbols, QuoteTypes
<1>2. /\ subscription'[st] = {}
      /\ \A r \in Strategies \ {st} : subscription'[r] = subscription[r]
      /\ subscription' \in [Strategies -> SUBSET Symbols]
  BY <1>1
<1>3. /\ \A s \in Symbols :
           symbolCount'[s] = IF s \in subscription[st] /\ symbolCount[s] > 0
                             THEN symbolCount[s] - 1 ELSE symbolCount[s]
      /\ symbolCount' \in [Symbols -> Nat]
  BY <1>1
<1>4. watched' \in [Exchanges -> SUBSET Symbols]
  BY <1>1
<1>5. CountedAreWatched'
  <2> SUFFICES ASSUME NEW s \in Symbols, NEW e \in Common
               PROVE  s \in watched'[e] <=> symbolCount'[s] > 0
    BY DEF CountedAreWatched, Common
  <2>1. e \in Exchanges /\ e \in Required[st]
    BY DEF Common
  <2>2. symbolCount[s] \in Nat /\ (s \in watched[e] <=> symbolCount[s] > 0)
    BY DEF CountedAreWatched
  <2>3. s \in watched'[e] <=>
          s \in watched[e] /\ ~(s \in subscription[st] /\ symbolCount[s] = 1)
    BY <1>1, <2>1
  <2> QED  BY <1>3, <2>2, <2>3
<1> QED  BY <1>2, <1>3, <1>4, <1>5

PollNext == QuoteTypes' /\ PoolsAreSubscribed' /\ ReferencesAreKept' /\ CountedAreWatched'

LEMMA KeepersAreStrategies ==
  ASSUME FlowTypeOK, NEW s
  PROVE  Subscribers(s) \in SUBSET Strategies /\ Keepers(s) \in SUBSET Strategies
BY DEF FlowTypeOK, Subscribers, Keepers, Settled

\* Steps that leave subscriptions alone and keep no reference the more.
LEMMA PollFrame ==
  ASSUME PollInv, UNCHANGED quotes, PoolsAreSubscribed',
         Settled' \subseteq Settled, \A st \in Strategies : Opened(st)' => Opened(st)
  PROVE  PollNext
<1>1. subscription' = subscription /\ symbolCount' = symbolCount /\ watched' = watched
  BY DEF quotes
<1>2. QuoteTypes' /\ CountedAreWatched'
  BY <1>1 DEF PollInv, QuoteTypes, CountedAreWatched, Common
<1>3. ReferencesAreKept'
  <2> SUFFICES ASSUME NEW s \in Symbols
               PROVE  symbolCount'[s] >= Cardinality(Subscribers(s)') + Cardinality(Keepers(s)')
    BY DEF ReferencesAreKept
  <2>1. Subscribers(s) \in SUBSET Strategies /\ Keepers(s) \in SUBSET Strategies
    BY KeepersAreStrategies DEF PollInv
  <2>2. Subscribers(s)' = Subscribers(s)
    BY <1>1 DEF Subscribers
  <2>3. Keepers(s)' \in SUBSET Keepers(s)
    <3>1. Settled \subseteq Strategies
      BY DEF PollInv, FlowTypeOK, Settled
    <3> QED  BY <1>1, <3>1 DEF Keepers
  <2>4. symbolCount[s] >= Cardinality(Subscribers(s)) + Cardinality(Keepers(s))
        /\ symbolCount[s] \in Nat
    BY DEF PollInv, ReferencesAreKept, QuoteTypes
  <2>5. /\ Cardinality(Subscribers(s)) \in Nat
        /\ Cardinality(Keepers(s)) \in Nat /\ Cardinality(Keepers(s)') \in Nat
        /\ Cardinality(Keepers(s)') <= Cardinality(Keepers(s))
    BY <2>1, <2>3, FewerStrategies
  <2> QED  BY <1>1, <2>2, <2>4, <2>5
<1> QED  BY <1>2, <1>3 DEF PollNext

\* A subscription that keeps a reference the more was there before.
LEMMA SubscribeKeeps ==
  ASSUME PollInv, NEW st \in Strategies, SubscribeSymbols(st, Required[st], Pool[st]),
         \A s \in Symbols :
           /\ Keepers(s)' \subseteq Keepers(s) \cup {st}
           /\ st \in Keepers(s)' \ Keepers(s) => s \in subscription[st]
  PROVE  QuoteTypes' /\ ReferencesAreKept' /\ CountedAreWatched'
<1>1. /\ QuoteTypes' /\ CountedAreWatched'
      /\ subscription'[st] = Pool[st]
      /\ \A r \in Strategies \ {st} : subscription'[r] = subscription[r]
      /\ \A s \in Symbols :
           symbolCount'[s] = IF s \in Pool[st] THEN symbolCount[s] + 1 ELSE symbolCount[s]
  BY SubscribeWatches DEF PollInv
<1>2. ReferencesAreKept'
  <2> SUFFICES ASSUME NEW s \in Symbols
               PROVE  symbolCount'[s] >= Cardinality(Subscribers(s)') + Cardinality(Keepers(s)')
    BY DEF ReferencesAreKept
  <2> DEFINE X == Subscribers(s)
             Y == Keepers(s)
             X2 == Subscribers(s)'
             Y2 == Keepers(s)'
             n == symbolCount[s]
  <2>1. X \in SUBSET Strategies /\ Y \in SUBSET Strategies
    BY KeepersAreStrategies DEF PollInv
  <2>2. n >= Cardinality(X) + Cardinality(Y) /\ n \in Nat
    BY DEF PollInv, ReferencesAreKept, QuoteTypes
  <2>3. X2 = IF s \in Pool[st] THEN X \cup {st} ELSE X \ {st}
    BY <1>1 DEF Subscribers
  <2>4. Y2 \subseteq Y \cup {st} /\ (st \in Y2 \ Y => st \in X)
    BY DEF Subscribers
  <2>5. st \in X => s \in Pool[st]
    BY DEF Subscribers, PollInv, PoolsAreSubscribed
  <2>6. symbolCount'[s] = IF s \in Pool[st] THEN n + 1 ELSE n
    BY <1>1
  <2> HIDE DEF X, Y, X2, Y2, n
  <2>7. ASSUME st \in X PROVE symbolCount'[s] >= Cardinality(X2) + Cardinality(Y2)
    <3>1. X2 = X
      BY <2>3, <2>5, <2>7
    <3>2. Cardinality(Y \cup {st}) <= Cardinality(Y) + 1
          /\ Cardinality(Y) \in Nat /\ Cardinality(Y \cup {st}) \in Nat
      <4>1. Cardinality(Y) \in Nat
            /\ (st \notin Y => Cardinality(Y \cup {st}) = Cardinality(Y) + 1)
        BY <2>1, CountStrategies
      <4>2. st \in Y => Y \cup {st} = Y
        OBVIOUS
      <4> QED  BY <4>1, <4>2
    <3>3. Cardinality(Y2) <= Cardinality(Y \cup {st}) /\ Cardinality(Y2) \in Nat
      BY <2>1, <2>4, FewerStrategies
    <3>4. Cardinality(X) \in Nat
      BY <2>1, FewerStrategies
    <3> QED  BY <2>2, <2>5, <2>6, <2>7, <3>1, <3>2, <3>3, <3>4
  <2>8. ASSUME st \notin X PROVE symbolCount'[s] >= Cardinality(X2) + Cardinality(Y2)
    <3>1. Y2 \subseteq Y
      BY <2>4, <2>8
    <3>2. Cardinality(Y2) <= Cardinality(Y) /\ Cardinality(Y2) \in Nat /\ Cardinality(Y) \in Nat
      BY <2>1, <3>1, FewerStrategies
    <3>3. Cardinality(X) \in Nat /\ Cardinality(X \cup {st}) = Cardinality(X) + 1
      BY <2>1, <2>8, CountStrategies
    <3>4. X \ {st} = X
      BY <2>8
    <3>5. Cardinality(X2) = IF s \in Pool[st] THEN Cardinality(X) + 1 ELSE Cardinality(X)
      BY <2>3, <3>3, <3>4
    <3> QED  BY <2>2, <2>6, <3>2, <3>3, <3>5
  <2>9. symbolCount'[s] >= Cardinality(X2) + Cardinality(Y2)
    BY <2>7, <2>8
  <2> QED  BY <2>9 DEF X2, Y2
<1> QED  BY <1>1, <1>2

\* A subscription that ends takes one reference, and its subscriber.
LEMMA CloseKeeps ==
  ASSUME PollInv, NEW st \in Strategies, Close(st),
         \A s \in Symbols : Keepers(s)' \subseteq Keepers(s)
  PROVE  QuoteTypes' /\ ReferencesAreKept' /\ CountedAreWatched'
<1>1. /\ QuoteTypes' /\ CountedAreWatched'
      /\ subscription'[st] = {}
      /\ \A r \in Strategies \ {st} : subscription'[r] = subscription[r]
      /\ \A s \in Symbols :
           symbolCount'[s] = IF s \in subscription[st] /\ symbolCount[s] > 0
                             THEN symbolCount[s] - 1 ELSE symbolCount[s]
  BY CloseWatches DEF PollInv
<1>2. ReferencesAreKept'
  <2> SUFFICES ASSUME NEW s \in Symbols
               PROVE  symbolCount'[s] >= Cardinality(Subscribers(s)') + Cardinality(Keepers(s)')
    BY DEF ReferencesAreKept
  <2> DEFINE X == Subscribers(s)
             Y == Keepers(s)
             X2 == Subscribers(s)'
             Y2 == Keepers(s)'
             n == symbolCount[s]
  <2>1. X \in SUBSET Strategies /\ Y \in SUBSET Strategies
    BY KeepersAreStrategies DEF PollInv
  <2>2. n >= Cardinality(X) + Cardinality(Y) /\ n \in Nat
    BY DEF PollInv, ReferencesAreKept, QuoteTypes
  <2>3. X2 = X \ {st} /\ (st \in X <=> s \in subscription[st])
    BY <1>1 DEF Subscribers
  <2>4. Y2 \subseteq Y
    OBVIOUS
  <2>5. symbolCount'[s] = IF st \in X /\ n > 0 THEN n - 1 ELSE n
    BY <1>1, <2>3
  <2> HIDE DEF X, Y, X2, Y2, n
  <2>6. Cardinality(Y2) <= Cardinality(Y) /\ Cardinality(Y2) \in Nat /\ Cardinality(Y) \in Nat
    BY <2>1, <2>4, FewerStrategies
  <2>7. /\ Cardinality(X) \in Nat
        /\ st \in X => Cardinality(X) > 0 /\ Cardinality(X \ {st}) = Cardinality(X) - 1
    BY <2>1, CountStrategies
  <2>8. st \notin X => X \ {st} = X
    OBVIOUS
  <2>9. symbolCount'[s] >= Cardinality(X2) + Cardinality(Y2)
    BY <2>2, <2>3, <2>5, <2>6, <2>7, <2>8
  <2> QED  BY <2>9 DEF X2, Y2
<1> QED  BY <1>1, <1>2

\* What Settled and Keepers look at, when a step leaves them alone.
LEMMA SettledFrame ==
  ASSUME UNCHANGED <<enlisted, toSubscribe, disturbed>>
  PROVE  Settled' = Settled
BY DEF Settled

LEMMA PollDayStep ==
  ASSUME PollInv, EnsureDailyReady
  PROVE  PollNext
<1>1. UNCHANGED quotes /\ stage' = stage /\ control' = control
  BY DEF EnsureDailyReady
<1>2. \A st \in Strategies : Opened(st)' = Opened(st) /\ ~Opened(st)
  BY <1>1 DEF EnsureDailyReady, Opened, InProgress
<1>3. Settled' \subseteq Settled
  BY DEF EnsureDailyReady, Settled
<1>4. PoolsAreSubscribed'
  <2>1. \A st \in Strategies : control'[st] # "idle" => st \in disturbed'
    BY <1>1 DEF EnsureDailyReady
  <2>2. subscription' = subscription
    BY <1>1 DEF quotes
  <2> QED  BY <1>2, <2>1, <2>2 DEF PollInv, PoolsAreSubscribed
<1> QED  BY <1>1, <1>2, <1>3, <1>4, PollFrame

LEMMA PollReadyStep ==
  ASSUME PollInv, NEW s \in Symbols, MarkSymbolReady(s)
  PROVE  PollNext
<1>1. /\ UNCHANGED quotes /\ UNCHANGED <<enlisted, toSubscribe, disturbed, control>>
      /\ Due(s) \in SUBSET Strategies /\ Triggered(Due(s))
  BY DEF MarkSymbolReady, Due, PollInv, FlowTypeOK
<1>2. ASSUME NEW st \in Strategies, Opened(st)' PROVE Opened(st)
  <2>1. CASE st \notin Due(s)
    BY <1>1, <1>2, <2>1, TriggeredRuns DEF Opened, PollInv
  <2>2. CASE st \in Due(s)
    <3>1. PICK n \in Slots : /\ stage'[st][n] = "triggered"
                             /\ \A k \in Slots \ {n} : stage'[st][k] = stage[st][k]
      BY <1>1, <2>2, TriggeredRuns DEF PollInv
    <3> QED  BY <1>2, <3>1 DEF Opened
  <2> QED  BY <2>1, <2>2
<1>3. PoolsAreSubscribed'
  BY <1>1, <1>2 DEF PollInv, PoolsAreSubscribed, quotes
<1> QED  BY <1>1, <1>2, <1>3, SettledFrame, PollFrame

LEMMA PollTimerStep ==
  ASSUME PollInv, NEW st \in Strategies, SubscribeEnlisted(st)
  PROVE  PollNext
<1>1. /\ SubscribeSymbols(st, Required[st], Pool[st])
      /\ toSubscribe' = toSubscribe \ {st} /\ st \in toSubscribe
      /\ UNCHANGED <<enlisted, stage, disturbed, control>>
  BY DEF SubscribeEnlisted, flows
<1>2. /\ subscription'[st] = Pool[st]
      /\ \A r \in Strategies \ {st} : subscription'[r] = subscription[r]
  BY <1>1, SubscribeWatches DEF PollInv
<1>3. \A r \in Strategies : Opened(r)' = Opened(r)
  BY <1>1 DEF Opened
<1>4. ASSUME NEW s \in Symbols
      PROVE  /\ Keepers(s)' \subseteq Keepers(s) \cup {st}
             /\ st \in Keepers(s)' \ Keepers(s) => s \in subscription[st]
  <2>1. Settled' \subseteq Settled \cup {st} /\ Settled' \subseteq Strategies
    BY <1>1 DEF Settled, PollInv, FlowTypeOK
  <2>2. Keepers(s)' \subseteq Keepers(s) \cup {st}
    BY <1>2, <1>3, <2>1 DEF Keepers
  <2>3. ASSUME st \in Keepers(s)' PROVE s \in subscription[st]
    <3>1. s \in Pool[st] /\ Pool[st] # {} /\ st \notin disturbed
      BY <1>1, <2>3, DailyAssumption DEF Keepers, Settled
    <3>2. Opened(st)
      BY <1>2, <1>3, <2>3, <3>1 DEF Keepers
    <3> QED  BY <3>1, <3>2 DEF PollInv, PoolsAreSubscribed
  <2> QED  BY <2>2, <2>3
<1>5. PoolsAreSubscribed'
  BY <1>1, <1>2, <1>3 DEF PollInv, PoolsAreSubscribed
<1> QED  BY <1>1, <1>4, <1>5, SubscribeKeeps DEF PollNext

LEMMA PollRunStep ==
  ASSUME PollInv, NEW st \in Strategies, NEW n \in Slots, RunStep(st, n)
  PROVE  PollNext
<1> DEFINE Open2 == {"replaying", "reported"}
<1>1. UNCHANGED <<enlisted, toSubscribe, disturbed, control>>
  BY DEF RunStep, ReleaseOld, Skip, CheckRunning, CreateWorker, Open, Report,
         Finish, GiveUp, ReportFailure, Reap, pipeline
<1>2. ASSUME NEW from \in Stages, NEW to \in Stages, Advance(st, n, from, to)
      PROVE  /\ stage[st][n] = from /\ stage'[st][n] = to
             /\ \A k \in Slots \ {n} : stage'[st][k] = stage[st][k]
             /\ \A r \in Strategies \ {st} : Opened(r)' = Opened(r)
  <2>1. /\ stage[st][n] = from /\ stage'[st][n] = to
        /\ \A k \in Slots \ {n} : stage'[st][k] = stage[st][k]
        /\ \A r \in Strategies \ {st}, k \in Slots : stage'[r][k] = stage[r][k]
    BY <1>2, AdvanceMoves DEF PollInv
  <2> QED  BY <2>1 DEF Opened
<1>3. ASSUME NEW from \in Stages, NEW to \in Stages, Advance(st, n, from, to),
             UNCHANGED quotes, to \in Open2 => from \in Open2
      PROVE  PollNext
  <2>1. \A r \in Strategies : Opened(r)' => Opened(r)
    BY <1>2, <1>3 DEF Opened
  <2>2. PoolsAreSubscribed'
    BY <1>1, <1>3, <2>1 DEF PollInv, PoolsAreSubscribed, quotes
  <2> QED  BY <1>1, <1>3, <2>1, <2>2, SettledFrame, PollFrame
<1>4. CASE Open(st, n)
  <2>1. /\ Advance(st, n, "created", "replaying")
        /\ SubscribeSymbols(st, Required[st], Pool[st])
    BY <1>4 DEF Open
  <2>2. /\ stage[st][n] = "created"
        /\ \A r \in Strategies \ {st} : Opened(r)' = Opened(r)
    BY <1>2, <2>1 DEF Stages
  <2>3. ~Opened(st)
    <3>1. InProgress(st) = {n}
      BY <2>2 DEF PollInv, OneRun, InProgress
    <3> QED  BY <2>2, <3>1 DEF Opened, InProgress
  <2>4. /\ subscription'[st] = Pool[st]
        /\ \A r \in Strategies \ {st} : subscription'[r] = subscription[r]
    BY <2>1, SubscribeWatches DEF PollInv
  <2>5. ASSUME NEW s \in Symbols
        PROVE  /\ Keepers(s)' \subseteq Keepers(s) \cup {st}
               /\ st \in Keepers(s)' \ Keepers(s) => s \in subscription[st]
    <3>1. Settled' = Settled /\ Settled \subseteq Strategies
      BY <1>1, SettledFrame DEF Settled, PollInv, FlowTypeOK
    <3>2. Keepers(s)' \subseteq Keepers(s) \cup {st}
      BY <2>2, <2>4, <3>1 DEF Keepers
    <3>3. st \in Keepers(s)' \ Keepers(s) => s \in subscription[st]
      BY <3>1 DEF Keepers, PollInv, PoolsAreSubscribed
    <3> QED  BY <3>2, <3>3
  <2>6. PoolsAreSubscribed'
    BY <1>1, <2>2, <2>4 DEF PollInv, PoolsAreSubscribed
  <2> QED  BY <2>1, <2>5, <2>6, SubscribeKeeps DEF PollNext
<1>5. ASSUME NEW from \in Open2, NEW to \in {"closed", "ended"},
             Advance(st, n, from, to), Close(st)
      PROVE  PollNext
  <2>1. /\ stage[st][n] = from /\ stage'[st][n] = to
        /\ \A k \in Slots \ {n} : stage'[st][k] = stage[st][k]
        /\ \A r \in Strategies \ {st} : Opened(r)' = Opened(r)
    BY <1>2, <1>5 DEF Stages
  <2>2. Opened(st) /\ ~Opened(st)'
    <3>1. InProgress(st) = {n}
      BY <2>1 DEF PollInv, OneRun, InProgress
    <3> QED  BY <2>1, <3>1 DEF Opened, InProgress
  <2>3. /\ subscription'[st] = {}
        /\ \A r \in Strategies \ {st} : subscription'[r] = subscription[r]
    BY <1>5, CloseWatches DEF PollInv
  <2>4. \A s \in Symbols : Keepers(s)' \subseteq Keepers(s)
    <3>1. Settled' = Settled /\ Settled \subseteq Strategies
      BY <1>1, SettledFrame DEF Settled, PollInv, FlowTypeOK
    <3> QED  BY <2>1, <2>2, <2>3, <3>1 DEF Keepers
  <2>5. PoolsAreSubscribed'
    BY <1>1, <2>1, <2>2, <2>3 DEF PollInv, PoolsAreSubscribed
  <2> QED  BY <1>5, <2>4, <2>5, CloseKeeps DEF PollNext
<1>6. CASE Finish(st, n)
  BY <1>5, <1>6 DEF Finish
<1>7. CASE GiveUp(st, n)
  BY <1>5, <1>7 DEF GiveUp
<1>8. CASE ReleaseOld(st, n)
  BY <1>3, <1>8 DEF ReleaseOld, Stages, quotes
<1>9. CASE Skip(st, n)
  BY <1>3, <1>9 DEF Skip, Stages, quotes
<1>10. CASE CheckRunning(st, n)
  BY <1>3, <1>10 DEF CheckRunning, Stages, quotes
<1>11. CASE CreateWorker(st, n)
  BY <1>3, <1>11 DEF CreateWorker, Stages, quotes
<1>12. CASE Report(st, n)
  BY <1>3, <1>12 DEF Report, Stages, quotes
<1>13. CASE ReportFailure(st, n)
  BY <1>3, <1>13 DEF ReportFailure, Stages, quotes
<1>14. CASE Reap(st, n)
  BY <1>3, <1>14 DEF Reap, Stages, quotes
<1> QED
  BY <1>4, <1>6, <1>7, <1>8, <1>9, <1>10, <1>11, <1>12, <1>13, <1>14 DEF RunStep

LEMMA PollCallStep ==
  ASSUME PollInv, NEW st \in Strategies,
         CallStep(st) \/ \E goal \in DOMAIN Joining : Call(st, goal)
  PROVE  PollNext
<1>1. ASSUME NEW from, NEW to, Goto(st, from, to)
      PROVE  /\ control[st] = from /\ control'[st] = to
             /\ \A r \in Strategies \ {st} : control'[r] = control[r]
  BY <1>1 DEF Goto, PollInv, FlowTypeOK
<1>2. ASSUME UNCHANGED quotes, Settled' \subseteq Settled, disturbed \subseteq disturbed',
             \A r \in Strategies : Opened(r)' => Opened(r),
             \A r \in Strategies : control'[r] # "idle" => r \in disturbed'
      PROVE  PollNext
  <2>1. PoolsAreSubscribed'
    BY <1>2 DEF PollInv, PoolsAreSubscribed, quotes
  <2> QED  BY <1>2, <2>1, PollFrame
<1>3. ASSUME stage' = stage PROVE \A r \in Strategies : Opened(r)' = Opened(r)
  BY <1>3 DEF Opened
<1>4. \A r \in Strategies : control[r] # "idle" => r \in disturbed
  BY DEF PollInv, PoolsAreSubscribed
<1>5. ASSUME NEW goal \in DOMAIN Joining, Call(st, goal) PROVE PollNext
  <2>1. /\ Goto(st, "idle", goal) /\ disturbed' = disturbed \cup {st}
        /\ UNCHANGED quotes /\ stage' = stage
        /\ enlisted' = enlisted /\ toSubscribe' = toSubscribe
    BY <1>5 DEF Call, pipeline
  <2>2. Settled' \subseteq Settled
    BY <2>1 DEF Settled
  <2> QED  BY <1>1, <1>2, <1>3, <1>4, <2>1, <2>2
<1>6. CASE TakeHandle(st)
  <2>1. PICK goal \in DOMAIN Joining : Goto(st, goal, Joining[goal])
    BY <1>6 DEF TakeHandle
  <2>2. control[st] # "idle"
    BY <1>1, <2>1 DEF Joining
  <2>3. /\ UNCHANGED quotes /\ stage' = stage
        /\ UNCHANGED <<enlisted, toSubscribe, disturbed>>
    BY <1>6 DEF TakeHandle, pipeline
  <2> QED  BY <1>1, <1>2, <1>3, <1>4, <2>1, <2>2, <2>3, SettledFrame
<1>7. CASE Join(st)
  <2>1. PICK at \in DOMAIN Joined : Goto(st, at, Joined[at])
    BY <1>7 DEF Join
  <2>2. control[st] # "idle"
    BY <1>1, <2>1 DEF Joined
  <2>3. /\ UNCHANGED quotes /\ UNCHANGED <<enlisted, toSubscribe, disturbed>>
        /\ \A n \in awaited[st] : stage[st][n] = "ended"
    BY <1>7 DEF Join, pipeline
  <2>4. \A r \in Strategies, n \in Slots :
          stage'[r][n] = IF r = st /\ n \in awaited[st] THEN "none" ELSE stage[r][n]
    BY <1>7 DEF Join, PollInv, FlowTypeOK
  <2>5. \A r \in Strategies : Opened(r)' => Opened(r)
    BY <2>4 DEF Opened
  <2> QED  BY <1>1, <1>2, <1>4, <2>1, <2>2, <2>3, <2>5, SettledFrame
<1>8. CASE Withdraw(st)
  <2>1. /\ Goto(st, "stopped", "idle") /\ UNCHANGED quotes /\ stage' = stage
        /\ enlisted' = enlisted \ {st} /\ UNCHANGED <<toSubscribe, disturbed>>
    BY <1>8 DEF Withdraw
  <2>2. Settled' \subseteq Settled
    BY <2>1 DEF Settled
  <2> QED  BY <1>1, <1>2, <1>3, <1>4, <2>1, <2>2
<1>9. ASSUME NEW from \in {"runCloses", "stopCloses"}, NEW to \in {"idle", "stopped"},
             Goto(st, from, to), Close(st), stage' = stage,
             UNCHANGED <<enlisted, toSubscribe, disturbed>>
      PROVE  PollNext
  <2>1. /\ control[st] # "idle" /\ st \in disturbed
        /\ \A r \in Strategies : control'[r] # "idle" => r \in disturbed'
    BY <1>1, <1>4, <1>9
  <2>2. /\ subscription'[st] = {}
        /\ \A r \in Strategies \ {st} : subscription'[r] = subscription[r]
    BY <1>9, CloseWatches DEF PollInv
  <2>3. \A s \in Symbols : Keepers(s)' \subseteq Keepers(s)
    <3>1. Settled' = Settled /\ Settled \subseteq Strategies \ {st}
      BY <1>9, <2>1, SettledFrame DEF Settled, PollInv, FlowTypeOK
    <3> QED  BY <1>3, <1>9, <2>2, <3>1 DEF Keepers
  <2>4. PoolsAreSubscribed'
    BY <1>3, <1>9, <2>1, <2>2 DEF PollInv, PoolsAreSubscribed
  <2> QED  BY <1>9, <2>3, <2>4, CloseKeeps DEF PollNext
<1>10. CASE EndRun(st)
  BY <1>9, <1>10 DEF EndRun, pipeline
<1>11. CASE EndFlowStop(st)
  BY <1>9, <1>11 DEF EndFlowStop, pipeline
<1> QED  BY <1>5, <1>6, <1>7, <1>8, <1>10, <1>11 DEF CallStep

LEMMA PollStep == PollInv /\ [Next]_vars => PollInv'
<1> SUFFICES ASSUME PollInv, [Next]_vars PROVE PollNext
  BY FlowTypeStep, OneRunStep DEF PollInv, PollNext
<1>1. CASE UNCHANGED vars
  <2>1. UNCHANGED quotes /\ UNCHANGED <<enlisted, toSubscribe, disturbed, control, stage>>
    BY <1>1 DEF vars, pipeline, flows
  <2>2. \A st \in Strategies : Opened(st)' = Opened(st)
    BY <2>1 DEF Opened
  <2>3. PoolsAreSubscribed'
    BY <2>1, <2>2 DEF PollInv, PoolsAreSubscribed, quotes
  <2> QED  BY <2>1, <2>2, <2>3, SettledFrame, PollFrame
<1> QED
  BY <1>1, PollDayStep, PollReadyStep, PollTimerStep, PollRunStep, PollCallStep DEF Next

LEMMA PollInit == Init => PollInv
<1> SUFFICES ASSUME Init PROVE PollInv
  OBVIOUS
<1>1. FlowTypeOK /\ OneRun
  BY RunsInit
<1>2. QuoteTypes /\ CountedAreWatched
  BY DEF Init, InitManager, QuoteTypes, CountedAreWatched, Common
<1>3. PoolsAreSubscribed
  BY DEF Init, InitManager, PoolsAreSubscribed, Opened
<1>4. ReferencesAreKept
  <2>1. \A s \in Symbols : Subscribers(s) = {} /\ Keepers(s) = {} /\ symbolCount[s] = 0
    BY DEF Init, InitManager, Subscribers, Keepers, Settled
  <2> QED  BY <2>1, FS_EmptySet DEF ReferencesAreKept
<1> QED  BY <1>1, <1>2, <1>3, <1>4 DEF PollInv

\* Where strategies require the same exchanges, the symbols of those that are
\* enlisted and left alone stay polled: each run takes back one reference of the
\* two that it and the timer took (SubscribeSymbols, UnsubscribeSymbols).
THEOREM EnlistedStayPolled ==
  ASSUME \A st, r \in Strategies : Required[st] = Required[r]
  PROVE  Spec => []EnlistedArePolled
<1>1. PollInv => EnlistedArePolled
  <2> SUFFICES ASSUME PollInv, NEW st \in Settled, NEW e \in Required[st], NEW s \in Pool[st]
               PROVE  s \in watched[e]
    BY DEF EnlistedArePolled, Settled
  <2>1. st \in Strategies
    BY DEF Settled, PollInv, FlowTypeOK
  <2>2. s \in Symbols /\ e \in Common
    BY <2>1, DailyAssumption, RequiredAssumption DEF Common
  <2>3. st \in Subscribers(s) \/ st \in Keepers(s)
    BY <2>1 DEF Subscribers, Keepers, PollInv, PoolsAreSubscribed
  <2>4. Cardinality(Subscribers(s)) + Cardinality(Keepers(s)) > 0
    <3>1. Subscribers(s) \in SUBSET Strategies /\ Keepers(s) \in SUBSET Strategies
      BY KeepersAreStrategies DEF PollInv
    <3>2. /\ Cardinality(Subscribers(s)) \in Nat /\ Cardinality(Keepers(s)) \in Nat
          /\ st \in Subscribers(s) => Cardinality(Subscribers(s)) > 0
          /\ st \in Keepers(s) => Cardinality(Keepers(s)) > 0
      BY <2>1, <3>1, CountStrategies
    <3> QED  BY <2>3, <3>2
  <2>5. symbolCount[s] \in Nat
        /\ symbolCount[s] >= Cardinality(Subscribers(s)) + Cardinality(Keepers(s))
    BY <2>2 DEF PollInv, QuoteTypes, ReferencesAreKept
  <2>6. Cardinality(Subscribers(s)) \in Nat /\ Cardinality(Keepers(s)) \in Nat
    BY <2>1, CountStrategies, KeepersAreStrategies DEF PollInv
  <2>7. symbolCount[s] > 0
    BY <2>4, <2>5, <2>6
  <2> QED  BY <2>2, <2>7 DEF PollInv, CountedAreWatched
<1> QED  BY <1>1, PollInit, PollStep, PTL DEF Spec
=============================================================================
