------------------------------ MODULE DailyRuns ------------------------------
(***************************************************************************)
(* The daily pipeline: strategies that decide once a day, after the close. *)
(* Threads of four kinds meet in it:                                       *)
(*   - the timer enlists strategies at 15:00 (EnsureDailyReady), and       *)
(*     subscribes them once it has released _dailyMtx;                     *)
(*   - the quote thread marks a polled symbol ready (MarkSymbolReady), and *)
(*     a strategy all of whose symbols are ready gets a detached thread    *)
(*     (ExecuteDailyStrategy), which starts its worker (StartDaily);       *)
(*   - the worker subscribes, replays, reports and unsubscribes;           *)
(*   - HTTP threads, one for each strategy, run it and stop it: clients    *)
(*     wait for one answer before they ask for the same strategy again,    *)
(*     which is their contract and nothing the server enforces.            *)
(* All of _dailyStrategySymbols, _dailyReadySymbols,                       *)
(* _dailyExecutedStrategies and _dailyErrors is guarded by _dailyMtx, and  *)
(* a step is what happens under it.  The pools are those of strategies     *)
(* with a manual execute node.  Left out: the replay, reports and their    *)
(* files, the simulated bars of debug builds, and the sessions that Open   *)
(* and Close count (FlowRuns), which nothing here reads.                   *)
(***************************************************************************)
EXTENDS ExchangeManager

CONSTANTS
  Pool,     \* the symbols of a strategy
  Managed,  \* the strategies run and stopped here; the others were run before
  Slots,    \* bound of the model: unfinished or unjoined runs of one strategy
  MaxDay    \* bound of the model: days

ASSUME DailyAssumption ==
  /\ Pool \in [Strategies -> (SUBSET Symbols) \ {{}}]
  /\ Managed \subseteq Strategies
  /\ Slots \subseteq Nat
  /\ MaxDay \in Nat

VARIABLES
  day,          \* _lastDailyDate, 0 until _dailyInitialized
  enlisted,     \* the strategies in _dailyStrategySymbols
  ready,        \* _dailyReadySymbols
  executed,     \* _dailyExecutedStrategies: triggered today
  errors,       \* _dailyErrors: the strategies with an error not yet mailed
  toSubscribe,  \* the strategies the timer has still to subscribe
  stage,        \* where each run of a strategy is
  handle,       \* _dailyWorker: the slot of the run it belongs to, if any
  running,      \* the strategies with _running
  control,      \* where the HTTP thread of a strategy is
  awaited,      \* the run it has taken from the handle to join, if any
  disturbed     \* the strategies run or stopped since they were enlisted

pipeline == <<day, enlisted, ready, executed, errors, toSubscribe>>
flows == <<stage, handle, running, control, awaited, disturbed>>
vars == <<quotes, pipeline, flows>>

Init ==
  /\ InitManager
  /\ day = 0 /\ enlisted = {} /\ ready = {} /\ executed = {} /\ errors = {}
  /\ toSubscribe = {}
  /\ stage = [st \in Strategies |-> [n \in Slots |-> "none"]]
  /\ handle = [st \in Strategies |-> {}]
  /\ running = Strategies \ Managed
  /\ control = [st \in Strategies |-> "idle"]
  /\ awaited = [st \in Strategies |-> {}]
  /\ disturbed = {}

-----------------------------------------------------------------------------
(* The timer and the quote thread. *)

InProgress(st) == {n \in Slots : stage[st][n] \notin {"none", "ended"}}

\* Mutant: the strategies are enlisted, and not subscribed.
EnlistOnly ==
  /\ day < MaxDay /\ toSubscribe = {}
  /\ \A st \in Strategies : InProgress(st) = {}
  /\ day' = day + 1
  /\ ready' = {} /\ executed' = {} /\ errors' = {}
  /\ enlisted' = Strategies
  /\ disturbed' = (disturbed \cap enlisted) \cup {st \in Strategies : control[st] # "idle"}
  /\ UNCHANGED <<quotes, toSubscribe, stage, handle, running, control, awaited>>

\* The schedule calls it once a day.  A run takes minutes: none is left of the
\* day before.  Strategies that are enlisted are not subscribed again.
EnsureDailyReady ==
  /\ day < MaxDay /\ toSubscribe = {}
  /\ \A st \in Strategies : InProgress(st) = {}
  /\ day' = day + 1
  /\ ready' = {} /\ executed' = {} /\ errors' = {}
  /\ enlisted' = Strategies
  /\ toSubscribe' = Strategies \ enlisted
  /\ disturbed' = (disturbed \cap enlisted) \cup {st \in Strategies : control[st] # "idle"}
  /\ UNCHANGED <<quotes, stage, handle, running, control, awaited>>

SubscribeEnlisted(st) ==
  /\ st \in toSubscribe
  /\ toSubscribe' = toSubscribe \ {st}
  /\ SubscribeSymbols(st, Required[st], Pool[st])
  /\ UNCHANGED <<day, enlisted, ready, executed, errors, flows>>

\* The strategies that a ready symbol lets run.
Due(s) == {st \in enlisted \ executed : Pool[st] \subseteq ready \cup {s}}

\* A detached thread for every strategy of a set.
Triggered(set) ==
  /\ \A st \in set : \E n \in Slots : stage[st][n] = "none"
  /\ stage' = [st \in Strategies |->
       IF st \in set
         THEN [stage[st] EXCEPT ![CHOOSE n \in Slots : stage[st][n] = "none"] = "triggered"]
         ELSE stage[st]]

\* Mutant: a strategy that is triggered is not marked.
MarkOnly(s) ==
  /\ day > 0
  /\ \E e \in Exchanges : s \in watched[e]
  /\ ready' = ready \cup {s}
  /\ Triggered(Due(s))
  /\ UNCHANGED <<quotes, day, enlisted, executed, errors, toSubscribe,
                 handle, running, control, awaited, disturbed>>

\* The close of a polled symbol was written; each poll after 15:00 does it again.
MarkSymbolReady(s) ==
  /\ day > 0
  /\ \E e \in Exchanges : s \in watched[e]
  /\ ready' = ready \cup {s}
  /\ executed' = executed \cup Due(s)
  /\ Triggered(Due(s))
  /\ UNCHANGED <<quotes, day, enlisted, errors, toSubscribe,
                 handle, running, control, awaited, disturbed>>

-----------------------------------------------------------------------------
(* A run: StartDaily in the detached thread, then the worker. *)

Advance(st, n, from, to) ==
  stage[st][n] = from /\ stage' = [stage EXCEPT ![st][n] = to]

\* Mutant: the mail waits for more strategies than there are.
MailTooLate(st, failed) ==
  LET all == IF failed THEN errors \cup {st} ELSE errors
  IN  errors' = IF Cardinality(executed) > Cardinality(enlisted) THEN {} ELSE all

\* The callback: note an error; mail all errors once every strategy was triggered.
Callback(st, failed) ==
  LET all == IF failed THEN errors \cup {st} ELSE errors
  IN  errors' = IF Cardinality(executed) >= Cardinality(enlisted) THEN {} ELSE all

\* joinDailyWorkerAsync: a monitor thread takes the old worker over.
ReleaseOld(st, n) ==
  /\ Advance(st, n, "triggered", "released")
  /\ handle' = [handle EXCEPT ![st] = {}]
  /\ UNCHANGED <<quotes, pipeline, running, control, awaited, disturbed>>

Skip(st, n) ==
  /\ st \notin running
  /\ \/ Advance(st, n, "released", "none")
     \/ Advance(st, n, "checked", "none")
  /\ Callback(st, TRUE)
  /\ UNCHANGED <<quotes, day, enlisted, ready, executed, toSubscribe,
                 handle, running, control, awaited, disturbed>>

CheckRunning(st, n) ==
  /\ st \in running
  /\ Advance(st, n, "released", "checked")
  /\ UNCHANGED <<quotes, pipeline, handle, running, control, awaited, disturbed>>

\* Mutant: _running is not checked again.
CreateUnchecked(st, n) ==
  /\ Advance(st, n, "checked", "created")
  /\ handle' = [handle EXCEPT ![st] = {n}]
  /\ UNCHANGED <<quotes, pipeline, running, control, awaited, disturbed>>

\* Under _flowMtx, as the taking of the handle, with a second look at _running.
CreateWorker(st, n) ==
  /\ st \in running
  /\ Advance(st, n, "checked", "created")
  /\ handle' = [handle EXCEPT ![st] = {n}]
  /\ UNCHANGED <<quotes, pipeline, running, control, awaited, disturbed>>

\* The sessions of the exchanges (FlowRuns) are apart: no property reads them.
Open(st, n) ==
  /\ Advance(st, n, "created", "replaying")
  /\ SubscribeSymbols(st, Required[st], Pool[st])
  /\ UNCHANGED <<pipeline, handle, running, control, awaited, disturbed>>

Close(st) == UnsubscribeSymbols(st, Required[st])

\* The replay ends, with decisions or an error: report, then close.
Report(st, n) ==
  /\ Advance(st, n, "replaying", "reported")
  /\ \E failed \in BOOLEAN : Callback(st, failed)
  /\ UNCHANGED <<quotes, day, enlisted, ready, executed, toSubscribe,
                 handle, running, control, awaited, disturbed>>

Finish(st, n) ==
  /\ Advance(st, n, "reported", "ended")
  /\ Close(st)
  /\ UNCHANGED <<pipeline, handle, running, control, awaited, disturbed>>

\* No context or no history: close, then report.
GiveUp(st, n) ==
  /\ Advance(st, n, "replaying", "closed")
  /\ Close(st)
  /\ UNCHANGED <<pipeline, handle, running, control, awaited, disturbed>>

ReportFailure(st, n) ==
  /\ Advance(st, n, "closed", "ended")
  /\ Callback(st, TRUE)
  /\ UNCHANGED <<quotes, day, enlisted, ready, executed, toSubscribe,
                 handle, running, control, awaited, disturbed>>

\* The monitor thread joins a worker it took over.
Reap(st, n) ==
  /\ n \notin handle[st] \cup awaited[st]
  /\ Advance(st, n, "ended", "none")
  /\ UNCHANGED <<quotes, pipeline, handle, running, control, awaited, disturbed>>

-----------------------------------------------------------------------------
(* HTTP: StrategySubSystem::Run and Stop, both of which begin with          *)
(* FlowSubsystem::Stop.                                                     *)

Goto(st, from, to) == control[st] = from /\ control' = [control EXCEPT ![st] = to]

Call(st, goal) ==
  /\ st \in Managed
  /\ Goto(st, "idle", goal)
  /\ running' = running \ {st}
  /\ disturbed' = disturbed \cup {st}
  /\ UNCHANGED <<quotes, pipeline, stage, handle, awaited>>

Joining == [run |-> "runJoins", stop |-> "stopJoins"]
Joined == [runJoins |-> "runCloses", stopJoins |-> "stopCloses"]

\* joinDailyWorkerSync: take the handle, then wait.
TakeHandle(st) ==
  /\ \E goal \in DOMAIN Joining : Goto(st, goal, Joining[goal])
  /\ awaited' = [awaited EXCEPT ![st] = handle[st]]
  /\ handle' = [handle EXCEPT ![st] = {}]
  /\ UNCHANGED <<quotes, pipeline, stage, running, disturbed>>

Join(st) ==
  /\ \A n \in awaited[st] : stage[st][n] = "ended"
  /\ \E at \in DOMAIN Joined : Goto(st, at, Joined[at])
  /\ stage' = [stage EXCEPT ![st] =
       [n \in Slots |-> IF n \in awaited[st] THEN "none" ELSE stage[st][n]]]
  /\ awaited' = [awaited EXCEPT ![st] = {}]
  /\ UNCHANGED <<quotes, pipeline, handle, running, disturbed>>

\* A daily strategy has no other worker to start.
EndRun(st) ==
  /\ Goto(st, "runCloses", "idle")
  /\ Close(st)
  /\ running' = running \cup {st}
  /\ UNCHANGED <<pipeline, stage, handle, awaited, disturbed>>

EndFlowStop(st) ==
  /\ Goto(st, "stopCloses", "stopped")
  /\ Close(st)
  /\ UNCHANGED <<pipeline, stage, handle, running, awaited, disturbed>>

\* Last of all, Stop takes the strategy out of the pipeline.
Withdraw(st) ==
  /\ Goto(st, "stopped", "idle")
  /\ enlisted' = enlisted \ {st}
  /\ executed' = executed \ {st}
  /\ UNCHANGED <<quotes, day, ready, errors, toSubscribe, stage, handle,
                 running, awaited, disturbed>>

-----------------------------------------------------------------------------

RunStep(st, n) ==
  \/ ReleaseOld(st, n) \/ Skip(st, n) \/ CheckRunning(st, n) \/ CreateWorker(st, n)
  \/ Open(st, n) \/ Report(st, n) \/ Finish(st, n)
  \/ GiveUp(st, n) \/ ReportFailure(st, n) \/ Reap(st, n)

CallStep(st) ==
  TakeHandle(st) \/ Join(st) \/ EndRun(st) \/ EndFlowStop(st) \/ Withdraw(st)

Next ==
  \/ EnsureDailyReady
  \/ \E s \in Symbols : MarkSymbolReady(s)
  \/ \E st \in Strategies :
       \/ SubscribeEnlisted(st)
       \/ \E n \in Slots : RunStep(st, n)
       \/ \E goal \in DOMAIN Joining : Call(st, goal)
       \/ CallStep(st)

\* Threads run on, a replay ends, and each symbol that is polled is polled again.
Fairness ==
  /\ \A s \in Symbols : WF_vars(MarkSymbolReady(s))
  /\ \A st \in Strategies :
       /\ WF_vars(SubscribeEnlisted(st))
       /\ WF_vars(CallStep(st))
       /\ \A n \in Slots : WF_vars(RunStep(st, n))

Spec == Init /\ [][Next]_vars /\ Fairness

-----------------------------------------------------------------------------
(* Properties. *)

TypeOK ==
  /\ ManagerTypeOK
  /\ day \in 0..MaxDay
  /\ executed \subseteq enlisted
  /\ enlisted \cup errors \cup toSubscribe \cup running \cup disturbed \subseteq Strategies
  /\ ready \subseteq Symbols
  /\ stage \in [Strategies -> [Slots -> {"none", "triggered", "released", "checked",
       "created", "replaying", "reported", "closed", "ended"}]]
  /\ handle \in [Strategies -> SUBSET Slots] /\ awaited \in [Strategies -> SUBSET Slots]
  /\ control \in [Strategies -> {"idle", "run", "stop", "runJoins", "stopJoins",
       "runCloses", "stopCloses", "stopped"}]

\* A strategy has one run at a time, in its thread or its worker, in whatever order
\* quotes, days, starts and stops come: the runs would share its nodes, and a second
\* worker would replace a handle that was not joined.
OneRunAtATime == \A st \in Strategies : Cardinality(InProgress(st)) <= 1

\* Once a stop has returned no worker of the strategy is alive, also when the stop
\* came while StartDaily was about to create one.
Alive(st) == {n \in InProgress(st) : stage[st][n] \notin {"triggered", "released", "checked"}}

StopEndsRuns ==
  \A st \in Strategies \ running : control[st] = "idle" => Alive(st) = {}

\* The symbols of an enlisted strategy stay polled from day to day, although each
\* run unsubscribes from them, unless it was run or stopped since.
EnlistedArePolled ==
  \A st \in enlisted \ (toSubscribe \cup disturbed) :
    \A e \in Required[st] : Pool[st] \subseteq watched[e]

\* When all strategies are enlisted and triggered, and the last has reported, every
\* error of the day has been mailed.
ErrorsAreMailed ==
  /\ enlisted = Strategies /\ executed = Strategies
  /\ \A st \in Strategies : InProgress(st) \subseteq {n \in Slots : stage[st][n] = "reported"}
  => errors = {}

\* Every day each strategy is triggered, unless it was run or stopped since it was
\* enlisted.
UndisturbedAreExecuted ==
  \A st \in Strategies :
    day > 0 /\ st \notin executed ~> st \in executed \cup disturbed
=============================================================================
