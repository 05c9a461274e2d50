------------------------------ MODULE FlowRuns ------------------------------
(***************************************************************************)
(* Real-time strategies: the threads of the flow subsystem                 *)
(* (AgentSubSystem.cpp: Start, StartRealtime and its worker, Stop) and the *)
(* exchange manager they share.                                            *)
(*                                                                         *)
(* A control thread per strategy (the HTTP requests for it) starts and     *)
(* stops it; a worker thread per running strategy reads quotes until it    *)
(* is stopped or fails.  The requests for one strategy come one after the  *)
(* other: a contract of the clients, which nothing in the server enforces  *)
(* and without which two stops could join and delete the same worker.      *)
(*                                                                         *)
(* The reference counts of exchanges have no lock.  StartExchange tests    *)
(* the count, logs in, and sets the count through a reference it got       *)
(* before; StopExchange counts down, logs out, and erases the entry.       *)
(* Other threads come in between at each of these points; a write through  *)
(* a reference to an entry that was erased may be lost.  Left out: torn    *)
(* counts, and what the graph of a strategy computes.                      *)
(***************************************************************************)
EXTENDS ExchangeManager

CONSTANTS
  Pool,    \* the symbols of a strategy
  Shadow   \* the strategies that run in shadow mode

ASSUME FlowAssumption ==
  /\ Pool \in [Strategies -> SUBSET Symbols]
  /\ Shadow \subseteq Strategies

VARIABLES
  refCount,  \* _exchangeRefCounts, 0 where there is no entry
  loggedIn,  \* the exchanges with a session
  control,   \* where the control thread of a strategy is
  restart,   \* whether it starts the strategy, or only stops it
  starting,  \* the exchanges it has still to start
  login,     \* the exchange it is logging in to, if any
  stale,     \* the strategies whose login refers to an erased entry
  stopping,  \* the exchanges a thread of the strategy has still to stop
  leaving,   \* the exchange it counted down to 0 and logs out, if any
  erasing,   \* the exchange it logged out and whose entry it erases, if any
  crossed,   \* history: the exchanges logged in to while they were being closed
  owned,     \* the exchanges that were started for the present run
  running,   \* _running of a strategy
  worker,    \* where the worker of a strategy is
  mode,      \* the running mode of the whole server
  original   \* the mode a worker found

sessions == <<refCount, loggedIn, stale, crossed, leaving, erasing>>
controls == <<control, restart, starting, login>>
modes == <<mode, original>>
vars == <<sessions, stopping, quotes, controls, owned, running, worker, modes>>

Init ==
  /\ InitManager
  /\ refCount = [e \in Exchanges |-> 0]
  /\ loggedIn = {} /\ stale = {} /\ crossed = {}
  /\ stopping = [st \in Strategies |-> {}]
  /\ leaving = [st \in Strategies |-> {}]
  /\ erasing = [st \in Strategies |-> {}]
  /\ control = [st \in Strategies |-> "idle"]
  /\ restart = [st \in Strategies |-> FALSE]
  /\ starting = [st \in Strategies |-> {}]
  /\ login = [st \in Strategies |-> {}]
  /\ owned = [st \in Strategies |-> {}]
  /\ running = [st \in Strategies |-> FALSE]
  /\ worker = [st \in Strategies |-> "none"]
  /\ mode = "live"
  /\ original = [st \in Strategies |-> "live"]

Goto(st, from, to) == control[st] = from /\ control' = [control EXCEPT ![st] = to]
Work(st, from, to) == worker[st] = from /\ worker' = [worker EXCEPT ![st] = to]

-----------------------------------------------------------------------------
(* The control thread.  Start stops the strategy first. *)

Call(st, start) ==
  /\ Goto(st, "idle", "joining")
  /\ restart' = [restart EXCEPT ![st] = start]
  /\ running' = [running EXCEPT ![st] = FALSE]
  /\ UNCHANGED <<sessions, stopping, quotes, starting, login, owned, worker, modes>>

Join(st) ==
  /\ Goto(st, "joining", "unsubscribing")
  /\ worker[st] \in {"none", "ended"}
  /\ worker' = [worker EXCEPT ![st] = "none"]
  /\ UNCHANGED <<sessions, stopping, quotes, restart, starting, login, owned, running, modes>>

\* Mutant: only a worker stops exchanges.
UnsubscribeOnly(st) ==
  /\ Goto(st, "unsubscribing", "stopping")
  /\ UnsubscribeSymbols(st, Required[st])
  /\ UNCHANGED <<sessions, stopping, restart, starting, login, owned, running, worker, modes>>

\* The exchanges are stopped next, one after the other.
Unsubscribe(st) ==
  /\ Goto(st, "unsubscribing", "stopping")
  /\ UnsubscribeSymbols(st, Required[st])
  /\ stopping' = [stopping EXCEPT ![st] = Required[st]]
  /\ UNCHANGED <<sessions, restart, starting, login, owned, running, worker, modes>>

Stopped(st) == stopping[st] = {} /\ leaving[st] = {} /\ erasing[st] = {}

\* The end of Stop, and for Start the beginning of StartRealtime.
EndStop(st) ==
  /\ Goto(st, "stopping", IF restart[st] THEN "starting" ELSE "idle")
  /\ Stopped(st)
  /\ starting' = [starting EXCEPT ![st] = IF restart[st] THEN Required[st] ELSE {}]
  /\ running' = [running EXCEPT ![st] = restart[st]]
  /\ UNCHANGED <<sessions, stopping, quotes, restart, login, owned, worker, modes>>

Closing(e) == \E st \in Strategies : e \in leaving[st] \cup erasing[st]
LoggingIn(e) == {st \in Strategies : e \in login[st]}

\* StartExchange: count a user of a session, or log in.
StartExchange(st, e) ==
  /\ control[st] = "starting" /\ login[st] = {}
  /\ e \in starting[st]
  /\ starting' = [starting EXCEPT ![st] = @ \ {e}]
  /\ IF refCount[e] > 0
       THEN /\ refCount' = [refCount EXCEPT ![e] = @ + 1]
            /\ owned' = [owned EXCEPT ![st] = @ \cup {e}]
            /\ UNCHANGED <<login, crossed>>
       ELSE /\ login' = [login EXCEPT ![st] = {e}]
            /\ crossed' = IF Closing(e) THEN crossed \cup {e} ELSE crossed
            /\ UNCHANGED <<refCount, owned>>
  /\ UNCHANGED <<loggedIn, stale, stopping, leaving, erasing, quotes, control, restart,
                 running, worker, modes>>

\* The count is set to 1; through a stale reference it may be lost.
CountSet(st) ==
  \/ refCount' = [e \in Exchanges |-> IF e \in login[st] THEN 1 ELSE refCount[e]]
  \/ st \in stale /\ UNCHANGED refCount

\* Mutant: a failed login counts as a use.
LoginCounted(st) ==
  /\ login[st] # {}
  /\ login' = [login EXCEPT ![st] = {}]
  /\ stale' = stale \ {st}
  /\ loggedIn' \in {loggedIn, loggedIn \cup login[st]}
  /\ CountSet(st)
  /\ owned' = [owned EXCEPT ![st] = @ \cup login[st]]
  /\ UNCHANGED <<crossed, leaving, erasing, stopping, quotes, control, restart, starting,
                 running, worker, modes>>

\* Login succeeded, and the count is set; or it failed.
LoginEnds(st) ==
  /\ login[st] # {}
  /\ login' = [login EXCEPT ![st] = {}]
  /\ stale' = stale \ {st}
  /\ \/ /\ loggedIn' = loggedIn \cup login[st]
        /\ CountSet(st)
        /\ owned' = [owned EXCEPT ![st] = @ \cup login[st]]
     \/ UNCHANGED <<refCount, loggedIn, owned>>
  /\ UNCHANGED <<crossed, leaving, erasing, stopping, quotes, control, restart, starting,
                 running, worker, modes>>

\* The rest of StartRealtime: subscribe, start the worker.
Launch(st) ==
  /\ Goto(st, "starting", "idle")
  /\ starting[st] = {} /\ login[st] = {}
  /\ SubscribeSymbols(st, Required[st], Pool[st])
  /\ worker' = [worker EXCEPT ![st] = "launched"]
  /\ UNCHANGED <<sessions, stopping, restart, starting, login, owned, running, modes>>

-----------------------------------------------------------------------------
(* The worker. *)

Enter(st) ==
  /\ Work(st, "launched", "entered")
  /\ original' = [original EXCEPT ![st] = mode]
  /\ mode' = IF st \in Shadow THEN "shadow" ELSE mode
  /\ UNCHANGED <<sessions, stopping, quotes, controls, owned, running>>

\* Without a socket for the quotes the worker returns at once.
NoQuotes(st) ==
  /\ Work(st, "entered", "ended")
  /\ running' = [running EXCEPT ![st] = FALSE]
  /\ UNCHANGED <<sessions, stopping, quotes, controls, owned, modes>>

Loop(st) ==
  /\ Work(st, "entered", "looping")
  /\ UNCHANGED <<sessions, stopping, quotes, controls, owned, running, modes>>

\* Mutant: the worker does not look at _running.
NeverQuit(st) == FALSE /\ UNCHANGED vars

Quit(st) ==
  /\ ~running[st]
  /\ Work(st, "looping", "leaving")
  /\ stopping' = [stopping EXCEPT ![st] = Required[st]]
  /\ UNCHANGED <<sessions, quotes, controls, owned, running, modes>>

\* The graph fails, or a node throws.
Fail(st) ==
  /\ Work(st, "looping", "leaving")
  /\ running' = [running EXCEPT ![st] = FALSE]
  /\ stopping' = [stopping EXCEPT ![st] = Required[st]]
  /\ UNCHANGED <<sessions, quotes, controls, owned, modes>>

EndOwnStop(st) ==
  /\ Work(st, "leaving", "restoring")
  /\ Stopped(st)
  /\ UNCHANGED <<sessions, stopping, quotes, controls, owned, running, modes>>

Restore(st) ==
  /\ Work(st, "restoring", "ended")
  /\ mode' = IF st \in Shadow THEN original[st] ELSE mode
  /\ UNCHANGED <<sessions, stopping, quotes, controls, owned, running, original>>

-----------------------------------------------------------------------------
(* StopExchange, in the control thread or the worker.  One of the two waits *)
(* for the other.                                                           *)

\* Without effect at 0; the last user logs out.
StopExchange(st, e) ==
  /\ leaving[st] = {} /\ erasing[st] = {}
  /\ e \in stopping[st]
  /\ stopping' = [stopping EXCEPT ![st] = @ \ {e}]
  /\ owned' = [owned EXCEPT ![st] = @ \ {e}]
  /\ refCount' = [refCount EXCEPT ![e] = IF @ > 0 THEN @ - 1 ELSE @]
  /\ leaving' = [leaving EXCEPT ![st] = IF refCount[e] = 1 THEN {e} ELSE {}]
  /\ crossed' = IF refCount[e] = 1 /\ LoggingIn(e) # {} THEN crossed \cup {e} ELSE crossed
  /\ UNCHANGED <<loggedIn, stale, erasing, quotes, controls, running, worker, modes>>

\* StopQuery and Logout.
Logout(st) ==
  /\ leaving[st] # {}
  /\ loggedIn' = loggedIn \ leaving[st]
  /\ erasing' = [erasing EXCEPT ![st] = leaving[st]]
  /\ leaving' = [leaving EXCEPT ![st] = {}]
  /\ UNCHANGED <<refCount, stale, crossed, stopping, quotes, controls, owned, running,
                 worker, modes>>

\* The entry goes, with what a login may have counted in it meanwhile.
Erase(st) ==
  /\ erasing[st] # {}
  /\ refCount' = [e \in Exchanges |-> IF e \in erasing[st] THEN 0 ELSE refCount[e]]
  /\ stale' = stale \cup {o \in Strategies : login[o] \cap erasing[st] # {}}
  /\ erasing' = [erasing EXCEPT ![st] = {}]
  /\ UNCHANGED <<loggedIn, crossed, stopping, leaving, quotes, controls, owned, running,
                 worker, modes>>

-----------------------------------------------------------------------------

ControlStep(st) ==
  \/ Join(st) \/ Unsubscribe(st) \/ EndStop(st)
  \/ \E e \in Exchanges : StartExchange(st, e)
  \/ LoginEnds(st) \/ Launch(st)

WorkerStep(st) ==
  Enter(st) \/ NoQuotes(st) \/ Loop(st) \/ Quit(st) \/ EndOwnStop(st) \/ Restore(st)

StopStep(st) ==
  (\E e \in Exchanges : StopExchange(st, e)) \/ Logout(st) \/ Erase(st)

Next ==
  \E st \in Strategies :
    \/ \E start \in BOOLEAN : Call(st, start)
    \/ ControlStep(st) \/ WorkerStep(st) \/ StopStep(st) \/ Fail(st)

\* Threads run on; a read of quotes times out, so that a worker sees _running.
Fairness ==
  \A st \in Strategies :
    WF_vars(ControlStep(st)) /\ WF_vars(WorkerStep(st)) /\ WF_vars(StopStep(st))

Spec == Init /\ [][Next]_vars /\ Fairness

-----------------------------------------------------------------------------
(* Properties. *)

OneOrNone == {{}} \cup {{e} : e \in Exchanges}

TypeOK ==
  /\ ManagerTypeOK
  /\ refCount \in [Exchanges -> Nat]
  /\ loggedIn \cup crossed \subseteq Exchanges /\ stale \subseteq Strategies
  /\ control \in [Strategies ->
       {"idle", "joining", "unsubscribing", "stopping", "starting"}]
  /\ restart \in [Strategies -> BOOLEAN]
  /\ {starting, owned, stopping} \subseteq [Strategies -> SUBSET Exchanges]
  /\ {login, leaving, erasing} \subseteq [Strategies -> OneOrNone]
  /\ \A st \in Strategies :
       /\ starting[st] \cup login[st] \cup owned[st] \subseteq Required[st]
       /\ stopping[st] \cup leaving[st] \cup erasing[st] \subseteq Required[st]
  /\ running \in [Strategies -> BOOLEAN]
  /\ worker \in [Strategies ->
       {"none", "launched", "entered", "looping", "leaving", "restoring", "ended"}]
  /\ mode \in {"live", "shadow"}
  /\ original \in [Strategies -> {"live", "shadow"}]

Trades(st) == worker[st] \in {"entered", "looping"} /\ running[st]

\* The exchanges that were started for a running strategy and that no other one
\* requires stay logged in, while others start, stop and fail.  Of a shared exchange
\* this is not true: Stop counts it down whether or not its strategy counted it up.
OwnedAlone(st) == {e \in owned[st] : \A o \in Strategies \ {st} : e \notin Required[o]}

RunningKeepsOwnExchanges ==
  \A st \in Strategies : Trades(st) => OwnedAlone(st) \subseteq loggedIn

\* The symbols of a running strategy are polled, on the exchanges that all the
\* strategies with this symbol require.
SharedBy(s) == {e \in Exchanges : \A st \in Strategies : s \in Pool[st] => e \in Required[st]}

RunningIsSubscribed ==
  \A st \in Strategies :
    Trades(st) => \A s \in Pool[st] : \A e \in SharedBy(s) : s \in watched[e]

\* Those exchanges drop a symbol once no strategy is subscribed to it, in whatever
\* order the strategies that share it came and went.
UnusedAreDropped ==
  \A s \in Symbols : \A e \in SharedBy(s) : s \in watched[e] => Subscribers(s) # {}

\* When all the strategies that require an exchange were stopped it is logged out,
\* also when a worker returned early, a login had failed or two had logged in at once.
\* The exception is an exchange that one strategy logged in to while another was
\* closing it: the entry is erased with the new count, and the session stays.
StoppedIsLoggedOut ==
  \A e \in loggedIn \ crossed : \E st \in Strategies :
    e \in Required[st] /\ ~(control[st] = "idle" /\ worker[st] = "none")

\* Starting and stopping a strategy return, whatever its worker is doing.
CallsReturn == \A st \in Strategies : control[st] # "idle" ~> control[st] = "idle"
=============================================================================
