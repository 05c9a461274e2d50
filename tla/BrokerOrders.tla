----------------------------- MODULE BrokerOrders -----------------------------
(***************************************************************************)
(* The life of an order context in the live service: created by a caller   *)
(* (an HTTP or strategy thread), handed to an exchange bridge, pushed to   *)
(* the queue of the broker thread, flagged by the bridge, recorded and     *)
(* deleted by the broker thread (BrokerSubSystem.cpp: AddOrderBySide,      *)
(* CancelOrder, run, RecordTrade, Release).                                *)
(*                                                                         *)
(* The bridges differ in who reports.  HX sends the order and one callback *)
(* thread reports to it later; TickFlow fills it inside AddOrder; one that *)
(* refuses, and the simulated exchange, never report.  HX's exchange is    *)
(* modelled by the order of reports HXTrade.cpp hands on.                  *)
(*                                                                         *)
(* Left out: the options trade API (a second callback thread with orders   *)
(* of its own), the deprecated blocking AddOrderBySide, prices and fills'  *)
(* quantities (Ledger).                                                    *)
(***************************************************************************)
EXTENDS Integers, Sequences, FiniteSets

CONSTANTS
  HxOrders,        \* orders routed to the HX bridge
  TickFlowOrders,  \* orders routed to the TickFlow bridge
  Cancels,         \* cancellations sent to HX, contexts of their own
  MaxReports       \* bound of the model: reports on one context

Orders == HxOrders \cup TickFlowOrders
Contexts == Orders \cup Cancels

ASSUME OrdersAssumption ==
  /\ HxOrders \cap TickFlowOrders = {} /\ Orders \cap Cancels = {}
  /\ IsFiniteSet(Contexts)
  /\ MaxReports \in Nat

VARIABLES
  caller,    \* where the thread that made a context is
  market,    \* the order at the exchange: none, open, filled, over
  registry,  \* _orders: the contexts HX finds by request id
  finishing, \* contexts HX flagged and is about to take out of _orders
  reports,   \* _trades._reports of a context
  strays,    \* history: contexts that were read after they were deleted
  flag,      \* _flag, the end of an order
  success,   \* _success
  queue,     \* _order_queue
  working,   \* contexts: the list of the broker thread
  scan,      \* the contexts this round has still to look at
  broker,    \* where the broker thread is
  exit,      \* _exit
  deleted,   \* contexts that were deleted
  records,   \* how often a context was recorded
  fills      \* how many fills of a context were booked

bridge == <<market, registry, finishing, reports, strays>>
ends == <<flag, success>>
thread == <<working, scan, deleted, records, fills>>
vars == <<caller, bridge, ends, queue, thread, broker, exit>>

Reports == {"accept", "part", "success", "over"}

Init ==
  /\ caller = [c \in Contexts |-> "idle"]
  /\ market = [c \in Contexts |-> "none"]
  /\ registry = {} /\ finishing = {}
  /\ reports = [c \in Contexts |-> << >>]
  /\ strays = {}
  /\ flag = [c \in Contexts |-> FALSE]
  /\ success = [c \in Contexts |-> FALSE]
  /\ queue = << >>
  /\ working = {} /\ scan = {} /\ deleted = {}
  /\ broker = "waiting"
  /\ exit = FALSE
  /\ records = [c \in Contexts |-> 0]
  /\ fills = [c \in Contexts |-> 0]

\* notify_all wakes the broker thread only while it waits.
Notified == IF broker = "waiting" THEN "notified" ELSE broker

Goto(c, from, to) == caller[c] = from /\ caller' = [caller EXCEPT ![c] = to]

-----------------------------------------------------------------------------
(* The callers. *)

\* HX: the order is sent first and entered in _orders afterwards.
Send(c) ==
  /\ c \in HxOrders
  /\ Goto(c, "idle", "sent")
  /\ market' = [market EXCEPT ![c] = "open"]
  /\ UNCHANGED <<registry, finishing, reports, strays, ends, queue, thread, broker, exit>>

Register(c) ==
  /\ Goto(c, "sent", "handed")
  /\ registry' = registry \cup {c}
  /\ UNCHANGED <<market, finishing, reports, strays, ends, queue, thread, broker, exit>>

\* HX refuses the order (forbidden, rate or daily limit, no shareholder, the
\* API fails); the caller pushes the context all the same.
Refuse(c) ==
  /\ c \in HxOrders
  /\ Goto(c, "idle", "handed")
  /\ UNCHANGED <<bridge, ends, queue, thread, broker, exit>>

\* TickFlow fills the order at once; its report goes to the listeners, not into
\* the context.
Fill(c) ==
  /\ c \in TickFlowOrders
  /\ Goto(c, "idle", "handed")
  /\ market' = [market EXCEPT ![c] = "filled"]
  /\ flag' = [flag EXCEPT ![c] = TRUE]
  /\ success' = [success EXCEPT ![c] = TRUE]
  /\ broker' = Notified
  /\ UNCHANGED <<registry, finishing, reports, strays, queue, thread, exit>>

\* A cancellation enters _orders only when nothing else is there.  Else it reads
\* the contexts found there one by one, until one is of the order it is for (it
\* makes no use of what it finds); the broker thread may have deleted one.  When
\* the rate limit holds the cancellation back, nothing is sent and nobody told.
SendCancel(c) ==
  /\ c \in Cancels
  /\ Goto(c, "idle", "handed")
  /\ \/ /\ market' = [market EXCEPT ![c] = "open"]
        /\ registry' = IF registry = {} THEN {c} ELSE registry
        /\ \E seen \in SUBSET registry : strays' = strays \cup (seen \cap deleted)
     \/ UNCHANGED <<market, registry, strays>>
  /\ UNCHANGED <<finishing, reports, ends, queue, thread, broker, exit>>

\* Push, and for an order wake the broker thread.
Push(c) ==
  /\ Goto(c, "handed", "done")
  /\ queue' = Append(queue, c)
  /\ broker' = IF c \in Orders THEN Notified ELSE broker
  /\ UNCHANGED <<bridge, ends, thread, exit>>

-----------------------------------------------------------------------------
(* The callback thread of HX. *)

\* What the exchange may report: an order is accepted, filled in parts, then
\* filled or over; a fill is reported as an order and as a trade.
Outcome(state, r) ==
  CASE r = "success" -> "filled"
    [] r = "over"    -> "over"
    [] OTHER         -> state

Possible(c, r) ==
  \/ market[c] = "open" /\ (c \in Cancels => r = "over")
  \/ market[c] = "filled" /\ r = "success" /\ c \in HxOrders

\* OnOrderReport: any report but an acceptance ends the context.  A report for
\* an id that is not in _orders is dropped.
Ends(r) == r # "accept"

Report(c, r) ==
  /\ finishing = {}
  /\ Possible(c, r)
  /\ Len(reports[c]) < MaxReports
  /\ market' = [market EXCEPT ![c] = Outcome(@, r)]
  /\ IF c \in registry
       THEN /\ reports' = [reports EXCEPT ![c] = Append(@, r)]
            /\ flag' = [flag EXCEPT ![c] = @ \/ Ends(r)]
            /\ finishing' = IF Ends(r) THEN {c} ELSE {}
       ELSE UNCHANGED <<reports, flag, finishing>>
  /\ broker' = IF c \in registry /\ Ends(r) THEN broker ELSE Notified
  /\ UNCHANGED <<caller, registry, strays, success, queue, thread, exit>>

\* Mutant: the entry of an ended order stays in _orders.
EntryStays ==
  /\ finishing # {}
  /\ finishing' = {}
  /\ broker' = Notified
  /\ UNCHANGED <<caller, market, registry, reports, strays, ends, queue, thread, exit>>

\* The rest of OnOrderReport: erase the entry, wake the broker thread.
Finish ==
  /\ finishing # {}
  /\ registry' = registry \ finishing
  /\ finishing' = {}
  /\ broker' = Notified
  /\ UNCHANGED <<caller, market, reports, strays, ends, queue, thread, exit>>

-----------------------------------------------------------------------------
(* The broker thread. *)

Awaken ==
  /\ broker = "notified"
  /\ broker' = "popping"
  /\ UNCHANGED <<caller, bridge, ends, queue, thread, exit>>

\* Mutant: a timed out round is skipped.
SkippedRound == "waiting"

\* Five seconds passed: the round takes place all the same.
AfterTimeout == "popping"

TimeOut ==
  /\ broker = "waiting"
  /\ broker' = AfterTimeout
  /\ UNCHANGED <<caller, bridge, ends, queue, thread, exit>>

\* Mutant: the element stays in the queue.
Peek ==
  /\ broker = "popping" /\ queue # << >>
  /\ working' = working \cup ({Head(queue)} \ Cancels)
  /\ UNCHANGED <<caller, bridge, ends, queue, scan, deleted, records, fills, broker, exit>>

\* A cancellation has the default running type, which is that of a backtest:
\* it is taken off the queue and forgotten.
Pop ==
  /\ broker = "popping" /\ queue # << >>
  /\ queue' = Tail(queue)
  /\ working' = working \cup ({Head(queue)} \ Cancels)
  /\ UNCHANGED <<caller, bridge, ends, scan, deleted, records, fills, broker, exit>>

StartScan ==
  /\ broker = "popping" /\ queue = << >>
  /\ broker' = "scanning"
  /\ scan' = working
  /\ UNCHANGED <<caller, bridge, ends, queue, working, deleted, records, fills, exit>>

\* RecordTrade books the reports of a fill.
BookedFills(c) ==
  Cardinality({i \in DOMAIN reports[c] : reports[c][i] = "success"})

\* Mutant: any ended order is recorded.
AnyEnded(c) == flag[c]

Recordable(c) == flag[c] /\ success[c]

Examine(c) ==
  LET retired == IF flag[c] THEN {c} ELSE {}
  IN
  /\ broker = "scanning" /\ c \in scan
  /\ scan' = scan \ {c}
  /\ working' = working \ retired
  /\ deleted' = deleted \cup retired
  /\ IF Recordable(c)
       THEN /\ records' = [records EXCEPT ![c] = @ + 1]
            /\ fills' = [fills EXCEPT ![c] = @ + BookedFills(c)]
       ELSE UNCHANGED <<records, fills>>
  /\ UNCHANGED <<caller, bridge, ends, queue, broker, exit>>

EndScan ==
  /\ broker = "scanning" /\ scan = {}
  /\ broker' = IF exit THEN "stopped" ELSE "waiting"
  /\ UNCHANGED <<caller, bridge, ends, queue, thread, exit>>

\* Release: stop the thread, join it, delete what is left in the queue.
Stop ==
  /\ ~exit /\ exit' = TRUE
  /\ broker' = Notified
  /\ UNCHANGED <<caller, bridge, ends, queue, thread>>

Drain ==
  /\ broker = "stopped"
  /\ broker' = "drained"
  /\ queue' = << >>
  /\ deleted' = deleted \cup {queue[i] : i \in DOMAIN queue}
  /\ UNCHANGED <<caller, bridge, ends, working, scan, records, fills, exit>>

-----------------------------------------------------------------------------

CallerStep(c) ==
  \/ Send(c) \/ Register(c) \/ Refuse(c)
  \/ Fill(c) \/ SendCancel(c) \/ Push(c)

BrokerStep ==
  \/ Awaken \/ TimeOut \/ Pop \/ StartScan \/ EndScan \/ Drain
  \/ \E c \in Contexts : Examine(c)

Next ==
  \/ \E c \in Contexts : CallerStep(c) \/ \E r \in Reports : Report(c, r)
  \/ Finish \/ BrokerStep \/ Stop

\* Threads run on; nothing is assumed of the exchange, nor that the service
\* gets orders or is stopped.
Fairness ==
  /\ WF_vars(BrokerStep) /\ WF_vars(Finish)
  /\ \A c \in Contexts : WF_vars(Register(c)) /\ WF_vars(Push(c))

Spec == Init /\ [][Next]_vars /\ Fairness

-----------------------------------------------------------------------------
(* Properties. *)

TypeOK ==
  /\ caller \in [Contexts -> {"idle", "sent", "handed", "done"}]
  /\ market \in [Contexts -> {"none", "open", "filled", "over"}]
  /\ registry \subseteq Contexts /\ finishing \subseteq registry
  /\ reports \in [Contexts -> Seq(Reports)]
  /\ flag \in [Contexts -> BOOLEAN] /\ success \in [Contexts -> BOOLEAN]
  /\ queue \in Seq(Contexts)
  /\ working \subseteq Orders /\ scan \subseteq working
  /\ broker \in {"waiting", "notified", "popping", "scanning", "stopped", "drained"}
  /\ exit \in BOOLEAN
  /\ deleted \subseteq Contexts /\ strays \subseteq deleted
  /\ records \in [Contexts -> Nat] /\ fills \in [Contexts -> Nat]

\* A context is in one place: not twice in the queue, not in the queue and the
\* broker's list, in neither once deleted.
OneOwner ==
  /\ \A i, j \in DOMAIN queue : queue[i] = queue[j] => i = j
  /\ {queue[i] : i \in DOMAIN queue} \cap (working \cup deleted) = {}
  /\ working \cap deleted = {}

\* As long as the shut-down has not deleted the contexts left in the queue, a
\* report is written only into a context that still exists, however the callback
\* thread and the deleting broker thread interleave; and a cancellation that
\* searches _orders meets a deleted context only while the callback thread is
\* between the end of that context and its removal from _orders.
ReportsReachLiveContexts ==
  [][\A c \in Contexts :
       /\ reports'[c] # reports[c] => c \notin deleted \/ broker = "drained"
       /\ c \in strays' \ strays => c \in finishing \/ broker = "drained"]_vars

\* A context that ended and was successful is recorded exactly once before the
\* broker thread deletes it, one that was not is never recorded.
RecordedOnRetirement ==
  \A c \in Contexts :
    /\ records[c] <= IF c \in deleted /\ success[c] THEN 1 ELSE 0
    /\ (c \in deleted /\ success[c] /\ broker # "drained") => records[c] = 1

\* A pushed order that ended is retired without waiting for another order, also
\* when its notification came while the broker thread was not waiting.
EndedOrdersAreRetired ==
  \A c \in Orders :
    (flag[c] /\ caller[c] = "done") ~> (c \in deleted \/ exit)

\* A retired order that the exchange filled is in the ledger.
FilledOrdersAreBooked ==
  \A c \in Orders :
    (c \in deleted /\ market[c] = "filled" /\ ~exit) => fills[c] > 0
=============================================================================
