----------------------------- MODULE FillJournal -----------------------------
(***************************************************************************)
(* How a fill becomes durable: the threads that book fills and persist the *)
(* ledger (BrokerSubSystem.cpp: RecordManualFill on the HTTP threads,      *)
(* RecordTrade on the broker thread), the decision log in DuckDB, the      *)
(* ledger file, crashes, and start-up (initLedger, which loads the file or *)
(* rebuilds the positions from the decision log).                          *)
(*                                                                         *)
(* One strategy: an account is reduced to the set of fills booked in it;   *)
(* Ledger does the arithmetic, LedgerRebuild the rebuilding.  Left out: a  *)
(* failing disk (Save reports it, PersistLedger drops the report), and     *)
(* ReloadLedger, which a client may ask for only of a server in test mode. *)
(***************************************************************************)
EXTENDS Integers, FiniteSets

CONSTANTS
  ManualFills,  \* POST /trade/order with a decision id, one HTTP thread each
  OrderFills,   \* finished orders, recorded by the broker thread
  MaxCrashes    \* bound of the model

ASSUME JournalAssumption ==
  /\ ManualFills \cap OrderFills = {}
  /\ MaxCrashes \in Nat

FillIds == ManualFills \cup OrderFills

Nobody == "nobody"
ASSUME NobodyAssumption == Nobody \notin FillIds

VARIABLES
  up,        \* the process runs
  ledger,    \* the account in memory
  disk,      \* the ledger file: its state and the account it holds
  executed,  \* decisions the log has as executed
  closed,    \* decisions the log has as closed
  stage,     \* where the thread of each fill is
  writer,    \* who holds the ledger's mutex over a Save
  struck,    \* whether a crash ever left the file torn
  crashes    \* bounds the model

vars == <<up, ledger, disk, executed, closed, stage, writer, struck, crashes>>

Absent == [state |-> "absent", account |-> {}]
Torn == [state |-> "torn", account |-> {}]

Stages == {"new", "booked", "marked", "saving", "answered", "lost"}

Init ==
  /\ up = TRUE
  /\ ledger = {}
  /\ disk = Absent
  /\ executed = {}
  /\ closed = {}
  /\ stage = [f \in FillIds |-> "new"]
  /\ writer = Nobody
  /\ struck = FALSE
  /\ crashes = 0

Goto(f, from, to) == stage[f] = from /\ stage' = [stage EXCEPT ![f] = to]

-----------------------------------------------------------------------------

\* The broker thread records one order at a time.
BrokerBusy == \E f \in OrderFills : stage[f] \in {"booked", "saving"}

\* ApplyFill, under the ledger's mutex.
Book(f) ==
  /\ up /\ writer = Nobody
  /\ f \in OrderFills => ~BrokerBusy
  /\ Goto(f, "new", "booked")
  /\ ledger' = ledger \cup {f}
  /\ UNCHANGED <<up, disk, executed, closed, writer, struck, crashes>>

\* MarkDecisionExecuted: a manual fill only.
Mark(f) ==
  /\ up /\ f \in ManualFills
  /\ Goto(f, "booked", "marked")
  /\ executed' = executed \cup {f}
  /\ UNCHANGED <<up, ledger, disk, closed, writer, struck, crashes>>

\* Save: the mutex is held from here to the end of the write, and opening the
\* stream truncates the file.
OpenFile(f) ==
  /\ up /\ writer = Nobody
  /\ Goto(f, IF f \in ManualFills THEN "marked" ELSE "booked", "saving")
  /\ writer' = f
  /\ disk' = Torn
  /\ UNCHANGED <<up, ledger, executed, closed, struck, crashes>>

\* Mutants: the write fails and nobody minds; the mutex is never given back.
WriteNothing(f) ==
  /\ up /\ writer = f
  /\ Goto(f, "saving", "answered")
  /\ writer' = Nobody
  /\ UNCHANGED <<up, ledger, disk, executed, closed, struck, crashes>>

WriteLocked(f) ==
  /\ up /\ writer = f
  /\ Goto(f, "saving", "answered")
  /\ disk' = [state |-> "whole", account |-> ledger]
  /\ UNCHANGED <<up, ledger, executed, closed, writer, struck, crashes>>

\* The write ends, and with it the handler: the client has its answer.
WriteFile(f) ==
  /\ up /\ writer = f
  /\ Goto(f, "saving", "answered")
  /\ writer' = Nobody
  /\ disk' = [state |-> "whole", account |-> ledger]
  /\ UNCHANGED <<up, ledger, executed, closed, struck, crashes>>

\* MarkDecisionClosed: the user puts a decision away, executed or not.
Close(f) ==
  /\ up /\ f \in ManualFills \ closed
  /\ closed' = closed \cup {f}
  /\ UNCHANGED <<up, ledger, disk, executed, stage, writer, struck, crashes>>

-----------------------------------------------------------------------------

\* The process dies.  Memory goes, requests under way are never answered.
Crash ==
  /\ up /\ crashes < MaxCrashes
  /\ up' = FALSE
  /\ ledger' = {}
  /\ writer' = Nobody
  /\ stage' = [f \in FillIds |->
       IF stage[f] \in {"new", "answered"} THEN stage[f] ELSE "lost"]
  /\ struck' = (struck \/ writer # Nobody)
  /\ crashes' = crashes + 1
  /\ UNCHANGED <<disk, executed, closed>>

\* Mutants: every decision that is not closed counts; the log is not read.
RebuiltFromAll == ManualFills \ closed

NotRebuilt == {}

\* _rebuildLedgerFromOrderLog: the executed decisions that are not closed.
Rebuilt == executed \ closed

\* initLedger: load the file, or else rebuild and persist.
Start ==
  /\ ~up
  /\ up' = TRUE
  /\ ledger' = IF disk.state = "whole" THEN disk.account ELSE Rebuilt
  /\ disk' = [state |-> "whole", account |-> ledger']
  /\ UNCHANGED <<executed, closed, stage, writer, struck, crashes>>

Next ==
  \/ \E f \in FillIds :
       Book(f) \/ Mark(f) \/ OpenFile(f) \/ WriteFile(f) \/ Close(f)
  \/ Crash \/ Start

\* Threads run on, and a service that died is started again.
Fairness ==
  /\ \A f \in FillIds : /\ WF_vars(Book(f)) /\ WF_vars(Mark(f))
                        /\ SF_vars(OpenFile(f)) /\ WF_vars(WriteFile(f))
  /\ WF_vars(Start)

Spec == Init /\ [][Next]_vars /\ Fairness

-----------------------------------------------------------------------------
(* Properties. *)

TypeOK ==
  /\ up \in BOOLEAN
  /\ ledger \subseteq FillIds
  /\ disk \in [state : {"absent", "torn", "whole"}, account : SUBSET FillIds]
  /\ executed \subseteq ManualFills
  /\ closed \subseteq ManualFills
  /\ stage \in [FillIds -> Stages]
  /\ writer \in FillIds \cup {Nobody}
  /\ struck \in BOOLEAN
  /\ crashes \in 0..MaxCrashes

\* A fill whose request was answered is in the running ledger, through any
\* number of crashes and of saves by other threads.  When a crash tears the file,
\* the decision log still brings back the manual fills not closed; what else the
\* file held is lost.
AnsweredFillsAreHeld ==
  up => \A f \in FillIds :
          stage[f] = "answered" =>
            f \in ledger \/ (struck /\ f \notin ManualFills \ closed)

\* No more than the fills somebody reported is ever in memory or on disk.
NoPhantomFill ==
  \A f \in ledger \cup disk.account : stage[f] # "new"

\* When no request is under way, the file holds what memory holds.
QuietFileIsCurrent ==
  (up /\ \A f \in FillIds : stage[f] \in {"new", "answered", "lost"})
    => disk.state \in {"whole", "absent"} /\ disk.account = ledger

\* Every reported fill is answered, or lost to a crash its client notices.
EveryFillIsSettled ==
  \A f \in FillIds : <>(stage[f] \in {"answered", "lost"})
=============================================================================
