--------------------------- MODULE TickFlowPoller ---------------------------
(***************************************************************************)
(* The thread of the TickFlow bridge (Bridge/TickFlow/TickFlowBridge.cpp)  *)
(* that asks the quote server for a few of the watched symbols at a time,  *)
(* backs off when requests fail, and shares the set of symbols with the    *)
(* exchange manager, which changes it at any time.                         *)
(*                                                                         *)
(* Time is left out but for the pauses: working hours, the interval of     *)
(* requests and the sleeps of the loop only delay a step.  What the quotes *)
(* of an answer hold is left out as well.                                  *)
(***************************************************************************)
EXTENDS Integers, FiniteSets

CONSTANTS
  Symbols,    \* the instruments, ordered as their codes are
  BatchSize,  \* BATCH_SIZE, symbols of one request
  Named       \* bound of the model: the sets of symbols that calls name

ASSUME PollerAssumption ==
  /\ Symbols \subseteq Int /\ IsFiniteSet(Symbols)
  /\ BatchSize \in Nat \ {0}
  /\ Named \subseteq SUBSET Symbols

VARIABLES
  watched,   \* _filter._symbols
  call,      \* the manager's call of the bridge in progress
  login,     \* _login_success
  stop,      \* _stop, or Server::IsExit()
  pc,        \* where the worker is
  offset,    \* _offset
  batch,     \* the symbols of the request under way
  errors,    \* _error_count
  backoff,   \* _pause_phase
  paused,    \* _paused
  pausing,   \* _pause_until is still to come
  \* History variables, which no action reads.
  asked,     \* the symbols asked for since the last time round
  disturbed, \* the set changed since then
  inARow     \* requests that failed since the last answer or pause

back == <<errors, backoff, paused, pausing, inARow>>
shared == <<watched, call, login, stop>>
round == <<offset, batch, asked, disturbed>>
vars == <<shared, round, back, pc>>

NoCall == [op |-> "none", symbols |-> {}]
Call == {NoCall} \cup [op : {"add", "remove", "set"}, symbols : Named]

\* The constructor and Init, once the worker has set _login_success.
Init ==
  /\ watched = {} /\ call = NoCall
  /\ login = TRUE /\ stop = FALSE
  /\ pc = "loop"
  /\ offset = 0 /\ batch = {}
  /\ errors = 0 /\ backoff = 0
  /\ paused = FALSE /\ pausing = FALSE
  /\ asked = {} /\ disturbed = FALSE /\ inARow = 0

-----------------------------------------------------------------------------
(* The threads that call the bridge: one at a time holds the manager's lock. *)

CallBridge(op, symbols) ==
  /\ call = NoCall
  /\ call' = [op |-> op, symbols |-> symbols]
  /\ UNCHANGED <<watched, login, stop, round, back, pc>>

\* The set of symbols after a call.
Changed(op, symbols) ==
  CASE op = "add" -> watched \cup symbols
    [] op = "remove" -> watched \ symbols
    [] op = "set" -> symbols

\* AddSymbols, RemoveSymbols and SetFilter wait for _filterMtx, which the worker
\* holds while it sleeps over an empty list.  None of them resets the offset.
Apply ==
  /\ call # NoCall
  /\ pc # "empty"
  /\ watched' = Changed(call.op, call.symbols)
  /\ disturbed' = (disturbed \/ watched' # watched)
  /\ call' = NoCall
  /\ UNCHANGED <<login, stop, offset, batch, asked, back, pc>>

\* Release, by UnregisterExchange or Shutdown.
Release ==
  /\ login
  /\ login' = FALSE
  /\ UNCHANGED <<watched, call, stop, round, back, pc>>

\* The destructor, or the end of the server.
Stop ==
  /\ ~stop
  /\ stop' = TRUE
  /\ UNCHANGED <<watched, call, login, round, back, pc>>

\* The clock reaches _pause_until.
PauseEnds ==
  /\ pausing
  /\ pausing' = FALSE
  /\ UNCHANGED <<shared, round, errors, backoff, paused, inARow, pc>>

-----------------------------------------------------------------------------
(* workerLoop. *)

\* An iteration begins, after working hours and pause were looked at.
Begin ==
  /\ pc = "loop" /\ ~stop
  /\ ~(paused /\ pausing)
  /\ paused' = FALSE
  /\ errors' = IF paused THEN 0 ELSE errors
  /\ pc' = "rate"
  /\ UNCHANGED <<shared, round, backoff, pausing, inARow>>

\* The wait for the next request window ends early for a stop.
Wait ==
  /\ pc = "rate"
  /\ pc' = IF stop THEN "done" ELSE "list"
  /\ UNCHANGED <<shared, round, back>>

CheckList ==
  /\ pc = "list"
  /\ pc' = IF watched = {} THEN "empty" ELSE "fetch"
  /\ UNCHANGED <<shared, round, back>>

\* Mutant: the worker waits for symbols with the lock held.
WakeToSymbols == watched # {}

\* The sleep over an empty list is over, whatever happened.
Woken == TRUE

Wake ==
  /\ pc = "empty" /\ Woken
  /\ pc' = "loop"
  /\ UNCHANGED <<shared, round, back>>

Quit ==
  /\ pc = "loop" /\ stop
  /\ pc' = "done"
  /\ UNCHANGED <<shared, round, back>>

-----------------------------------------------------------------------------
(* FetchQuotes, HandleApiError. *)

\* How many watched symbols come before s in the ordered set.
Rank(s) == Cardinality({r \in watched : r < s})

\* Mutant: the end is past the last symbol.
StartLate == IF offset > Cardinality(watched) THEN 0 ELSE offset

\* Where the batch starts: at the first symbol again, after the last one.
Start == IF offset >= Cardinality(watched) THEN 0 ELSE offset

\* Mutant: the next batch leaves a symbol out.
UpperSkips == Start + BatchSize + 1

\* Where the next batch starts.
Upper ==
  IF Start + BatchSize < Cardinality(watched) THEN Start + BatchSize
  ELSE Cardinality(watched)

Batch == {s \in watched : Start <= Rank(s) /\ Rank(s) < Start + BatchSize}

\* The set may have changed since CheckList.  The offset moves on before the
\* answer: a batch that fails is left for the next time round.
Send ==
  /\ pc = "fetch" /\ login /\ Batch # {}
  /\ batch' = Batch
  /\ offset' = Upper
  /\ LET again == offset >= Cardinality(watched) IN
     /\ asked' = IF again THEN Batch ELSE asked \cup Batch
     /\ disturbed' = (disturbed /\ ~again)
  /\ pc' = "asked"
  /\ UNCHANGED <<shared, back>>

\* Nothing to ask for any more, or released.
SendNothing ==
  /\ pc = "fetch" /\ (~login \/ Batch = {})
  /\ offset' = IF login /\ watched # {} THEN Start ELSE offset
  /\ pc' = "loop"
  /\ UNCHANGED <<shared, batch, asked, disturbed, back>>

\* Any answer with status 200, also one without quotes in it.
Answered ==
  /\ pc = "asked"
  /\ errors' = 0 /\ backoff' = 0 /\ inARow' = 0
  /\ batch' = {}
  /\ pc' = "loop"
  /\ UNCHANGED <<shared, offset, asked, disturbed, paused, pausing>>

\* Mutant: a pause after more than three errors.
TooManyLate == errors >= 3

TooMany == errors + 1 >= 3

\* A transport error or any other status: HandleApiError.  The third error in a
\* row pauses for a minute, then for five; then it sets _paused, but not how
\* long, and no later error pauses.
Failed ==
  /\ pc = "asked"
  /\ errors' = IF TooMany THEN 0 ELSE errors + 1
  /\ backoff' = IF TooMany /\ backoff < 3 THEN backoff + 1 ELSE backoff
  /\ paused' = (paused \/ (TooMany /\ backoff < 3))
  /\ pausing' = (pausing \/ (TooMany /\ backoff < 2))
  /\ inARow' = IF TooMany /\ backoff < 2 THEN 0 ELSE IF inARow < 3 THEN inARow + 1 ELSE inARow
  /\ batch' = {}
  /\ pc' = "loop"
  /\ UNCHANGED <<shared, offset, asked, disturbed>>

-----------------------------------------------------------------------------
Worker ==
  \/ Begin \/ Wait \/ CheckList \/ Wake \/ Quit
  \/ Send \/ SendNothing \/ Answered \/ Failed

Next ==
  \/ \E op \in {"add", "remove", "set"}, symbols \in Named : CallBridge(op, symbols)
  \/ Apply \/ Release \/ Stop \/ PauseEnds \/ Worker

\* The worker runs on, clocks move, and a caller gets the lock, which is free
\* for as long as an iteration takes, in time.
Spec ==
  Init /\ [][Next]_vars /\ WF_vars(Worker) /\ WF_vars(PauseEnds) /\ SF_vars(Apply)

-----------------------------------------------------------------------------
(* Properties. *)

\* Types of all variables; a pause is not over while its end is to come.
TypeOK ==
  /\ watched \subseteq Symbols /\ call \in Call
  /\ login \in BOOLEAN /\ stop \in BOOLEAN
  /\ pc \in {"loop", "rate", "list", "empty", "fetch", "asked", "done"}
  /\ offset \in Nat /\ batch \subseteq Symbols
  /\ errors \in 0..2 /\ backoff \in 0..3
  /\ paused \in BOOLEAN /\ pausing \in BOOLEAN
  /\ asked \subseteq Symbols /\ disturbed \in BOOLEAN /\ inARow \in 0..3

\* A round that began with the first symbol and in which nobody changed the set
\* leaves no symbol out before the next one begins, also when requests failed
\* and the worker paused in between (FetchQuotes, _offset).
RoundsAreComplete ==
  [][Send /\ ~disturbed /\ offset >= Cardinality(watched) => watched \subseteq asked]_vars

\* The server is not asked during a pause, and not after three failures in a
\* row, unless the pauses of one and of five minutes were of no use
\* (HandleApiError and the checks of workerLoop, steps apart).
PausesFollowFailures ==
  [][Send => ~pausing /\ (inARow < 3 \/ backoff = 3)]_vars

\* Once nobody changes the set, every watched symbol is asked for again and
\* again, wherever the offset was left and however often requests fail and the
\* worker pauses; unless failures keep it in the last stage of the back-off.
WatchedAreAsked ==
  \A s \in Symbols :
    /\ <>[](call = NoCall /\ s \in watched /\ login /\ ~stop)
    /\ []<>(backoff < 3)
    => []<>(s \in batch)

\* What the comments and the mail say of the last stage: the bridge is paused for
\* good, no request is sent any more.
LastPauseIsPermanent == [][Send => backoff < 3]_vars

\* Nobody waits for ever: a subscription for the lock the worker sleeps with,
\* the destructor for a worker that pauses.
NobodyWaitsForever ==
  /\ call # NoCall ~> call = NoCall
  /\ stop ~> pc = "done"
=============================================================================
