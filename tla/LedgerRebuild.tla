---------------------------- MODULE LedgerRebuild ----------------------------
(***************************************************************************)
(* Rebuilding a strategy's positions from the log of its fills when there  *)
(* is no ledger file (initLedger, _rebuildLedgerFromOrderLog,              *)
(* RestoreFromFills), next to the account that booked the same fills.      *)
(***************************************************************************)
EXTENDS LedgerAccount

CONSTANTS
  Fills,    \* the fills reported
  MaxFills  \* bound of the model: fills booked

VARIABLES
  account,  \* the account in memory
  history   \* the fills booked in it, in order

Init == account = NoAccount /\ history = << >>

BookFill(f) ==
  /\ Len(history) < MaxFills
  /\ Bookable(f)
  /\ account' = AccountAfter(account, f)
  /\ history' = Append(history, f)

\* Decisions open and close long positions.
Next ==
  \E f \in Fills :
    (IsOpenBuy(f) \/ IsPlainSell(f)) /\ Fits(account, f) /\ BookFill(f)

Spec == Init /\ [][Next]_<<account, history>>

\* An entry as queryExecutedFills reads it from the decision log, which keeps
\* the quantity of a sell positive; the rebuild passes it on as it is.
LoggedEntry(f) == [SignedEntry(f) EXCEPT !.quantity = Size(f)]

RebuiltFrom(entries) == Restored(NoAccount, entries)

\* Fed the decision log, the rebuild gives the positions, average prices and lots
\* that booking the fills one by one gave.
DecisionLogRebuilds ==
  SamePositions(RebuiltFrom([i \in DOMAIN history |-> LoggedEntry(history[i])]), account)
=============================================================================
