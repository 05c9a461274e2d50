------------------------------ MODULE MCLedger ------------------------------
(* The ledger on small instances.  Prices are multiples of 96 = 3 * 2^5, and *)
(* a run does not go on from holdings of more than 2 units: within four      *)
(* fills every average price and every repayment is a whole number, as exact *)
(* as the doubles of the code.                                               *)
EXTENDS LedgerRefinement, SampleFills

MCCashDeltas == {-5}

\* Constraints of the run: small holdings; no table parsed but the one in the
\* file; bookings of accounts that are allocated and not reclaimed; nothing after
\* the last booking, of which the properties are checked.
SmallHoldings ==
  \A st \in Strategies, s \in Symbols :
    Magnitude(accounts[st].quantity[s]) <= MaxUnits

MoreToBook ==
  /\ booked < MaxBooked
  /\ \A st \in Strategies :
       accounts[st].active /\ (accounts[st].exists => accounts[st].allocated > 0)

LatestTable == fetched \subseteq {file.accounts}
=============================================================================
