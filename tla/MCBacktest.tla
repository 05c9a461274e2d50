----------------------------- MODULE MCBacktest -----------------------------
(* Two strategies with backtests of two symbols and of one of them, over two     *)
(* days of bars, which the two symbols have not all in common.                   *)
EXTENDS Backtest

CONSTANTS long, short

MCPrice == [s \in {1, 2} |-> s]
\* The second symbol is listed a bar after the first, and leaves out its next one.
MCSeries == [s \in {1, 2} |-> IF s = 1 THEN <<10, 12, 13, 20>> ELSE <<11, 13, 20>>]
MCUniverse == [c \in {long, short} |-> IF c = short THEN {1, 2} ELSE {2}]
MCTraded == [c \in {long, short} |-> {2}]
MCEvents == [s \in {1, 2} |->
  IF s = 2 THEN <<[day |-> 2, bonus |-> 5, cash |-> 10]>> ELSE << >>]
MCMarginRatio == [c \in {long, short} |-> IF c = long THEN 1 ELSE 2]
MCQuantities == [c \in {long, short} |-> IF c = long THEN {2} ELSE {1, 2}]
MCSignals == [c \in {long, short} |-> IF c = long THEN 1 ELSE 2]
MCRuns == [c \in {long, short} |-> IF c = long THEN 2 ELSE 1]
=============================================================================
