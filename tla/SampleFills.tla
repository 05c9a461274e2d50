----------------------------- MODULE SampleFills -----------------------------
(* The fills of the small instances of the ledger. *)
EXTENDS LedgerAccount

CONSTANTS LowPrice, HighPrice, Fee, HalfMargin, FirstSymbol

MaxUnits == 2

AFill(s, q, p, r, short, cover) ==
  [ symbol |-> s, quantity |-> q, price |-> p, fees |-> Fee, ratio |-> r,
    shortSell |-> short, shortCover |-> cover ]

\* On one symbol, buys in full or on margin, covers, sells and short sells of
\* 1 or 2 units; the others are bought on margin and sold.
FirstFills ==
  LET s == FirstSymbol
  IN  UNION { { AFill(s, n, p, MarginUnit, FALSE, FALSE),
                AFill(s, n, p, HalfMargin, FALSE, FALSE),
                AFill(s, n, p, MarginUnit, FALSE, TRUE),
                AFill(s, -n, p, MarginUnit, FALSE, FALSE),
                AFill(s, -n, p, MarginUnit, TRUE, FALSE) } :
              n \in 1..MaxUnits, p \in {LowPrice, HighPrice} }

OtherFills ==
  UNION { { AFill(s, MaxUnits, LowPrice, HalfMargin, FALSE, FALSE),
            AFill(s, -1, HighPrice, MarginUnit, FALSE, FALSE) } :
          s \in Symbols \ {FirstSymbol} }

MCFills == FirstFills \cup OtherFills
=============================================================================
