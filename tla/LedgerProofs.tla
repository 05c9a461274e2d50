---------------------------- MODULE LedgerProofs ----------------------------
(***************************************************************************)
(* Theorems about the ledger for any set of strategies, symbols and fills. *)
(*                                                                         *)
(* Every step of the ledger gives an account one of four fates: it is      *)
(* kept, swapped with a parsed copy of the file or emptied; adjusted in    *)
(* fields no invariant relates; or booked with a fill.  So an invariant of *)
(* accounts is shown of the empty account, of the adjusted ones and of the *)
(* booked ones, and holds in memory, in the file and in what was parsed.   *)
(* Under disciplined fills every lot stands for its shares one by one:     *)
(* each of the four kinds of fill is then a step of the abstract book      *)
(* FifoBook, and what it gains in book value is the profit shown.          *)
(***************************************************************************)
EXTENDS LedgerRefinement, SumFacts, TLAPS

-----------------------------------------------------------------------------
(* The units in the lots of a batch. *)

Quantities(batch) == [i \in DOMAIN batch |-> batch[i].quantity]

\* The units a number of oldest lots hold.
OldestTotal(batch, k) == SumFunctionOnSet(Quantities(batch), 1..k)

LEMMA LotFields ==
  ASSUME NEW batch \in Seq(Lot)
  PROVE  /\ Len(batch) \in Nat
         /\ \A i \in 1..Len(batch) :
              /\ batch[i] \in Lot
              /\ batch[i].quantity \in Nat \ {0}
              /\ batch[i].price \in Nat
<1>1. Len(batch) \in Nat /\ \A i \in 1..Len(batch) : batch[i] \in Lot
  OBVIOUS
<1>2. \A lot \in Lot : lot.quantity \in Nat \ {0} /\ lot.price \in Nat
  BY DEF Lot
<1> QED  BY <1>1, <1>2

LEMMA OldestTotalFacts ==
  ASSUME NEW batch \in Seq(Lot)
  PROVE  /\ OldestTotal(batch, 0) = 0
         /\ LotTotal(batch) = OldestTotal(batch, Len(batch))
         /\ LotTotal(batch) \in Nat
         /\ \A k \in 0..Len(batch) : OldestTotal(batch, k) \in Int
         /\ \A k \in 1..Len(batch) :
              OldestTotal(batch, k) = OldestTotal(batch, k - 1) + batch[k].quantity
<1> DEFINE q == Quantities(batch)
<1>1. DOMAIN q = 1..Len(batch) /\ q \in [1..Len(batch) -> Nat]
  BY LotFields DEF Quantities
<1>0. \A k \in 1..Len(batch) : q[k] = batch[k].quantity
  BY DEF Quantities
<1> HIDE DEF q
<1>2. ASSUME NEW k \in 0..Len(batch) PROVE Numeric(q, 1..k)
  <2>1. IsFiniteSet(1..k)
    BY FS_Interval
  <2>2. \A x \in 1..k : q[x] \in Int
    BY <1>1, LotFields
  <2> QED  BY <2>1, <2>2 DEF Numeric
<1>3. OldestTotal(batch, 0) = 0
  <2>1. 1..0 = {}
    OBVIOUS
  <2> QED  BY <2>1, SumEmpty DEF OldestTotal, q
<1>4. LotTotal(batch) = SumFunction(q)
  BY DEF LotTotal, Quantities, q
<1>5. LotTotal(batch) = OldestTotal(batch, Len(batch))
  BY <1>1, <1>4 DEF OldestTotal, SumFunction, q
<1>6. LotTotal(batch) \in Nat
  <2>1. IsFiniteSet(1..Len(batch))
    BY FS_Interval
  <2> QED  BY <1>1, <1>4, <2>1, SumBounds
<1>7. \A k \in 0..Len(batch) : OldestTotal(batch, k) \in Int
  BY <1>2, SumOfPart DEF OldestTotal, q
<1>8. ASSUME NEW k \in 1..Len(batch)
      PROVE  OldestTotal(batch, k) = OldestTotal(batch, k - 1) + batch[k].quantity
  <2>1. SumFunctionOnSet(q, 1..k) = q[k] + SumFunctionOnSet(q, (1..k) \ {k})
    BY <1>2, SumRemove
  <2>2. (1..k) \ {k} = 1..(k - 1)
    OBVIOUS
  <2>3. q[k] = batch[k].quantity /\ q[k] \in Int
    BY <1>0, <1>1
  <2>4. k - 1 \in 0..Len(batch) /\ batch[k].quantity \in Int
    BY LotFields
  <2>5. OldestTotal(batch, k - 1) \in Int
    BY <1>7, <2>4
  <2>6. OldestTotal(batch, k) = q[k] + OldestTotal(batch, k - 1)
    BY <2>1, <2>2 DEF OldestTotal, q
  <2> QED  BY <2>3, <2>4, <2>5, <2>6
<1> QED  BY <1>3, <1>5, <1>6, <1>7, <1>8

\* A lot put behind the others adds its units.
LEMMA LotTotalAppend ==
  ASSUME NEW batch \in Seq(Lot), NEW lot \in Lot
  PROVE  /\ Append(batch, lot) \in Seq(Lot)
         /\ LotTotal(Append(batch, lot)) = LotTotal(batch) + lot.quantity
<1> DEFINE longer == Append(batch, lot)
           n == Len(batch)
<1>1. /\ longer \in Seq(Lot) /\ Len(longer) = n + 1 /\ n \in Nat
      /\ longer[n + 1] = lot
      /\ \A i \in 1..n : longer[i] = batch[i]
  OBVIOUS
<1> HIDE DEF longer
<1>2. OldestTotal(longer, n + 1) = OldestTotal(longer, n) + lot.quantity
  <2>1. n + 1 \in 1..Len(longer) /\ (n + 1) - 1 = n
    BY <1>1
  <2> QED  BY <1>1, <2>1, OldestTotalFacts
<1>3. OldestTotal(longer, n) = OldestTotal(batch, n)
  <2>1. Numeric(Quantities(batch), 1..n)
    <3>1. \A i \in 1..n : Quantities(batch)[i] \in Int
      BY LotFields DEF Quantities
    <3>2. IsFiniteSet(1..n)
      BY <1>1, FS_Interval
    <3> QED  BY <3>1, <3>2 DEF Numeric
  <2>2. \A i \in 1..n : Quantities(longer)[i] = Quantities(batch)[i]
    BY <1>1 DEF Quantities
  <2> QED  BY <2>1, <2>2, SumSame DEF OldestTotal
<1>4. /\ LotTotal(longer) = OldestTotal(longer, n + 1)
      /\ LotTotal(batch) = OldestTotal(batch, n)
  BY <1>1, OldestTotalFacts
<1> QED  BY <1>1, <1>2, <1>3, <1>4 DEF longer

-----------------------------------------------------------------------------
(* The fold that takes units from the oldest lots. *)

Drawn == [remaining : Nat, cost : Nat, batch : Seq(Lot)]

\* The function the fold over the lots is defined by.
ConsumeIter(batch, n) ==
  CHOOSE it : it = [T \in SUBSET (DOMAIN batch) |->
                      IF T = {} THEN Untouched(n)
                      ELSE TakeFromLot(it[T \ {Max(T)}], batch[Max(T)])]

LEMMA ConsumeIsIter ==
  ASSUME NEW batch, NEW n
  PROVE  ConsumeLots(batch, n) = ConsumeIter(batch, n)[DOMAIN batch]
  BY Zenon DEF ConsumeLots, FoldLeft, MapThenFoldSet, ConsumeIter

LEMMA TakeTypes ==
  ASSUME NEW acc \in Drawn, NEW lot \in Lot
  PROVE  TakeFromLot(acc, lot) \in Drawn
<1> DEFINE take == Least(acc.remaining, lot.quantity)
<1>1. /\ acc.remaining \in Nat /\ acc.cost \in Nat /\ acc.batch \in Seq(Lot)
      /\ lot.quantity \in Nat \ {0} /\ lot.price \in Nat
  BY DEF Drawn, Lot
<1>2. take \in 0..lot.quantity /\ take <= acc.remaining
  BY <1>1 DEF Least
<1>3. take # lot.quantity => [lot EXCEPT !.quantity = @ - take] \in Lot
  <2> HIDE DEF take
  <2> QED  BY <1>1, <1>2 DEF Lot
<1>4. acc.remaining - take \in Nat /\ acc.cost + take * lot.price \in Nat
  <2>1. take \in Nat
    BY <1>1, <1>2
  <2> HIDE DEF take
  <2>2. acc.remaining - take \in Nat
    BY <1>1, <1>2, <2>1
  <2>3. take * lot.price \in Nat
    BY <1>1, <2>1
  <2> QED  BY <1>1, <2>2, <2>3
<1>5. (IF take = lot.quantity THEN acc.batch
       ELSE Append(acc.batch, [lot EXCEPT !.quantity = @ - take])) \in Seq(Lot)
  <2> HIDE DEF take
  <2> QED  BY <1>1, <1>3
<1>6. TakeFromLot(acc, lot) =
        [ remaining |-> acc.remaining - take,
          cost |-> acc.cost + take * lot.price,
          batch |-> IF take = lot.quantity THEN acc.batch
                    ELSE Append(acc.batch, [lot EXCEPT !.quantity = @ - take]) ]
  BY DEF TakeFromLot
<1> HIDE DEF take
<1> QED  BY <1>4, <1>5, <1>6 DEF Drawn

LEMMA ConsumeRecurses ==
  ASSUME NEW batch \in Seq(Lot), NEW n \in Nat
  PROVE  /\ ConsumeIter(batch, n)[{}] = Untouched(n)
         /\ \A k \in 1..Len(batch) :
              ConsumeIter(batch, n)[1..k] =
                TakeFromLot(ConsumeIter(batch, n)[1..(k - 1)], batch[k])
<1> DEFINE S == 1..Len(batch)
           choice == [T \in SUBSET S |-> Max(T)]
           F == [T \in SUBSET S |->
                   [acc \in Drawn |-> TakeFromLot(acc, batch[Max(T)])]]
<1>1. IsFiniteSet(S) /\ DOMAIN batch = S
  BY FS_Interval
<1>2. ASSUME NEW T \in SUBSET S, T # {}
      PROVE  Max(T) \in T /\ \A t \in T : Max(T) >= t
  <2>1. \E m \in T : \A t \in T : m >= t
    BY <1>2, LotFields, LastNumber
  <2> QED  BY <2>1, Zenon DEF Max
<1>3. PICK it \in [SUBSET S -> Drawn] : Recurses(it, S, Untouched(n), choice, F)
  <2>1. \A T \in SUBSET S : T # {} => choice[T] \in T
    BY <1>2
  <2>2. ASSUME NEW T \in SUBSET S, NEW acc \in Drawn, T # {}
        PROVE  F[T][acc] \in Drawn
    <3>1. batch[Max(T)] \in Lot
      BY <1>2, <2>2, LotFields
    <3> QED  BY <3>1, TakeTypes
  <2>3. Untouched(n) \in Drawn
    BY DEF Untouched, Drawn
  <2> HIDE DEF S, choice, F
  <2> QED  BY <1>1, <2>1, <2>2, <2>3, SetRecursion
<1>4. it = [T \in SUBSET (DOMAIN batch) |->
              IF T = {} THEN Untouched(n)
              ELSE TakeFromLot(it[T \ {Max(T)}], batch[Max(T)])]
  <2>1. ASSUME NEW T \in SUBSET S
        PROVE  it[T] = IF T = {} THEN Untouched(n)
                       ELSE TakeFromLot(it[T \ {Max(T)}], batch[Max(T)])
    BY <1>2, <1>3 DEF Recurses
  <2> QED  BY <1>1, <1>3, <2>1
<1>5. ConsumeIter(batch, n) =
        [T \in SUBSET (DOMAIN batch) |->
           IF T = {} THEN Untouched(n)
           ELSE TakeFromLot(ConsumeIter(batch, n)[T \ {Max(T)}], batch[Max(T)])]
  BY <1>4, Zenon DEF ConsumeIter
<1> DEFINE all == ConsumeIter(batch, n)
<1> HIDE DEF all
<1>6. \A T \in SUBSET S :
        all[T] = IF T = {} THEN Untouched(n)
                 ELSE TakeFromLot(all[T \ {Max(T)}], batch[Max(T)])
  BY <1>1, <1>5 DEF all
<1>7. ASSUME NEW k \in 1..Len(batch)
      PROVE  all[1..k] = TakeFromLot(all[1..(k - 1)], batch[k])
  <2>1. 1..k \in SUBSET S /\ 1..k # {} /\ (1..k) \ {k} = 1..(k - 1)
    BY LotFields
  <2>2. Max(1..k) = k
    <3>1. Max(1..k) \in 1..k /\ Max(1..k) >= k
      <4>1. k \in 1..k /\ k \in Nat
        BY LotFields
      <4> QED  BY <1>2, <2>1, <4>1
    <3> QED  BY <3>1, LotFields
  <2> QED  BY <1>6, <2>1, <2>2
<1> QED  BY <1>6, <1>7 DEF all

\* What a sale of n units leaves of a batch of lots: its total less n, nothing
\* if the batch holds no more than that.
LEMMA ConsumeFacts ==
  ASSUME NEW batch \in Seq(Lot), NEW n \in Nat
  PROVE  /\ ConsumeLots(batch, n) \in Drawn
         /\ LotTotal(ConsumeLots(batch, n).batch) = Most(LotTotal(batch) - n, 0)
<1> DEFINE acc(m) == ConsumeIter(batch, n)[1..m]
           Holds(m) == /\ acc(m) \in Drawn
                       /\ acc(m).remaining = Most(n - OldestTotal(batch, m), 0)
                       /\ LotTotal(acc(m).batch) = Most(OldestTotal(batch, m) - n, 0)
           Good == {m \in Nat : m <= Len(batch) => Holds(m)}
<1>1. /\ ConsumeIter(batch, n)[{}] = Untouched(n)
      /\ \A k \in 1..Len(batch) :
           ConsumeIter(batch, n)[1..k] =
             TakeFromLot(ConsumeIter(batch, n)[1..(k - 1)], batch[k])
  BY ConsumeRecurses
<1>2. 0 \in Good
  <2>1. acc(0) = Untouched(n)
    <3>1. 1..0 = {}
      OBVIOUS
    <3> QED  BY <1>1, <3>1
  <2>2. OldestTotal(batch, 0) = 0
    BY OldestTotalFacts
  <2>3. << >> \in Seq(Lot) /\ Len(<< >>) = 0
    OBVIOUS
  <2>4. LotTotal(<< >>) = 0
    BY <2>3, OldestTotalFacts
  <2>5. /\ Untouched(n) \in Drawn /\ Untouched(n).remaining = n
        /\ Untouched(n).batch = << >>
    BY DEF Untouched, Drawn
  <2> QED  BY <2>1, <2>2, <2>4, <2>5 DEF Most
<1>3. ASSUME NEW j \in Good PROVE j + 1 \in Good
  <2> SUFFICES ASSUME j + 1 <= Len(batch) PROVE Holds(j + 1)
    OBVIOUS
  <2> DEFINE k == j + 1
             lot == batch[k]
             take == Least(acc(j).remaining, lot.quantity)
  <2>1. k \in 1..Len(batch) /\ k - 1 = j /\ j \in 0..Len(batch)
    OBVIOUS
  <2>2. Holds(j)
    BY <2>1
  <2>3. acc(k) = TakeFromLot(acc(j), lot)
    BY <1>1, <2>1
  <2>4. /\ OldestTotal(batch, k) = OldestTotal(batch, j) + lot.quantity
        /\ OldestTotal(batch, j) \in Int
    BY <2>1, OldestTotalFacts
  <2>5. lot \in Lot /\ lot.quantity \in Nat \ {0}
    BY <2>1, LotFields
  <2> HIDE DEF acc, lot
  <2> HIDE DEF k
  <2>6. /\ acc(j) \in Drawn /\ acc(j).remaining \in Nat
        /\ acc(j).batch \in Seq(Lot)
    BY <2>2 DEF Drawn
  <2>7. acc(k) \in Drawn
    BY <2>3, <2>5, <2>6, TakeTypes
  <2>8. /\ acc(k).remaining = acc(j).remaining - take
        /\ acc(k).batch = IF take = lot.quantity THEN acc(j).batch
                          ELSE Append(acc(j).batch, [lot EXCEPT !.quantity = @ - take])
    BY <2>3 DEF TakeFromLot
  <2> DEFINE left == acc(j).remaining
             held == LotTotal(acc(j).batch)
             passed == OldestTotal(batch, j)
  <2>11. left = Most(n - passed, 0) /\ held = Most(passed - n, 0)
    BY <2>2
  <2>12. \A p \in Int, q \in Nat \ {0} :
           /\ Most(n - p, 0) >= q =>
                /\ Most(n - p, 0) - q = Most(n - (p + q), 0)
                /\ Most(p - n, 0) = Most(p + q - n, 0)
           /\ Most(n - p, 0) < q =>
                /\ Most(n - (p + q), 0) = 0
                /\ Most(p - n, 0) + (q - Most(n - p, 0)) = Most(p + q - n, 0)
    BY DEF Most
  <2> SUFFICES Holds(k)
    BY DEF k
  <2>9. CASE take = lot.quantity
    <3>1. left >= lot.quantity
      BY <2>5, <2>6, <2>9 DEF Least
    <3>2. /\ acc(k).remaining = left - lot.quantity
          /\ LotTotal(acc(k).batch) = held
      BY <2>8, <2>9
    <3> HIDE DEF take, left, held, passed
    <3>3. /\ acc(k).remaining = Most(n - (passed + lot.quantity), 0)
          /\ LotTotal(acc(k).batch) = Most(passed + lot.quantity - n, 0)
      BY <2>4, <2>5, <2>11, <2>12, <3>1, <3>2 DEF passed
    <3>4. OldestTotal(batch, k) = passed + lot.quantity
      BY <2>4 DEF passed
    <3> QED  BY <2>4, <2>5, <2>7, <3>3, <3>4 DEF passed
  <2>10. CASE take # lot.quantity
    <3>1. take = acc(j).remaining /\ take < lot.quantity /\ take \in Nat
      BY <2>5, <2>6, <2>10 DEF Least
    <3> DEFINE rest == [lot EXCEPT !.quantity = @ - take]
    <3> HIDE DEF take
    <3>2. rest \in Lot /\ rest.quantity = lot.quantity - take
      <4>1. rest = [quantity |-> lot.quantity - take, price |-> lot.price]
        BY <2>5 DEF Lot
      <4>2. lot.quantity - take \in Nat \ {0} /\ lot.price \in Nat
        <5>1. lot.quantity \in Nat /\ lot.price \in Nat
          BY <2>5 DEF Lot
        <5> QED  BY <3>1, <5>1
      <4> HIDE DEF rest
      <4> QED  BY <4>1, <4>2 DEF Lot
    <3> HIDE DEF rest
    <3>3. LotTotal(acc(k).batch) = LotTotal(acc(j).batch) + (lot.quantity - take)
      BY <2>6, <2>8, <2>10, <3>2, LotTotalAppend DEF rest
    <3>4. /\ acc(k).remaining = 0
          /\ LotTotal(acc(k).batch) = held + (lot.quantity - left)
      BY <2>6, <2>8, <3>1, <3>3
    <3>5. left < lot.quantity
      BY <3>1
    <3> HIDE DEF left, held, passed
    <3>6. /\ acc(k).remaining = Most(n - (passed + lot.quantity), 0)
          /\ LotTotal(acc(k).batch) = Most(passed + lot.quantity - n, 0)
      BY <2>4, <2>5, <2>11, <2>12, <3>4, <3>5 DEF passed
    <3>7. OldestTotal(batch, k) = passed + lot.quantity
      BY <2>4 DEF passed
    <3> QED  BY <2>4, <2>5, <2>7, <3>6, <3>7 DEF passed
  <2> QED  BY <2>9, <2>10
<1> HIDE DEF Good
<1>4. Good = Nat
  <2>1. Good \in SUBSET Nat
    BY DEF Good
  <2> QED  BY <1>2, <1>3, <2>1, CountingUp
<1>5. Holds(Len(batch))
  <2>1. Len(batch) \in Good
    BY <1>4
  <2> QED  BY <2>1 DEF Good
<1>6. acc(Len(batch)) = ConsumeLots(batch, n)
  BY ConsumeIsIter
<1>7. OldestTotal(batch, Len(batch)) = LotTotal(batch)
  BY OldestTotalFacts
<1> QED  BY <1>5, <1>6, <1>7
-----------------------------------------------------------------------------
(* The shares of a batch of lots, one by one. *)

LEMMA SharesOfOneLot ==
  ASSUME NEW lot \in Lot
  PROVE  /\ SharesOfLot(lot) \in Seq(Nat)
         /\ Len(SharesOfLot(lot)) = lot.quantity
         /\ \A j \in 1..lot.quantity : SharesOfLot(lot)[j] = lot.price
<1>1. lot.quantity \in Nat \ {0} /\ lot.price \in Nat
  BY DEF Lot
<1>2. SharesOfLot(lot) \in [1..lot.quantity -> Nat]
  BY <1>1 DEF SharesOfLot
<1>3. SharesOfLot(lot) \in Seq(Nat)
  BY <1>1, <1>2 DEF Seq
<1>4. DOMAIN SharesOfLot(lot) = 1..lot.quantity
  BY <1>2
<1>5. Len(SharesOfLot(lot)) = lot.quantity
  BY <1>1, <1>3, <1>4
<1> QED  BY <1>3, <1>5 DEF SharesOfLot

\* What the flattening of the lots is defined by: the shares of so many lots.
LEMMA SharesRecurse ==
  ASSUME NEW batch \in Seq(Lot)
  PROVE  \E f \in [0..Len(batch) -> Seq(Nat)] :
           /\ f[0] = << >>
           /\ f[Len(batch)] = SharesOf(batch)
           /\ \A k \in 1..Len(batch) : f[k] = f[k - 1] \o SharesOfLot(batch[k])
<1> DEFINE n == Len(batch)
           S == 1..n
           shares == [i \in DOMAIN batch |-> SharesOfLot(batch[i])]
           choice == [T \in SUBSET S |-> Max(T)]
           F == [T \in SUBSET S |-> [seq \in Seq(Nat) |-> seq \o shares[Max(T)]]]
<1>1. n \in Nat /\ DOMAIN batch = S /\ IsFiniteSet(S) /\ Len(shares) = n
  <2>1. n \in Nat /\ DOMAIN batch = S
    OBVIOUS
  <2>2. DOMAIN shares = S
    BY <2>1
  <2>3. shares \in Seq(Seq(Nat))
    <3>1. \A i \in S : shares[i] \in Seq(Nat)
      BY <2>1, LotFields, SharesOfOneLot
    <3>2. shares \in [1..n -> Seq(Nat)]
      <4> HIDE DEF n
      <4> QED  BY <2>1, <3>1
    <3> HIDE DEF shares, n
    <3> QED  BY <2>1, <3>2
  <2> HIDE DEF shares, n
  <2>4. Len(shares) = n
    BY <2>1, <2>2, <2>3
  <2> QED  BY <2>1, <2>4, FS_Interval
<1>2. \A i \in S : shares[i] = SharesOfLot(batch[i]) /\ shares[i] \in Seq(Nat)
  BY <1>1, LotFields, SharesOfOneLot
<1>3. ASSUME NEW T \in SUBSET S, T # {}
      PROVE  Max(T) \in T /\ \A t \in T : Max(T) >= t
  <2>1. \E m \in T : \A t \in T : m >= t
    BY <1>1, <1>3, LastNumber
  <2> QED  BY <2>1, Zenon DEF Max
<1> HIDE DEF shares
<1>4. PICK it \in [SUBSET S -> Seq(Nat)] : Recurses(it, S, << >>, choice, F)
  <2>1. \A T \in SUBSET S : T # {} => choice[T] \in T
    BY <1>3
  <2>2. ASSUME NEW T \in SUBSET S, NEW seq \in Seq(Nat), T # {}
        PROVE  F[T][seq] \in Seq(Nat)
    <3>1. shares[Max(T)] \in Seq(Nat)
      BY <1>2, <1>3, <2>2
    <3>2. F[T][seq] = seq \o shares[Max(T)]
      OBVIOUS
    <3> HIDE DEF F
    <3> QED  BY <3>1, <3>2
  <2>3. << >> \in Seq(Nat)
    OBVIOUS
  <2> HIDE DEF S, choice, F
  <2> QED  BY <1>1, <2>1, <2>2, <2>3, SetRecursion
<1> DEFINE f == [k \in 0..n |-> it[1..k]]
<1>5. ASSUME NEW k \in 1..n
      PROVE  it[1..k] = it[1..(k - 1)] \o shares[k]
  <2>0. n \in Nat /\ k \in Nat /\ 1 <= k /\ k <= n
    BY <1>1
  <2>1. /\ 1..k \in SUBSET S /\ 1..k # {} /\ (1..k) \ {k} = 1..(k - 1)
        /\ 1..(k - 1) \in SUBSET S
    <3> HIDE DEF n
    <3>1. (1..k) \ {k} = 1..(k - 1)
      BY <2>0
    <3>2. 1..k \subseteq S /\ 1..(k - 1) \subseteq S
      BY <2>0
    <3>3. k \in 1..k
      BY <2>0
    <3> QED  BY <3>1, <3>2, <3>3
  <2>2. Max(1..k) = k
    <3>1. Max(1..k) \in 1..k /\ Max(1..k) >= k
      <4>1. k \in 1..k /\ k \in Nat
        BY <1>1
      <4> QED  BY <1>3, <2>1, <4>1
    <3> QED  BY <3>1, <1>1
  <2>3. it[1..k] = F[1..k][it[1..(k - 1)]]
    <3>1. choice[1..k] = k
      BY <2>1, <2>2
    <3> HIDE DEF F, choice, S
    <3> QED  BY <1>4, <2>1, <3>1 DEF Recurses
  <2>4. it[1..(k - 1)] \in Seq(Nat)
    BY <1>4, <2>1
  <2> QED  BY <2>1, <2>2, <2>3, <2>4
<1>6. f \in [0..n -> Seq(Nat)] /\ f[0] = << >>
  <2>1. \A k \in 0..n : 1..k \in SUBSET S
    BY <1>1
  <2>2. 1..0 = {} /\ 0 \in 0..n
    BY <1>1
  <2>3. it[{}] = << >>
    BY <1>4 DEF Recurses
  <2> QED  BY <1>4, <2>1, <2>2, <2>3
<1>7. \A k \in 1..n : f[k] = f[k - 1] \o SharesOfLot(batch[k])
  <2>1. \A k \in 1..n : k \in 0..n /\ k - 1 \in 0..n
    BY <1>1
  <2> QED  BY <1>2, <1>5, <2>1
<1>8. f[n] = SharesOf(batch)
  <2>1. SharesOf(batch) = FlattenSeq(shares)
    BY DEF SharesOf, shares
  <2>2. CASE n = 0
    <3>1. FlattenSeq(shares) = shares
      BY <1>1, <2>2 DEF FlattenSeq
    <3>2. shares = << >>
      <4>1. DOMAIN batch = {}
        BY <1>1, <2>2
      <4> QED  BY <4>1 DEF shares
    <3> QED  BY <1>6, <2>1, <2>2, <3>1, <3>2
  <2>3. CASE n # 0
    <3> DEFINE g == [i \in 1..Len(shares) |-> it[1..i]]
               h == CHOOSE u : u = [i \in 1..Len(shares) |->
                      IF i = 1 THEN shares[i] ELSE u[i - 1] \o shares[i]]
    <3>1. FlattenSeq(shares) = h[Len(shares)]
      BY <1>1, <2>3, Zenon DEF FlattenSeq
    <3>2. \A i \in 1..n : g[i] = IF i = 1 THEN shares[i] ELSE g[i - 1] \o shares[i]
      <4> SUFFICES ASSUME NEW i \in 1..n
                   PROVE  g[i] = IF i = 1 THEN shares[i] ELSE g[i - 1] \o shares[i]
        OBVIOUS
      <4>1. it[1..i] = it[1..(i - 1)] \o shares[i] /\ g[i] = it[1..i]
        BY <1>1, <1>5
      <4>2. i # 1 => g[i - 1] = it[1..(i - 1)]
        BY <1>1
      <4>3. i = 1 => it[1..(i - 1)] = << >>
        <5>1. it[{}] = << >>
          BY <1>4 DEF Recurses
        <5>2. i = 1 => 1..(i - 1) = {}
          OBVIOUS
        <5> QED  BY <5>1, <5>2
      <4>4. << >> \o shares[i] = shares[i]
        BY <1>2
      <4> HIDE DEF g
      <4> QED  BY <4>1, <4>2, <4>3, <4>4
    <3>3. g = [i \in 1..Len(shares) |->
                IF i = 1 THEN shares[i] ELSE g[i - 1] \o shares[i]]
      <4>1. DOMAIN g = 1..n /\ g = [i \in 1..n |-> g[i]]
        BY <1>1
      <4> HIDE DEF g
      <4> QED  BY <1>1, <3>2, <4>1
    <3>4. h = [i \in 1..Len(shares) |->
                IF i = 1 THEN shares[i] ELSE h[i - 1] \o shares[i]]
      <4> HIDE DEF g
      <4> QED  BY <3>3, Zenon
    <3> DEFINE Good == {m \in Nat : m + 1 <= n => h[m + 1] = g[m + 1]}
    <3> HIDE DEF h
    <3>5. \A i \in 1..n : h[i] = IF i = 1 THEN shares[i] ELSE h[i - 1] \o shares[i]
      BY <1>1, <3>4
    <3> HIDE DEF g
    <3>6. 0 \in Good
      BY <1>1, <2>3, <3>2, <3>5
    <3>7. ASSUME NEW m \in Good PROVE m + 1 \in Good
      <4> SUFFICES ASSUME (m + 1) + 1 <= n PROVE h[(m + 1) + 1] = g[(m + 1) + 1]
        OBVIOUS
      <4>1. (m + 1) + 1 \in 1..n /\ (m + 1) + 1 # 1 /\ ((m + 1) + 1) - 1 = m + 1
        BY <1>1
      <4>2. h[m + 1] = g[m + 1]
        BY <1>1
      <4> QED  BY <3>2, <3>5, <4>1, <4>2
    <3> HIDE DEF Good
    <3>8. Good = Nat
      <4>1. Good \in SUBSET Nat
        BY DEF Good
      <4> QED  BY <3>6, <3>7, <4>1, CountingUp
    <3>9. h[n] = g[n]
      <4>1. n - 1 \in Good
        BY <1>1, <2>3, <3>8
      <4>2. (n - 1) + 1 = n
        BY <1>1
      <4> QED  BY <4>1, <4>2 DEF Good
    <3>10. g[n] = f[n]
      BY <1>1, <2>3 DEF g
    <3> QED  BY <1>1, <2>1, <3>1, <3>9, <3>10
  <2> QED  BY <2>2, <2>3
<1> HIDE DEF f
<1> QED  BY <1>6, <1>7, <1>8

\* There are as many shares as units in the lots.
LEMMA SharesTypes ==
  ASSUME NEW batch \in Seq(Lot)
  PROVE  SharesOf(batch) \in Seq(Nat) /\ Len(SharesOf(batch)) = LotTotal(batch)
<1> DEFINE n == Len(batch)
<1>1. PICK f \in [0..n -> Seq(Nat)] :
        /\ f[0] = << >> /\ f[n] = SharesOf(batch)
        /\ \A k \in 1..n : f[k] = f[k - 1] \o SharesOfLot(batch[k])
  BY SharesRecurse
<1>2. n \in Nat
  OBVIOUS
<1> DEFINE Good == {k \in Nat : k <= n => Len(f[k]) = OldestTotal(batch, k)}
<1>3. 0 \in Good
  BY <1>1, OldestTotalFacts
<1>4. ASSUME NEW j \in Good PROVE j + 1 \in Good
  <2> SUFFICES ASSUME j + 1 <= n PROVE Len(f[j + 1]) = OldestTotal(batch, j + 1)
    OBVIOUS
  <2>1. j + 1 \in 1..n /\ (j + 1) - 1 = j /\ j \in 0..n
    BY <1>2
  <2>2. Len(f[j]) = OldestTotal(batch, j) /\ f[j] \in Seq(Nat)
    BY <1>1, <2>1
  <2>3. f[j + 1] = f[j] \o SharesOfLot(batch[j + 1])
    BY <1>1, <2>1
  <2>4. /\ SharesOfLot(batch[j + 1]) \in Seq(Nat)
        /\ Len(SharesOfLot(batch[j + 1])) = batch[j + 1].quantity
    BY <2>1, LotFields, SharesOfOneLot
  <2>5. OldestTotal(batch, j + 1) = OldestTotal(batch, j) + batch[j + 1].quantity
    BY <2>1, OldestTotalFacts
  <2>6. Len(f[j + 1]) = Len(f[j]) + Len(SharesOfLot(batch[j + 1]))
    <3>1. \A s, t \in Seq(Nat) : Len(s \o t) = Len(s) + Len(t)
      OBVIOUS
    <3> QED  BY <2>2, <2>3, <2>4, <3>1
  <2> QED  BY <2>2, <2>4, <2>5, <2>6
<1> HIDE DEF Good
<1>5. Good = Nat
  <2>1. Good \in SUBSET Nat
    BY DEF Good
  <2> QED  BY <1>3, <1>4, <2>1, CountingUp
<1>6. Len(f[n]) = OldestTotal(batch, n)
  <2>1. n \in Good
    BY <1>2, <1>5
  <2> QED  BY <2>1 DEF Good
<1>7. f[n] \in Seq(Nat)
  BY <1>1, <1>2
<1> QED  BY <1>1, <1>6, <1>7, OldestTotalFacts

\* The shares of a lot put behind the others come behind theirs.
LEMMA SharesAppend ==
  ASSUME NEW batch \in Seq(Lot), NEW lot \in Lot
  PROVE  SharesOf(Append(batch, lot)) = SharesOf(batch) \o SharesOfLot(lot)
<1> DEFINE longer == Append(batch, lot)
           n == Len(batch)
<1>1. /\ longer \in Seq(Lot) /\ Len(longer) = n + 1 /\ n \in Nat
      /\ longer[n + 1] = lot
      /\ \A i \in 1..n : longer[i] = batch[i]
  <2>1. longer \in Seq(Lot) /\ Len(longer) = n + 1 /\ n \in Nat
    OBVIOUS
  <2>2. longer[n + 1] = lot
    OBVIOUS
  <2>3. \A i \in 1..n : longer[i] = batch[i]
    OBVIOUS
  <2> QED  BY <2>1, <2>2, <2>3
<1> HIDE DEF longer
<1>2. PICK f \in [0..n -> Seq(Nat)] :
        /\ f[0] = << >> /\ f[n] = SharesOf(batch)
        /\ \A k \in 1..n : f[k] = f[k - 1] \o SharesOfLot(batch[k])
  BY SharesRecurse
<1>3. PICK g \in [0..(n + 1) -> Seq(Nat)] :
        /\ g[0] = << >> /\ g[n + 1] = SharesOf(longer)
        /\ \A k \in 1..(n + 1) : g[k] = g[k - 1] \o SharesOfLot(longer[k])
  <2>1. \E g \in [0..Len(longer) -> Seq(Nat)] :
          /\ g[0] = << >> /\ g[Len(longer)] = SharesOf(longer)
          /\ \A k \in 1..Len(longer) : g[k] = g[k - 1] \o SharesOfLot(longer[k])
    <3>1. longer \in Seq(Lot)
      BY <1>1
    <3> QED  BY <3>1, SharesRecurse
  <2>2. Len(longer) = n + 1
    BY <1>1
  <2> QED  BY <2>1, <2>2
<1> DEFINE Good == {k \in Nat : k <= n => g[k] = f[k]}
<1>4. 0 \in Good
  BY <1>2, <1>3
<1>5. ASSUME NEW j \in Good PROVE j + 1 \in Good
  <2> SUFFICES ASSUME j + 1 <= n PROVE g[j + 1] = f[j + 1]
    OBVIOUS
  <2>1. j + 1 \in 1..n /\ j + 1 \in 1..(n + 1) /\ (j + 1) - 1 = j
    BY <1>1
  <2>2. g[j] = f[j] /\ longer[j + 1] = batch[j + 1]
    BY <1>1, <2>1
  <2>3. g[j + 1] = g[j] \o SharesOfLot(longer[j + 1])
    BY <1>3, <2>1
  <2>4. f[j + 1] = f[j] \o SharesOfLot(batch[j + 1])
    BY <1>2, <2>1
  <2> QED  BY <2>2, <2>3, <2>4
<1> HIDE DEF Good
<1>6. Good = Nat
  <2>1. Good \in SUBSET Nat
    BY DEF Good
  <2> QED  BY <1>4, <1>5, <2>1, CountingUp
<1>7. g[n] = f[n]
  <2>1. n \in Good
    BY <1>1, <1>6
  <2> QED  BY <1>1, <2>1 DEF Good
<1>8. g[n + 1] = g[n] \o SharesOfLot(lot)
  <2>1. n + 1 \in 1..(n + 1) /\ (n + 1) - 1 = n
    BY <1>1
  <2> QED  BY <1>1, <1>3, <2>1
<1> QED  BY <1>2, <1>3, <1>7, <1>8 DEF longer

LEMMA SharesOfNoLots ==
  /\ SharesOf(<< >>) = << >>
  /\ \A batch \in Seq(Lot) : LotTotal(batch) = 0 => SharesOf(batch) = << >>
<1>1. ASSUME NEW batch \in Seq(Lot), LotTotal(batch) = 0
      PROVE  SharesOf(batch) = << >>
  BY <1>1, SharesTypes
<1>2. << >> \in Seq(Lot) /\ Len(<< >>) = 0
  OBVIOUS
<1>3. LotTotal(<< >>) = 0
  BY <1>2, OldestTotalFacts
<1> QED  BY <1>1, <1>2, <1>3

-----------------------------------------------------------------------------
(* Sums over the shares. *)

LEMMA SameShares ==
  ASSUME NEW s \in Seq(Nat), NEW t \in Seq(Nat), Len(s) = Len(t),
         \A i \in 1..Len(s) : s[i] = t[i]
  PROVE  s = t
  OBVIOUS

LEMMA SumAppend ==
  ASSUME NEW seq \in Seq(Nat), NEW p \in Nat
  PROVE  /\ SumFunction(seq) \in Nat
         /\ SumFunction(Append(seq, p)) = SumFunction(seq) + p
<1> DEFINE n == Len(seq)
           longer == Append(seq, p)
<1>1. /\ n \in Nat /\ DOMAIN seq = 1..n /\ seq \in [1..n -> Nat]
      /\ longer \in Seq(Nat) /\ Len(longer) = n + 1 /\ longer[n + 1] = p
      /\ \A i \in 1..n : longer[i] = seq[i]
  OBVIOUS
<1>2. DOMAIN longer = 1..(n + 1) /\ \A i \in 1..(n + 1) : longer[i] \in Nat
  BY <1>1
<1> HIDE DEF longer
<1>3. IsFiniteSet(1..n) /\ IsFiniteSet(1..(n + 1))
  BY <1>1, FS_Interval
<1>4. Numeric(longer, 1..(n + 1)) /\ Numeric(seq, 1..n)
  BY <1>1, <1>2, <1>3 DEF Numeric
<1>5. n + 1 \in 1..(n + 1) /\ (1..(n + 1)) \ {n + 1} = 1..n
  <2> HIDE DEF n
  <2> QED  BY <1>1
<1>6. SumFunctionOnSet(longer, 1..(n + 1)) = p + SumFunctionOnSet(longer, 1..n)
  BY <1>1, <1>4, <1>5, SumRemove
<1>7. SumFunctionOnSet(longer, 1..n) = SumFunctionOnSet(seq, 1..n)
  BY <1>1, <1>4, SumSame
<1>8. SumFunction(seq) \in Nat
  BY <1>1, <1>3, SumBounds
<1> QED  BY <1>1, <1>2, <1>6, <1>7, <1>8 DEF SumFunction, longer

\* So many shares of one price.
Alike(n, p) == [j \in 1..n |-> p]

LEMMA AlikeFacts ==
  ASSUME NEW n \in Nat, NEW p \in Nat
  PROVE  /\ Alike(n, p) \in Seq(Nat) /\ Len(Alike(n, p)) = n
         /\ \A j \in 1..n : Alike(n, p)[j] = p
         /\ Alike(n + 1, p) = Append(Alike(n, p), p)
         /\ Alike(0, p) = << >>
<1>1. ASSUME NEW m \in Nat
      PROVE  /\ Alike(m, p) \in Seq(Nat) /\ Len(Alike(m, p)) = m
             /\ \A j \in 1..m : Alike(m, p)[j] = p
  <2>1. Alike(m, p) \in [1..m -> Nat]
    BY DEF Alike
  <2>2. Alike(m, p) \in Seq(Nat) /\ DOMAIN Alike(m, p) = 1..m
    BY <2>1
  <2> QED  BY <2>2 DEF Alike
<1>2. n + 1 \in Nat /\ 0 \in Nat
  OBVIOUS
<1>3. Alike(n + 1, p) = Append(Alike(n, p), p)
  <2> DEFINE s == Alike(n, p)
             t == Alike(n + 1, p)
  <2>1. /\ s \in Seq(Nat) /\ Len(s) = n /\ \A j \in 1..n : s[j] = p
        /\ t \in Seq(Nat) /\ Len(t) = n + 1 /\ \A j \in 1..(n + 1) : t[j] = p
    BY <1>1, <1>2
  <2> HIDE DEF s, t
  <2>2. /\ Append(s, p) \in Seq(Nat) /\ Len(Append(s, p)) = n + 1
        /\ \A j \in 1..(n + 1) : Append(s, p)[j] = p
    BY <2>1
  <2>3. t = Append(s, p)
    BY <2>1, <2>2
  <2> QED  BY <2>3 DEF s, t
<1>4. Alike(0, p) = << >>
  BY <1>1, <1>2
<1> QED  BY <1>1, <1>3, <1>4

LEMMA SumConcat ==
  ASSUME NEW seq \in Seq(Nat), NEW n \in Nat, NEW p \in Nat
  PROVE  SumFunction(seq \o Alike(n, p)) = SumFunction(seq) + n * p
<1> DEFINE Good == {m \in Nat : SumFunction(seq \o Alike(m, p)) = SumFunction(seq) + m * p}
<1>1. 0 \in Good
  <2>1. seq \o << >> = seq /\ 0 * p = 0
    OBVIOUS
  <2>2. SumFunction(seq) \in Nat
    BY SumAppend
  <2>3. seq \o Alike(0, p) = seq
    BY <2>1, AlikeFacts
  <2>4. SumFunction(seq \o Alike(0, p)) = SumFunction(seq) + 0 * p
    <3>1. SumFunction(seq) + 0 * p = SumFunction(seq)
      BY <2>2
    <3>2. SumFunction(seq \o Alike(0, p)) = SumFunction(seq)
      BY <2>3
    <3> QED  BY <3>1, <3>2
  <2> QED  BY <2>4
<1>2. ASSUME NEW m \in Good PROVE m + 1 \in Good
  <2>1. Alike(m, p) \in Seq(Nat) /\ Alike(m + 1, p) = Append(Alike(m, p), p)
    BY AlikeFacts
  <2>2. /\ seq \o Append(Alike(m, p), p) = Append(seq \o Alike(m, p), p)
        /\ seq \o Alike(m, p) \in Seq(Nat)
    <3> DEFINE tail == Alike(m, p)
    <3>1. tail \in Seq(Nat)
      BY <2>1
    <3> HIDE DEF tail
    <3>2. seq \o tail \in Seq(Nat)
      BY <3>1
    <3>3. seq \o Append(tail, p) = Append(seq \o tail, p)
      <4> DEFINE left == seq \o Append(tail, p)
                 right == Append(seq \o tail, p)
      <4>1. left \in Seq(Nat) /\ Len(left) = Len(seq) + Len(tail) + 1
        BY <3>1
      <4>2. right \in Seq(Nat) /\ Len(right) = Len(seq) + Len(tail) + 1
        BY <3>1, <3>2
      <4>3. \A i \in 1..(Len(seq) + Len(tail) + 1) : left[i] = right[i]
        BY <3>1, SMTT(20)
      <4> HIDE DEF left, right
      <4>4. left = right
        BY <4>1, <4>2, <4>3, SameShares
      <4> QED  BY <4>4 DEF left, right
    <3> QED  BY <3>2, <3>3 DEF tail
  <2>3. SumFunction(Append(seq \o Alike(m, p), p)) = SumFunction(seq \o Alike(m, p)) + p
    BY <2>2, SumAppend
  <2>4. SumFunction(seq) \in Nat /\ (m + 1) * p = m * p + p /\ m * p \in Nat
    BY SumAppend
  <2>5. SumFunction(seq \o Alike(m + 1, p)) = SumFunction(seq) + (m + 1) * p
    <3>1. seq \o Alike(m + 1, p) = Append(seq \o Alike(m, p), p)
      BY <2>1, <2>2
    <3>2. SumFunction(seq \o Alike(m + 1, p)) = SumFunction(seq \o Alike(m, p)) + p
      BY <2>3, <3>1
    <3>3. SumFunction(seq \o Alike(m, p)) = SumFunction(seq) + m * p
      BY <1>2
    <3> QED  BY <2>4, <3>2, <3>3
  <2> QED  BY <2>5
<1> HIDE DEF Good
<1>3. Good = Nat
  <2>1. Good \in SUBSET Nat
    BY DEF Good
  <2> QED  BY <1>1, <1>2, <2>1, CountingUp
<1> QED  BY <1>3 DEF Good

-----------------------------------------------------------------------------
(* A sale takes the first shares. *)

Taken(seq, n) == SubSeq(seq, 1, n)
Kept(seq, n) == SubSeq(seq, n + 1, Len(seq))

LEMMA PartFacts ==
  ASSUME NEW s \in Seq(Nat), NEW n \in 0..Len(s)
  PROVE  /\ Taken(s, n) \in Seq(Nat) /\ Len(Taken(s, n)) = n
         /\ \A i \in 1..n : Taken(s, n)[i] = s[i]
         /\ Kept(s, n) \in Seq(Nat) /\ Len(Kept(s, n)) = Len(s) - n
         /\ \A i \in 1..(Len(s) - n) : Kept(s, n)[i] = s[n + i]
  BY DEF Taken, Kept

\* Within the front part nothing of what follows is seen.
LEMMA CutBefore ==
  ASSUME NEW s \in Seq(Nat), NEW r \in Seq(Nat), NEW n \in Nat, n <= Len(s)
  PROVE  /\ Taken(s \o r, n) = Taken(s, n)
         /\ Kept(s \o r, n) = Kept(s, n) \o r
<1>1. /\ s \o r \in Seq(Nat) /\ Len(s \o r) = Len(s) + Len(r)
      /\ \A i \in 1..(Len(s) + Len(r)) :
           (s \o r)[i] = IF i <= Len(s) THEN s[i] ELSE r[i - Len(s)]
      /\ Len(s) \in Nat /\ Len(r) \in Nat
  OBVIOUS
<1> DEFINE both == s \o r
<1> HIDE DEF both
<1>10. both \in Seq(Nat) /\ Len(both) = Len(s) + Len(r) /\ n \in 0..Len(both)
  BY <1>1 DEF both
<1>2. /\ Taken(both, n) \in Seq(Nat) /\ Len(Taken(both, n)) = n
      /\ \A i \in 1..n : Taken(both, n)[i] = both[i]
  BY <1>10, PartFacts
<1>3. /\ Taken(s, n) \in Seq(Nat) /\ Len(Taken(s, n)) = n
      /\ \A i \in 1..n : Taken(s, n)[i] = s[i]
  BY <1>1, PartFacts
<1>4. Taken(both, n) = Taken(s, n)
  <2>1. \A i \in 1..n : both[i] = s[i]
    BY <1>1 DEF both
  <2>2. \A i \in 1..n : Taken(both, n)[i] = Taken(s, n)[i]
    BY <1>2, <1>3, <2>1
  <2> QED  BY <1>2, <1>3, <2>2, SameShares
<1>5. /\ Kept(both, n) \in Seq(Nat) /\ Len(Kept(both, n)) = Len(s) + Len(r) - n
      /\ \A i \in 1..(Len(s) + Len(r) - n) : Kept(both, n)[i] = both[n + i]
  <2>1. /\ Kept(both, n) \in Seq(Nat) /\ Len(Kept(both, n)) = Len(both) - n
        /\ \A i \in 1..(Len(both) - n) : Kept(both, n)[i] = both[n + i]
    BY <1>10, PartFacts
  <2>2. Len(both) = Len(s) + Len(r)
    BY <1>10
  <2>3. Len(Kept(both, n)) = Len(s) + Len(r) - n
    BY <2>1, <2>2
  <2>4. ASSUME NEW i \in 1..(Len(s) + Len(r) - n) PROVE Kept(both, n)[i] = both[n + i]
    <3>1. i \in 1..(Len(both) - n)
      BY <2>2
    <3> QED  BY <2>1, <3>1
  <2> QED  BY <2>1, <2>3, <2>4
<1>11. n \in 0..Len(s)
  BY <1>1
<1>6. /\ Kept(s, n) \in Seq(Nat) /\ Len(Kept(s, n)) = Len(s) - n
      /\ \A i \in 1..(Len(s) - n) : Kept(s, n)[i] = s[n + i]
  BY <1>11, PartFacts
<1>7. /\ Kept(s, n) \o r \in Seq(Nat)
      /\ Len(Kept(s, n) \o r) = Len(s) + Len(r) - n
      /\ \A i \in 1..(Len(s) + Len(r) - n) :
           (Kept(s, n) \o r)[i] =
             IF i <= Len(s) - n THEN s[n + i] ELSE r[i - (Len(s) - n)]
  <2> DEFINE u == Kept(s, n)
  <2>1. /\ u \o r \in Seq(Nat) /\ Len(u \o r) = Len(u) + Len(r)
        /\ \A i \in 1..(Len(u) + Len(r)) :
             (u \o r)[i] = IF i <= Len(u) THEN u[i] ELSE r[i - Len(u)]
    <3> HIDE DEF u
    <3>1. u \in Seq(Nat)
      BY <1>6 DEF u
    <3>2. u \o r \in Seq(Nat) /\ Len(u \o r) = Len(u) + Len(r)
      BY <3>1
    <3>3. \A i \in 1..(Len(u) + Len(r)) :
            (u \o r)[i] = IF i <= Len(u) THEN u[i] ELSE r[i - Len(u)]
      BY <3>1
    <3> QED  BY <3>2, <3>3
  <2>2. /\ Len(u) = Len(s) - n /\ Len(u) + Len(r) = Len(s) + Len(r) - n
        /\ \A i \in 1..(Len(s) - n) : u[i] = s[n + i]
    BY <1>1, <1>6
  <2> HIDE DEF u
  <2>3. ASSUME NEW i \in 1..(Len(s) + Len(r) - n)
        PROVE  (u \o r)[i] = IF i <= Len(s) - n THEN s[n + i] ELSE r[i - (Len(s) - n)]
    <3>1. (u \o r)[i] = IF i <= Len(u) THEN u[i] ELSE r[i - Len(u)]
      BY <2>1, <2>2
    <3>2. i <= Len(s) - n => u[i] = s[n + i]
      BY <1>1, <2>2
    <3> QED  BY <2>2, <3>1, <3>2
  <2> QED  BY <2>1, <2>2, <2>3 DEF u
<1>8. \A i \in 1..(Len(s) + Len(r) - n) : Kept(both, n)[i] = (Kept(s, n) \o r)[i]
  <2> SUFFICES ASSUME NEW i \in 1..(Len(s) + Len(r) - n)
               PROVE  Kept(both, n)[i] = (Kept(s, n) \o r)[i]
    OBVIOUS
  <2>1. Kept(both, n)[i] = both[n + i] /\ n + i \in 1..(Len(s) + Len(r))
    BY <1>1, <1>5
  <2>2. both[n + i] = IF n + i <= Len(s) THEN s[n + i] ELSE r[(n + i) - Len(s)]
    BY <1>1, <2>1 DEF both
  <2>3. (n + i <= Len(s) <=> i <= Len(s) - n) /\ (n + i) - Len(s) = i - (Len(s) - n)
    BY <1>1
  <2> QED  BY <1>7, <2>1, <2>2, <2>3
<1>9. Kept(both, n) = Kept(s, n) \o r
  BY <1>5, <1>7, <1>8, SameShares
<1> QED  BY <1>4, <1>9 DEF both

\* A cut within shares of one price.
LEMMA CutWithin ==
  ASSUME NEW s \in Seq(Nat), NEW q \in Nat, NEW p \in Nat,
         NEW n \in Len(s)..(Len(s) + q)
  PROVE  /\ Taken(s \o Alike(q, p), n) = s \o Alike(n - Len(s), p)
         /\ Kept(s \o Alike(q, p), n) = Alike(Len(s) + q - n, p)
<1> DEFINE r == Alike(q, p)
           both == s \o r
           front == s \o Alike(n - Len(s), p)
           rest == Alike(Len(s) + q - n, p)
<1>0. /\ Len(s) \in Nat /\ n \in Nat /\ n - Len(s) \in Nat /\ Len(s) + q - n \in Nat
      /\ n - Len(s) <= q
  OBVIOUS
<1>1. /\ r \in Seq(Nat) /\ Len(r) = q /\ \A j \in 1..q : r[j] = p
  BY AlikeFacts
<1>2. /\ both \in Seq(Nat) /\ Len(both) = Len(s) + q
      /\ \A i \in 1..(Len(s) + q) : both[i] = IF i <= Len(s) THEN s[i] ELSE p
  <2> HIDE DEF r
  <2>1. /\ s \o r \in Seq(Nat) /\ Len(s \o r) = Len(s) + Len(r)
        /\ \A i \in 1..(Len(s) + Len(r)) :
             (s \o r)[i] = IF i <= Len(s) THEN s[i] ELSE r[i - Len(s)]
    <3>1. s \o r \in Seq(Nat) /\ Len(s \o r) = Len(s) + Len(r)
      BY <1>1
    <3>2. \A i \in 1..(Len(s) + Len(r)) :
            (s \o r)[i] = IF i <= Len(s) THEN s[i] ELSE r[i - Len(s)]
      BY <1>1
    <3> QED  BY <3>1, <3>2
  <2>2. \A i \in 1..(Len(s) + q) : i > Len(s) => i - Len(s) \in 1..q
    BY <1>0
  <2> QED  BY <1>0, <1>1, <2>1, <2>2
<1>3. /\ rest \in Seq(Nat) /\ Len(rest) = Len(s) + q - n
      /\ \A j \in 1..(Len(s) + q - n) : rest[j] = p
  BY <1>0, AlikeFacts
<1>4. /\ front \in Seq(Nat) /\ Len(front) = n
      /\ \A i \in 1..n : front[i] = IF i <= Len(s) THEN s[i] ELSE p
  <2> DEFINE t == Alike(n - Len(s), p)
  <2>1. /\ t \in Seq(Nat) /\ Len(t) = n - Len(s) /\ \A j \in 1..(n - Len(s)) : t[j] = p
    BY <1>0, AlikeFacts
  <2> HIDE DEF t
  <2>2. /\ s \o t \in Seq(Nat) /\ Len(s \o t) = Len(s) + Len(t)
        /\ \A i \in 1..(Len(s) + Len(t)) :
             (s \o t)[i] = IF i <= Len(s) THEN s[i] ELSE t[i - Len(s)]
    BY <2>1
  <2>3. \A i \in 1..n : i > Len(s) => i - Len(s) \in 1..(n - Len(s))
    BY <1>0
  <2>4. Len(s) + Len(t) = n
    BY <1>0, <2>1
  <2>5. front = s \o t
    BY DEF t
  <2> HIDE DEF front
  <2> QED  BY <1>0, <2>1, <2>2, <2>3, <2>4, <2>5
<1> HIDE DEF both, front, rest
<1>9. n \in 0..Len(both)
  BY <1>0, <1>2
<1>5. /\ Taken(both, n) \in Seq(Nat) /\ Len(Taken(both, n)) = n
      /\ \A i \in 1..n : Taken(both, n)[i] = both[i]
  BY <1>2, <1>9, PartFacts
<1>6. /\ Kept(both, n) \in Seq(Nat) /\ Len(Kept(both, n)) = Len(s) + q - n
      /\ \A i \in 1..(Len(s) + q - n) : Kept(both, n)[i] = both[n + i]
  <2>1. /\ Kept(both, n) \in Seq(Nat) /\ Len(Kept(both, n)) = Len(both) - n
        /\ \A i \in 1..(Len(both) - n) : Kept(both, n)[i] = both[n + i]
    BY <1>2, <1>9, PartFacts
  <2> QED  BY <1>2, <2>1
<1>7. Taken(both, n) = front
  <2>1. \A i \in 1..n : Taken(both, n)[i] = front[i]
    <3> SUFFICES ASSUME NEW i \in 1..n PROVE Taken(both, n)[i] = front[i]
      OBVIOUS
    <3>1. i \in 1..(Len(s) + q)
      BY <1>0
    <3> QED  BY <1>2, <1>4, <1>5, <3>1
  <2> QED  BY <1>4, <1>5, <2>1, SameShares
<1>8. Kept(both, n) = rest
  <2>1. \A i \in 1..(Len(s) + q - n) : Kept(both, n)[i] = rest[i]
    <3> SUFFICES ASSUME NEW i \in 1..(Len(s) + q - n) PROVE Kept(both, n)[i] = rest[i]
      OBVIOUS
    <3>1. n + i \in 1..(Len(s) + q) /\ ~(n + i <= Len(s))
      BY <1>0
    <3> QED  BY <1>2, <1>3, <1>6, <3>1
  <2> QED  BY <1>3, <1>6, <2>1, SameShares
<1> QED  BY <1>7, <1>8 DEF both, front, rest

\* A cut behind all of it.
LEMMA CutBehind ==
  ASSUME NEW s \in Seq(Nat), NEW n \in Nat, n >= Len(s)
  PROVE  /\ Kept(s, n) = << >>
         /\ Taken(s, Len(s)) = s
<1>1. Kept(s, n) = << >>
  BY DEF Kept
<1>2. Taken(s, Len(s)) = s
  BY DEF Taken
<1> QED  BY <1>1, <1>2

\* What a sale of n units does to the shares: it takes the first n of them, at
\* the prices they were bought for.
LEMMA ConsumeShares ==
  ASSUME NEW batch \in Seq(Lot), NEW n \in Nat
  PROVE  LET shares == SharesOf(batch)
         IN  /\ SharesOf(ConsumeLots(batch, n).batch) = Kept(shares, n)
             /\ n <= LotTotal(batch) =>
                  ConsumeLots(batch, n).cost = SumFunction(Taken(shares, n))
<1> DEFINE acc(m) == ConsumeIter(batch, n)[1..m]
<1>1. PICK f \in [0..Len(batch) -> Seq(Nat)] :
        /\ f[0] = << >> /\ f[Len(batch)] = SharesOf(batch)
        /\ \A k \in 1..Len(batch) : f[k] = f[k - 1] \o SharesOfLot(batch[k])
  BY SharesRecurse
<1>2. /\ ConsumeIter(batch, n)[{}] = Untouched(n)
      /\ \A k \in 1..Len(batch) :
           ConsumeIter(batch, n)[1..k] =
             TakeFromLot(ConsumeIter(batch, n)[1..(k - 1)], batch[k])
  BY ConsumeRecurses
<1> DEFINE Follows(drawn, s) ==
             /\ drawn \in Drawn
             /\ drawn.remaining = Most(n - Len(s), 0)
             /\ SharesOf(drawn.batch) = Kept(s, n)
             /\ drawn.cost = SumFunction(Taken(s, Least(n, Len(s))))
           Good == {m \in Nat : m <= Len(batch) => Follows(acc(m), f[m])}
<1>3. 0 \in Good
  <2>1. acc(0) = Untouched(n)
    <3>1. 1..0 = {}
      OBVIOUS
    <3> QED  BY <1>2, <3>1
  <2>2. << >> \in Seq(Nat) /\ Len(<< >>) = 0 /\ << >> \in Seq(Lot)
    OBVIOUS
  <2>3. Kept(<< >>, n) = << >> /\ Taken(<< >>, 0) = << >>
    BY <2>2, CutBehind
  <2>4. SumFunction(<< >>) = 0
    <3>1. DOMAIN << >> = {}
      OBVIOUS
    <3> QED  BY <3>1, SumEmpty DEF SumFunction
  <2>5. Least(n, 0) = 0 /\ Most(n - 0, 0) = n
    BY DEF Least, Most
  <2>6. Untouched(n) \in Drawn
    BY <2>2 DEF Untouched, Drawn
  <2>7. Follows(Untouched(n), << >>)
    BY <2>2, <2>3, <2>4, <2>5, <2>6, SharesOfNoLots DEF Untouched
  <2> HIDE DEF Follows
  <2> QED  BY <1>1, <2>1, <2>7
<1>4. ASSUME NEW drawn, NEW s \in Seq(Nat), NEW lot \in Lot, Follows(drawn, s)
      PROVE  Follows(TakeFromLot(drawn, lot), s \o SharesOfLot(lot))
  <2> DEFINE q == lot.quantity
             p == lot.price
             left == drawn.remaining
             take == Least(left, q)
             after == TakeFromLot(drawn, lot)
             longer == s \o SharesOfLot(lot)
  <2>1. q \in Nat \ {0} /\ p \in Nat
    BY DEF Lot
  <2>2. left \in Nat /\ drawn.cost \in Nat /\ drawn.batch \in Seq(Lot)
    BY <1>4 DEF Drawn
  <2>3. after \in Drawn
    BY <1>4, TakeTypes
  <2>4. SharesOfLot(lot) = Alike(q, p)
    BY DEF SharesOfLot, Alike
  <2>5. /\ longer = s \o Alike(q, p) /\ Alike(q, p) \in Seq(Nat)
        /\ Len(longer) = Len(s) + q /\ Len(s) \in Nat
    <3>1. Alike(q, p) \in Seq(Nat) /\ Len(Alike(q, p)) = q
      BY <2>1, AlikeFacts
    <3>2. \A r \in Seq(Nat) : Len(s \o r) = Len(s) + Len(r)
      OBVIOUS
    <3> QED  BY <2>4, <3>1, <3>2
  <2> DEFINE rest == [lot EXCEPT !.quantity = @ - take]
  <2>6. /\ after.remaining = left - take
        /\ after.cost = drawn.cost + take * p
        /\ after.batch = IF take = q THEN drawn.batch ELSE Append(drawn.batch, rest)
    BY DEF TakeFromLot
  <2>7. left = Most(n - Len(s), 0)
    BY <1>4
  <2> HIDE DEF take, after, longer, left, q, p, rest
  <2>8. take # q => /\ rest \in Lot
                    /\ SharesOfLot(rest) = Alike(q - take, p)
    <3> SUFFICES ASSUME take # q
                 PROVE  rest \in Lot /\ SharesOfLot(rest) = Alike(q - take, p)
      OBVIOUS
    <3>1. q - take \in Nat \ {0}
      BY <2>1, <2>2 DEF take, Least
    <3>2. rest = [quantity |-> q - take, price |-> p]
      BY DEF rest, q, p, Lot
    <3> QED  BY <2>1, <3>1, <3>2 DEF Lot, SharesOfLot, Alike
  <2>9. SharesOf(drawn.batch) = Kept(s, n)
        /\ drawn.cost = SumFunction(Taken(s, Least(n, Len(s))))
    BY <1>4
  <2>10. take # q => SharesOf(after.batch) = Kept(s, n) \o Alike(q - take, p)
    BY <2>2, <2>6, <2>8, <2>9, SharesAppend
  <2>11. take = q => SharesOf(after.batch) = Kept(s, n)
    BY <2>6, <2>9
  <2> SUFFICES /\ after.remaining = Most(n - Len(longer), 0)
               /\ SharesOf(after.batch) = Kept(longer, n)
               /\ after.cost = SumFunction(Taken(longer, Least(n, Len(longer))))
    BY <2>3 DEF after, longer
  <2>12. CASE n <= Len(s)
    <3>1. /\ left = 0 /\ take = 0 /\ take # q
          /\ Least(n, Len(s)) = n /\ Least(n, Len(longer)) = n
          /\ Most(n - Len(longer), 0) = 0
      BY <2>1, <2>2, <2>5, <2>7, <2>12 DEF Least, Most, take
    <3>2. /\ Taken(longer, n) = Taken(s, n)
          /\ Kept(longer, n) = Kept(s, n) \o Alike(q, p)
      BY <2>5, <2>12, CutBefore
    <3>3. q - take = q /\ drawn.cost + take * p = drawn.cost
      BY <2>1, <2>2, <3>1
    <3>4. after.remaining = Most(n - Len(longer), 0)
      BY <2>6, <3>1
    <3>5. SharesOf(after.batch) = Kept(longer, n)
      BY <2>10, <3>1, <3>2, <3>3
    <3>6. after.cost = SumFunction(Taken(longer, Least(n, Len(longer))))
      BY <2>6, <2>9, <3>1, <3>2, <3>3
    <3> QED  BY <3>4, <3>5, <3>6
  <2>13. CASE Len(s) < n /\ n <= Len(longer)
    <3>1. /\ left = n - Len(s) /\ take = left /\ take \in Nat
          /\ Least(n, Len(s)) = Len(s) /\ Least(n, Len(longer)) = n
          /\ Most(n - Len(longer), 0) = 0
          /\ n \in Len(s)..(Len(s) + q)
          /\ Len(s) + q - n = q - take
      <4> DEFINE old == Len(s)
      <4>1. /\ old \in Nat /\ Len(longer) = old + q /\ old < n /\ n <= old + q
            /\ left = Most(n - old, 0)
        BY <2>5, <2>7, <2>13
      <4> HIDE DEF old
      <4>2. left = n - old /\ left <= q
        BY <2>1, <4>1 DEF Most
      <4>3. take = left
        BY <2>1, <2>2, <4>2 DEF take, Least
      <4>4. Least(n, old) = old /\ Least(n, old + q) = n /\ Most(n - (old + q), 0) = 0
        BY <2>1, <4>1 DEF Least, Most
      <4>5. n \in old..(old + q) /\ old + q - n = q - (n - old)
        BY <2>1, <4>1
      <4> QED  BY <2>2, <4>1, <4>2, <4>3, <4>4, <4>5 DEF old
    <3>2. /\ Taken(longer, n) = s \o Alike(take, p)
          /\ Kept(longer, n) = Alike(q - take, p)
      <4>1. /\ Taken(s \o Alike(q, p), n) = s \o Alike(n - Len(s), p)
            /\ Kept(s \o Alike(q, p), n) = Alike(Len(s) + q - n, p)
        <5>1. n \in Len(s)..(Len(s) + q) /\ q \in Nat /\ p \in Nat
          BY <2>1, <3>1
        <5> QED  BY <5>1, CutWithin
      <4>2. n - Len(s) = take
        BY <3>1
      <4> QED  BY <2>5, <3>1, <4>1, <4>2
    <3>3. Kept(s, n) = << >> /\ Taken(s, Len(s)) = s
      BY <2>5, <2>13, CutBehind
    <3>4. after.cost = SumFunction(s \o Alike(take, p))
      BY <2>1, <2>6, <2>9, <3>1, <3>3, SumConcat
    <3>5. SharesOf(after.batch) = Alike(q - take, p)
      <4>1. CASE take # q
        <5>1. q - take \in Nat
          BY <2>1, <2>2 DEF take, Least
        <5>2. \A r \in Seq(Nat) : << >> \o r = r
          OBVIOUS
        <5> QED  BY <2>1, <2>10, <3>3, <4>1, <5>1, <5>2, AlikeFacts
      <4>2. CASE take = q
        <5>1. q - take = 0
          BY <2>1, <4>2
        <5> QED  BY <2>1, <2>11, <3>3, <4>2, <5>1, AlikeFacts
      <4> QED  BY <4>1, <4>2
    <3>6. left - take = 0
      BY <2>2, <3>1
    <3> QED  BY <2>6, <3>1, <3>2, <3>4, <3>5, <3>6
  <2>14. CASE Len(longer) < n
    <3>1. /\ left = n - Len(s) /\ take = q
          /\ Least(n, Len(s)) = Len(s) /\ Least(n, Len(longer)) = Len(longer)
          /\ Most(n - Len(longer), 0) = left - take
          /\ n >= Len(s) /\ n >= Len(longer)
      <4> DEFINE old == Len(s)
      <4>1. /\ old \in Nat /\ Len(longer) = old + q /\ old + q < n
            /\ left = Most(n - old, 0)
        BY <2>5, <2>7, <2>14
      <4> HIDE DEF old
      <4>2. left = n - old /\ q < left
        BY <2>1, <4>1 DEF Most
      <4>3. take = q
        BY <2>1, <2>2, <4>2 DEF take, Least
      <4>4. /\ Least(n, old) = old /\ Least(n, old + q) = old + q
            /\ Most(n - (old + q), 0) = (n - old) - q
        BY <2>1, <4>1 DEF Least, Most
      <4>5. n >= old /\ n >= old + q
        BY <2>1, <4>1
      <4> QED  BY <4>1, <4>2, <4>3, <4>4, <4>5 DEF old
    <3>2. longer \in Seq(Nat)
      BY <2>5
    <3>3. Kept(s, n) = << >> /\ Taken(s, Len(s)) = s
          /\ Kept(longer, n) = << >> /\ Taken(longer, Len(longer)) = longer
      BY <3>1, <3>2, CutBehind
    <3>4. SumFunction(longer) = SumFunction(s) + q * p
      BY <2>1, <2>5, SumConcat
    <3> QED  BY <2>6, <2>9, <2>11, <3>1, <3>3, <3>4
  <2> QED  BY <2>1, <2>2, <2>5, <2>12, <2>13, <2>14
<1>5. ASSUME NEW j \in Good PROVE j + 1 \in Good
  <2> SUFFICES ASSUME j + 1 <= Len(batch) PROVE Follows(acc(j + 1), f[j + 1])
    OBVIOUS
  <2>1. j + 1 \in 1..Len(batch) /\ (j + 1) - 1 = j /\ j \in 0..Len(batch)
    OBVIOUS
  <2>2. Follows(acc(j), f[j])
    BY <2>1
  <2>3. acc(j + 1) = TakeFromLot(acc(j), batch[j + 1])
    BY <1>2, <2>1
  <2>4. f[j + 1] = f[j] \o SharesOfLot(batch[j + 1]) /\ f[j] \in Seq(Nat)
    BY <1>1, <2>1
  <2>5. batch[j + 1] \in Lot
    BY <2>1, LotFields
  <2> HIDE DEF Follows, acc
  <2> QED  BY <1>4, <2>2, <2>3, <2>4, <2>5
<1> HIDE DEF Good
<1>6. Good = Nat
  <2>1. Good \in SUBSET Nat
    BY DEF Good
  <2> QED  BY <1>3, <1>5, <2>1, CountingUp
<1>7. Follows(acc(Len(batch)), SharesOf(batch))
  <2>1. Len(batch) \in Good
    BY <1>6
  <2> HIDE DEF Follows
  <2> QED  BY <1>1, <2>1 DEF Good
<1>8. acc(Len(batch)) = ConsumeLots(batch, n)
  BY ConsumeIsIter
<1>9. n <= LotTotal(batch) => Least(n, Len(SharesOf(batch))) = n
  BY SharesTypes DEF Least
<1> QED  BY <1>7, <1>8, <1>9

-----------------------------------------------------------------------------
(* What lots and shares cost. *)

\* The shares after the first n up to the k-th.
Between(s, n, k) == SubSeq(s, n + 1, k)

LEMMA BetweenFacts ==
  ASSUME NEW s \in Seq(Nat), NEW n \in Nat, NEW k \in Nat, n <= k, k <= Len(s)
  PROVE  /\ Between(s, n, k) \in Seq(Nat) /\ Len(Between(s, n, k)) = k - n
         /\ \A i \in 1..(k - n) : Between(s, n, k)[i] = s[n + i]
  BY DEF Between

LEMMA OneMore ==
  ASSUME NEW s \in Seq(Nat), NEW n \in Nat, NEW k \in Nat, n <= k, k < Len(s)
  PROVE  Between(s, n, k + 1) = Append(Between(s, n, k), s[k + 1])
<1> DEFINE t == Between(s, n, k)
           u == Between(s, n, k + 1)
           x == s[k + 1]
<1>1. x \in Nat /\ k + 1 \in Nat /\ n <= k + 1 /\ k + 1 <= Len(s) /\ k <= Len(s)
  OBVIOUS
<1>2. t \in Seq(Nat) /\ Len(t) = k - n /\ \A i \in 1..(k - n) : t[i] = s[n + i]
  BY <1>1, BetweenFacts
<1>3. /\ u \in Seq(Nat) /\ Len(u) = (k + 1) - n
      /\ \A i \in 1..((k + 1) - n) : u[i] = s[n + i]
  <2> DEFINE kk == k + 1
  <2> HIDE DEF kk
  <2>1. kk \in Nat /\ n <= kk /\ kk <= Len(s)
    BY <1>1 DEF kk
  <2>2. /\ Between(s, n, kk) \in Seq(Nat) /\ Len(Between(s, n, kk)) = kk - n
        /\ \A i \in 1..(kk - n) : Between(s, n, kk)[i] = s[n + i]
    BY <2>1, BetweenFacts
  <2> QED  BY <2>2 DEF kk
<1> HIDE DEF t, u
<1>4. /\ Append(t, x) \in Seq(Nat) /\ Len(Append(t, x)) = Len(t) + 1
      /\ \A i \in 1..Len(t) : Append(t, x)[i] = t[i]
      /\ Append(t, x)[Len(t) + 1] = x
  <2> HIDE DEF x
  <2> QED  BY <1>1, <1>2
<1>5. ASSUME NEW i \in 1..Len(u) PROVE u[i] = Append(t, x)[i]
  <2>1. CASE i \in 1..(k - n)
    BY <1>2, <1>3, <1>4, <2>1
  <2>2. CASE i = (k - n) + 1
    <3>1. n + i = k + 1
      BY <2>2
    <3> QED  BY <1>2, <1>3, <1>4, <2>2, <3>1
  <2>3. i \in 1..(k - n) \/ i = (k - n) + 1
    BY <1>3
  <2> QED  BY <2>1, <2>2, <2>3
<1>6. Len(u) = Len(Append(t, x))
  BY <1>2, <1>3, <1>4
<1>7. u = Append(t, x)
  <2> HIDE DEF x
  <2> QED  BY <1>3, <1>4, <1>5, <1>6, SameShares
<1> QED  BY <1>7 DEF t, u

\* The front and the back of a sequence make up its sum.
LEMMA SumOfParts ==
  ASSUME NEW s \in Seq(Nat), NEW n \in 0..Len(s)
  PROVE  SumFunction(s) = SumFunction(Taken(s, n)) + SumFunction(Kept(s, n))
<1> DEFINE sum(m, k) == SumFunction(Between(s, m, k))
           Good == {k \in Nat : n <= k /\ k <= Len(s) => sum(0, k) = sum(0, n) + sum(n, k)}
<1>1. n \in Nat /\ Len(s) \in Nat /\ n <= Len(s) /\ 0 <= n
  OBVIOUS
<1>2. sum(n, n) = 0
  <2>1. Between(s, n, n) = << >>
    BY <1>1, BetweenFacts
  <2> QED  BY <2>1, SumEmpty DEF SumFunction
<1>3. sum(0, n) \in Nat
  BY <1>1, BetweenFacts, SumAppend
<1>4. n \in Good /\ \A k \in Nat : k < n => k \in Good
  BY <1>1, <1>2, <1>3
<1>5. ASSUME NEW k \in Good, n <= k, k < Len(s) PROVE k + 1 \in Good
  <2>1. /\ k \in Nat /\ s[k + 1] \in Nat /\ 0 <= k /\ k <= Len(s)
        /\ sum(0, k) = sum(0, n) + sum(n, k)
    BY <1>1, <1>5
  <2>2. /\ sum(0, k + 1) = sum(0, k) + s[k + 1]
        /\ sum(n, k + 1) = sum(n, k) + s[k + 1]
        /\ sum(n, k) \in Nat
    <3>1. ASSUME NEW m \in Nat, m <= k
          PROVE  sum(m, k + 1) = sum(m, k) + s[k + 1] /\ sum(m, k) \in Nat
      <4>1. Between(s, m, k) \in Seq(Nat)
        BY <2>1, <3>1, BetweenFacts
      <4>2. Between(s, m, k + 1) = Append(Between(s, m, k), s[k + 1])
        BY <1>5, <2>1, <3>1, OneMore
      <4> QED  BY <2>1, <4>1, <4>2, SumAppend
    <3> QED  BY <1>1, <1>5, <2>1, <3>1
  <2> HIDE DEF sum
  <2>3. sum(0, k + 1) = sum(0, n) + sum(n, k + 1)
    BY <1>3, <2>1, <2>2
  <2> QED  BY <2>1, <2>3
<1>6. 0 \in Good /\ \A k \in Good : k + 1 \in Good
  <2> HIDE DEF sum
  <2>1. ASSUME NEW k \in Good PROVE k + 1 \in Good
    <3>1. CASE n <= k /\ k < Len(s)
      BY <1>5, <3>1
    <3>2. CASE ~(n <= k) \/ ~(k < Len(s))
      BY <1>1, <1>4, <3>2
    <3> QED  BY <3>1, <3>2
  <2>2. 0 \in Good
    BY <1>1, <1>4
  <2> QED  BY <2>1, <2>2
<1>7. Good = Nat
  <2>1. Good \in SUBSET Nat
    OBVIOUS
  <2> HIDE DEF Good
  <2> QED  BY <1>6, <2>1, CountingUp
<1>8. sum(0, Len(s)) = sum(0, n) + sum(n, Len(s))
  BY <1>1, <1>7
<1>9. Between(s, 0, Len(s)) = s
  BY DEF Between
<1>10. sum(0, n) = SumFunction(Taken(s, n)) /\ sum(n, Len(s)) = SumFunction(Kept(s, n))
  BY DEF Kept, Taken, Between
<1> HIDE DEF sum
<1>11. sum(0, Len(s)) = SumFunction(s)
  BY <1>9 DEF sum
<1> QED  BY <1>8, <1>10, <1>11

\* Lots cost what their shares do.
LEMMA LotCostIsShares ==
  ASSUME NEW batch \in Seq(Lot)
  PROVE  LotCost(batch) = SumFunction(SharesOf(batch)) /\ LotCost(batch) \in Nat
<1> DEFINE n == Len(batch)
           costs == [i \in DOMAIN batch |-> batch[i].quantity * batch[i].price]
<1>1. PICK f \in [0..n -> Seq(Nat)] :
        /\ f[0] = << >> /\ f[n] = SharesOf(batch)
        /\ \A k \in 1..n : f[k] = f[k - 1] \o SharesOfLot(batch[k])
  BY SharesRecurse
<1>2. /\ n \in Nat /\ costs \in Seq(Nat) /\ Len(costs) = n
      /\ \A k \in 1..n : costs[k] = batch[k].quantity * batch[k].price
  <2>1. n \in Nat /\ DOMAIN batch = 1..n
    OBVIOUS
  <2>2. \A k \in 1..n : batch[k].quantity * batch[k].price \in Nat
    BY LotFields
  <2>3. costs \in [1..n -> Nat]
    BY <2>1, <2>2
  <2> HIDE DEF costs
  <2>4. costs \in Seq(Nat) /\ Len(costs) = n
    BY <2>1, <2>3
  <2> QED  BY <2>1, <2>4 DEF costs
<1>3. SumFunction(<< >>) = 0
  BY SumEmpty DEF SumFunction
<1> DEFINE Good == {k \in Nat : k <= n => SumFunction(f[k]) = SumFunction(Taken(costs, k))}
<1> HIDE DEF costs
<1>4. 0 \in Good
  <2>1. Taken(costs, 0) = << >>
    BY <1>2 DEF Taken
  <2> QED  BY <1>1, <1>3, <2>1
<1>5. ASSUME NEW k \in Good, k < n
      PROVE  SumFunction(f[k + 1]) = SumFunction(Taken(costs, k + 1))
  <2> DEFINE lot == batch[k + 1]
  <2>1. /\ k \in 0..n /\ k + 1 \in 1..n /\ (k + 1) - 1 = k /\ f[k] \in Seq(Nat)
        /\ SumFunction(f[k]) = SumFunction(Taken(costs, k))
    BY <1>1, <1>2, <1>5
  <2>2. lot \in Lot /\ lot.quantity \in Nat /\ lot.price \in Nat
    BY <2>1, LotFields
  <2>3. SharesOfLot(lot) = Alike(lot.quantity, lot.price)
    BY DEF SharesOfLot, Alike
  <2>4. f[k + 1] = f[k] \o Alike(lot.quantity, lot.price)
    BY <1>1, <2>1, <2>3
  <2>5. SumFunction(f[k + 1]) = SumFunction(f[k]) + lot.quantity * lot.price
    BY <2>1, <2>2, <2>4, SumConcat
  <2>6. costs[k + 1] = lot.quantity * lot.price /\ costs[k + 1] \in Nat
    <3>1. costs[k + 1] = lot.quantity * lot.price
      BY <1>2, <2>1
    <3> HIDE DEF lot
    <3> QED  BY <2>2, <3>1
  <2>7. Taken(costs, k) \in Seq(Nat) /\ Taken(costs, k + 1) = Append(Taken(costs, k), costs[k + 1])
    <3>1. 0 \in Nat /\ k \in Nat /\ 0 <= k /\ k <= Len(costs) /\ k < Len(costs)
      BY <1>2, <1>5
    <3>2. Taken(costs, k) = Between(costs, 0, k) /\ Taken(costs, k + 1) = Between(costs, 0, k + 1)
      BY DEF Taken, Between
    <3> QED  BY <1>2, <3>1, <3>2, BetweenFacts, OneMore
  <2>8. SumFunction(Taken(costs, k + 1)) = SumFunction(Taken(costs, k)) + costs[k + 1]
    BY <2>6, <2>7, SumAppend
  <2> QED  BY <2>1, <2>5, <2>6, <2>8
<1>6. Good = Nat
  <2>1. Good \in SUBSET Nat
    OBVIOUS
  <2> HIDE DEF Good
  <2>2. ASSUME NEW k \in Good PROVE k + 1 \in Good
    BY <1>5
  <2> QED  BY <1>4, <2>1, <2>2, CountingUp
<1>7. Taken(costs, n) = costs
  BY <1>2 DEF Taken
<1>8. SumFunction(SharesOf(batch)) = SumFunction(costs)
  <2>1. n \in Good
    BY <1>2, <1>6
  <2>2. n <= n
    BY <1>2
  <2>3. SumFunction(f[n]) = SumFunction(Taken(costs, n))
    BY <2>1, <2>2
  <2> QED  BY <1>1, <1>7, <2>3
<1>9. SumFunction(costs) \in Nat
  BY <1>2, SumAppend
<1> QED  BY <1>8, <1>9 DEF LotCost, costs

-----------------------------------------------------------------------------
(* Arithmetic. *)

\* A share r/m of an amount, at most the whole of it, is at most the amount.
LEMMA ShareBound ==
  ASSUME NEW g \in Nat, NEW m \in Nat \ {0}, NEW r \in 0..m
  PROVE  (g * r) \div m \in 0..g
<1>1. g * r \in Nat /\ g * m \in Nat
  OBVIOUS
<1>2. g * r <= g * m
  OBVIOUS
<1>3. (g * r) \div m \in Nat
  BY <1>1
<1>4. m * ((g * r) \div m) <= g * r
  BY <1>1
<1>5. m * ((g * r) \div m) <= m * g
  BY <1>1, <1>2, <1>3, <1>4
<1>6. (g * r) \div m <= g
  BY <1>3, <1>5
<1>. QED BY <1>3, <1>6

\* The sizes of a bookable fill.
LEMMA FillFacts ==
  ASSUME NEW f \in Fill, Bookable(f)
  PROVE  /\ Size(f) \in Nat \ {0}
         /\ Gross(f) \in Nat
         /\ OwnMoney(f) \in 0..Gross(f)
         /\ Financed(f) \in Nat
<1>1. Size(f) \in Nat \ {0}
  BY DEF Fill, Bookable, Size, Magnitude
<1>2. Gross(f) \in Nat
  BY <1>1 DEF Fill, Gross
<1>3. Least(Most(f.ratio, 0), MarginUnit) \in 0..MarginUnit
  BY MarginUnitAssumption DEF Fill, Least, Most
<1>4. OwnMoney(f) \in 0..Gross(f)
  BY <1>2, <1>3, MarginUnitAssumption, ShareBound DEF OwnMoney
<1>5. Financed(f) \in Nat
  BY <1>2, <1>4 DEF Financed
<1>. QED BY <1>1, <1>2, <1>4, <1>5

\* A repayment is at most what the symbol and what the account owes.
LEMMA RepaymentBound ==
  ASSUME NEW f \in Fill, Bookable(f), NEW a \in Account
  PROVE  /\ Repayment(a, f) \in Nat
         /\ Repayment(a, f) <= a.financedAmount[f.symbol]
         /\ Repayment(a, f) <= a.borrowedCash
<1> DEFINE owed == a.financedAmount[f.symbol]
           held == a.quantity[f.symbol]
<1>1. owed \in Nat /\ held \in Int /\ a.borrowedCash \in Nat /\ Size(f) \in Nat
  BY FillFacts DEF Fill, Account
<1>2. CASE owed > 0 /\ held > 0
  <2>1. owed * Size(f) \in Nat
    BY <1>1
  <2>2. (owed * Size(f)) \div held \in Nat
    BY <1>1, <1>2, <2>1
  <2>3. Repayment(a, f)
          = Least(Least((owed * Size(f)) \div held, owed), a.borrowedCash)
    BY <1>2 DEF Repayment
  <2>. HIDE DEF owed, held
  <2>4. /\ Repayment(a, f) \in Nat
        /\ Repayment(a, f) <= owed
        /\ Repayment(a, f) <= a.borrowedCash
    BY <1>1, <2>2, <2>3 DEF Least
  <2>. QED BY <2>4 DEF owed
<1>3. CASE ~(owed > 0 /\ held > 0)
  BY <1>1, <1>3 DEF Repayment
<1>. QED BY <1>2, <1>3

\* Money moved by a fill, and the debts it leaves.
LEMMA MoneyFacts ==
  ASSUME NEW f \in Fill, Bookable(f), NEW a \in Account
  PROVE  /\ CashDelta(a, f) \in Int
         /\ DebtDelta(a, f) \in Int
         /\ a.borrowedCash + DebtDelta(a, f) \in Nat
         /\ a.financedAmount[f.symbol] + DebtDelta(a, f) \in Nat
         /\ BorrowedSharesAfter(a, f) \in Nat
<1>1. /\ a.borrowedCash \in Nat
      /\ a.financedAmount[f.symbol] \in Nat
      /\ a.borrowedShares[f.symbol] \in Nat
      /\ f.fees \in Nat
      /\ f.quantity \in Int
      /\ f.shortSell \in BOOLEAN
      /\ f.shortCover \in BOOLEAN
  BY DEF Fill, Account
<1>2. /\ Size(f) \in Nat /\ Gross(f) \in Nat
      /\ OwnMoney(f) \in 0..Gross(f) /\ Financed(f) \in Nat
  BY FillFacts
<1>3. /\ Repayment(a, f) \in Nat
      /\ Repayment(a, f) <= a.financedAmount[f.symbol]
      /\ Repayment(a, f) <= a.borrowedCash
  BY RepaymentBound
<1>4. CashDelta(a, f) \in Int
  BY <1>1, <1>2, <1>3
     DEF CashDelta, IsCover, IsOpenBuy, IsShortSell, IsPlainSell, IsBuy
<1>5. /\ DebtDelta(a, f) \in Int
      /\ a.borrowedCash + DebtDelta(a, f) \in Nat
      /\ a.financedAmount[f.symbol] + DebtDelta(a, f) \in Nat
  BY <1>1, <1>2, <1>3
     DEF DebtDelta, IsCover, IsOpenBuy, IsShortSell, IsPlainSell, IsBuy
<1>6. BorrowedSharesAfter(a, f) \in Nat
  BY <1>1, <1>2 DEF BorrowedSharesAfter, IsCover, IsShortSell, IsBuy, Most
<1>. QED BY <1>4, <1>5, <1>6

\* Position and average price after a fill.
LEMMA PositionFacts ==
  ASSUME NEW f \in Fill, Bookable(f), NEW a \in Account
  PROVE  QuantityAfter(a, f) \in Int /\ AvgPriceAfter(a, f) \in Nat
<1> DEFINE old == a.quantity[f.symbol]
           avg == a.avgPrice[f.symbol]
           new == QuantityAfter(a, f)
<1>1. /\ old \in Int /\ avg \in Nat /\ new \in Int
      /\ f.price \in Nat /\ Size(f) \in Nat
  <2>1. f.symbol \in Symbols /\ f.price \in Nat /\ Size(f) \in Nat
    BY FillFacts DEF Fill
  <2>2. old \in Int /\ avg \in Nat
    BY <2>1 DEF Account
  <2>3. new \in Int
    BY <2>2 DEF Fill, QuantityAfter
  <2> QED  BY <2>1, <2>2, <2>3
<1>2. CASE new = 0
  BY <1>1, <1>2 DEF AvgPriceAfter
<1>3. CASE new # 0 /\ (old = 0 \/ (old > 0) # (new > 0))
  BY <1>1, <1>3 DEF AvgPriceAfter
<1>4. CASE new # 0 /\ old # 0 /\ (old > 0) = (new > 0)
  <2>1. AvgPriceAfter(a, f) =
          IF OpenQty(a, f) = 0 THEN avg
          ELSE (Magnitude(old) * avg + Size(f) * f.price) \div Magnitude(new)
    BY <1>1, <1>4 DEF AvgPriceAfter
  <2>2. Magnitude(old) \in Nat /\ Magnitude(new) \in Nat \ {0}
    BY <1>1, <1>4 DEF Magnitude
  <2>. HIDE DEF old, avg, new
  <2>3. Magnitude(old) * avg + Size(f) * f.price \in Nat
    BY <1>1, <2>2
  <2>4. (Magnitude(old) * avg + Size(f) * f.price) \div Magnitude(new) \in Nat
    BY <2>2, <2>3
  <2>5. AvgPriceAfter(a, f) \in Nat
    BY <1>1, <2>1, <2>4
  <2>. QED BY <1>1, <2>5 DEF new
<1>. QED BY <1>1, <1>2, <1>3, <1>4

-----------------------------------------------------------------------------
(* What a fill makes of an account. *)

\* What a fill closes and opens: never more than its size, and only the part
\* that opens a long position makes a lot.
LEMMA CloseFacts ==
  ASSUME NEW f \in Fill, Bookable(f), NEW a \in Account
  PROVE  /\ CloseQty(a, f) \in 0..Size(f)
         /\ OpenQty(a, f) \in Nat
         /\ (f.quantity > 0 /\ QuantityAfter(a, f) > 0) =>
              OpenQty(a, f) = QuantityAfter(a, f) - Most(a.quantity[f.symbol], 0)
         /\ a.quantity[f.symbol] > 0 =>
              CloseQty(a, f) = IF f.quantity > 0 THEN 0
                               ELSE Least(Size(f), a.quantity[f.symbol])
<1> DEFINE old == a.quantity[f.symbol]
<1>1. /\ old \in Int /\ f.quantity \in Int /\ f.quantity # 0
      /\ Size(f) = Magnitude(f.quantity)
  BY DEF Fill, Account, Bookable, Size
<1>2. CloseQty(a, f) = IF SameSide(old, f.quantity) THEN 0
                       ELSE Least(Size(f), Magnitude(old))
  BY DEF CloseQty
<1>3. QuantityAfter(a, f) = old + f.quantity
  BY DEF QuantityAfter
<1> HIDE DEF old
<1>4. CloseQty(a, f) \in 0..Size(f)
  BY <1>1, <1>2 DEF Least, Magnitude, SameSide
<1>5. OpenQty(a, f) = Size(f) - CloseQty(a, f)
  BY DEF OpenQty
<1>6. (f.quantity > 0 /\ QuantityAfter(a, f) > 0) =>
        OpenQty(a, f) = QuantityAfter(a, f) - Most(old, 0)
  BY <1>1, <1>2, <1>3, <1>5 DEF Least, Most, Magnitude, SameSide
<1>7. old > 0 => CloseQty(a, f) = IF f.quantity > 0 THEN 0 ELSE Least(Size(f), old)
  BY <1>1, <1>2 DEF Magnitude, SameSide
<1> QED  BY <1>1, <1>4, <1>5, <1>6, <1>7 DEF Magnitude, old

\* The lots a fill leaves, and the cost of what it closes.
LEMMA LotFacts ==
  ASSUME NEW f \in Fill, Bookable(f), NEW a \in Account
  PROVE  /\ LotsAfter(a, f) \in Seq(Lot)
         /\ ClosedCost(a, f) \in Nat
         /\ LotTotal(a.lots[f.symbol]) <= Most(a.quantity[f.symbol], 0) =>
              LotTotal(LotsAfter(a, f)) <= Most(QuantityAfter(a, f), 0)
<1> DEFINE old == a.quantity[f.symbol]
           new == QuantityAfter(a, f)
           batch == a.lots[f.symbol]
           sold == IF old > 0 THEN CloseQty(a, f) ELSE 0
           rest == ClosedLots(a, f).batch
           opens == IsOpenBuy(f) /\ OpenQty(a, f) > 0 /\ new > 0
           lot == [quantity |-> OpenQty(a, f), price |-> f.price]
<1>1. /\ old \in Int /\ f.quantity \in Int /\ f.quantity # 0 /\ f.price \in Nat
      /\ batch \in Seq(Lot) /\ a.avgPrice[f.symbol] \in Nat
      /\ Size(f) = Magnitude(f.quantity) /\ new = old + f.quantity
  BY DEF Fill, Account, Bookable, Size, QuantityAfter
<1>2. /\ CloseQty(a, f) \in 0..Size(f)
      /\ OpenQty(a, f) \in Nat
      /\ (f.quantity > 0 /\ new > 0) => OpenQty(a, f) = new - Most(old, 0)
      /\ old > 0 => CloseQty(a, f) = IF f.quantity > 0 THEN 0
                                     ELSE Least(Size(f), old)
  BY CloseFacts
<1>3. sold \in Nat
  BY <1>1, <1>2 DEF Magnitude
<1>4. ClosedLots(a, f) = ConsumeLots(batch, sold)
  BY DEF ClosedLots
<1> HIDE DEF sold, batch
<1>5. /\ ClosedLots(a, f) \in Drawn
      /\ LotTotal(rest) = Most(LotTotal(batch) - sold, 0)
  BY <1>1, <1>3, <1>4, ConsumeFacts
<1>6. rest \in Seq(Lot) /\ ClosedLots(a, f).cost \in Nat
  BY <1>5 DEF Drawn
<1>7. LotTotal(batch) \in Nat /\ LotTotal(rest) \in Nat
  BY <1>1, <1>6, OldestTotalFacts
<1>8. LotsAfter(a, f) = IF opens THEN Append(rest, lot) ELSE rest
  BY DEF LotsAfter
<1> HIDE DEF rest
<1>9. opens => lot \in Lot /\ lot.quantity = OpenQty(a, f)
  BY <1>1, <1>2 DEF Lot
<1>10. opens => /\ Append(rest, lot) \in Seq(Lot)
                /\ LotTotal(Append(rest, lot)) = LotTotal(rest) + OpenQty(a, f)
  <2> HIDE DEF opens, lot
  <2> QED  BY <1>6, <1>9, LotTotalAppend
<1>11. ClosedCost(a, f) \in Nat
  <2>1. CloseQty(a, f) * a.avgPrice[f.symbol] \in Nat
    BY <1>1, <1>2 DEF Magnitude
  <2> QED  BY <1>6, <2>1 DEF ClosedCost
<1>12. ASSUME LotTotal(batch) <= Most(old, 0)
       PROVE  LotTotal(LotsAfter(a, f)) <= Most(new, 0)
  <2> HIDE DEF old, new, lot
  <2>1. CASE opens
    <3>1. f.quantity > 0 /\ new > 0
      BY <2>1 DEF IsOpenBuy, IsBuy
    <3>2. LotTotal(rest) <= Most(old, 0)
      BY <1>1, <1>3, <1>5, <1>7, <1>12 DEF Most
    <3>3. LotTotal(LotsAfter(a, f)) = LotTotal(rest) + OpenQty(a, f)
      BY <1>8, <1>10, <2>1
    <3> QED  BY <1>1, <1>2, <1>7, <3>1, <3>2, <3>3 DEF Most
  <2>2. CASE ~opens
    <3>1. LotTotal(LotsAfter(a, f)) = Most(LotTotal(batch) - sold, 0)
      BY <1>5, <1>8, <2>2
    <3>2. CASE old > 0 /\ f.quantity > 0
      BY <1>1, <1>2, <1>3, <1>7, <1>12, <3>1, <3>2 DEF Most
    <3>3. CASE old > 0 /\ ~(f.quantity > 0)
      <4>1. sold = Least(-f.quantity, old)
        BY <1>1, <1>2, <3>3 DEF sold, old, Magnitude
      <4> QED  BY <1>1, <1>7, <1>12, <3>1, <3>3, <4>1 DEF Most, Least
    <3>4. CASE ~(old > 0)
      BY <1>1, <1>3, <1>7, <1>12, <3>1, <3>4 DEF Most
    <3> QED  BY <3>2, <3>3, <3>4
  <2> QED  BY <2>1, <2>2
<1> QED  BY <1>6, <1>8, <1>10, <1>11, <1>12 DEF batch

LEMMA RealisedTypes ==
  ASSUME NEW f \in Fill, Bookable(f), NEW a \in Account
  PROVE  RealisedProfit(a, f) \in Int
<1>1. /\ f.price \in Nat /\ f.fees \in Nat /\ f.symbol \in Symbols
      /\ Gross(f) \in Nat /\ a.avgPrice[f.symbol] \in Nat
  BY FillFacts DEF Fill, Account
<1>2. ClosedCost(a, f) \in Nat /\ CloseQty(a, f) \in Int
  BY LotFacts, CloseFacts, FillFacts
<1>3. (a.avgPrice[f.symbol] - f.price) * CloseQty(a, f) \in Int
  BY <1>1, <1>2
<1>4. (a.avgPrice[f.symbol] - f.price) * CloseQty(a, f) - f.fees \in Int
  BY <1>1, <1>3
<1>5. Gross(f) - ClosedCost(a, f) - f.fees \in Int
  BY <1>1, <1>2
<1> QED  BY <1>4, <1>5 DEF RealisedProfit, IsPlainSell, IsCover

LEMMA FillTypes ==
  ASSUME NEW f \in Fill, Bookable(f), NEW a \in Account
  PROVE  AccountAfter(a, f) \in Account
<1>1. /\ CashDelta(a, f) \in Int
      /\ a.borrowedCash + DebtDelta(a, f) \in Nat
      /\ a.financedAmount[f.symbol] + DebtDelta(a, f) \in Nat
      /\ BorrowedSharesAfter(a, f) \in Nat
  BY MoneyFacts
<1>2. QuantityAfter(a, f) \in Int /\ AvgPriceAfter(a, f) \in Nat
  BY PositionFacts
<1>3. /\ f.symbol \in Symbols /\ f.price \in Nat /\ f.fees \in Nat
      /\ Gross(f) \in Nat /\ a.avgPrice[f.symbol] \in Nat
  BY FillFacts DEF Fill, Account
<1>4. LotsAfter(a, f) \in Seq(Lot) /\ ClosedCost(a, f) \in Nat
  BY LotFacts
<1>5. RealisedProfit(a, f) \in Int
  BY RealisedTypes
<1>6. /\ [a.quantity EXCEPT ![f.symbol] = QuantityAfter(a, f)] \in [Symbols -> Int]
      /\ [a.avgPrice EXCEPT ![f.symbol] = AvgPriceAfter(a, f)] \in [Symbols -> Nat]
      /\ [a.currentPrice EXCEPT ![f.symbol] =
            IF QuantityAfter(a, f) = 0 THEN 0 ELSE f.price] \in [Symbols -> Nat]
      /\ [a.financedAmount EXCEPT ![f.symbol] = @ + DebtDelta(a, f)]
           \in [Symbols -> Nat]
      /\ [a.borrowedShares EXCEPT ![f.symbol] = BorrowedSharesAfter(a, f)]
           \in [Symbols -> Nat]
  BY <1>1, <1>2, <1>3 DEF Account
<1>7. [a.lots EXCEPT ![f.symbol] = LotsAfter(a, f)] \in [Symbols -> Seq(Lot)]
  <2>1. a.lots \in [Symbols -> Seq(Lot)]
    BY DEF Account
  <2> QED  BY <1>3, <1>4, <2>1
<1>8. /\ a.active \in BOOLEAN /\ a.allocated \in Nat
      /\ a.cash + CashDelta(a, f) \in Int /\ a.profit + RealisedProfit(a, f) \in Int
  BY <1>1, <1>5 DEF Account
<1> QED  BY <1>1, <1>6, <1>7, <1>8 DEF Account, AccountAfter

LEMMA NoAccountTypes == NoAccount \in Account
<1>1. << >> \in Seq(Lot)
  OBVIOUS
<1> QED  BY <1>1 DEF Account, NoAccount

\* The adjustments that are not fills, and what they leave alone.
Adjusted(a) ==
  {Allocated(a, amount) : amount \in Nat} \cup {CashAdjusted(a, delta) : delta \in Int}
  \cup {Marked(a, s, price) : s \in Symbols, price \in Nat} \cup {Deactivated(a)}

LEMMA AdjustedFacts ==
  ASSUME NEW a \in Account, NEW b \in Adjusted(a)
  PROVE  /\ b \in Account
         /\ b.quantity = a.quantity /\ b.lots = a.lots
         /\ b.avgPrice = a.avgPrice /\ b.profit = a.profit
         /\ b.borrowedCash = a.borrowedCash
         /\ b.financedAmount = a.financedAmount
         /\ b.borrowedShares = a.borrowedShares
<1> DEFINE Same(c) == /\ c \in Account
                      /\ c.quantity = a.quantity /\ c.lots = a.lots
                      /\ c.avgPrice = a.avgPrice /\ c.profit = a.profit
                      /\ c.borrowedCash = a.borrowedCash
                      /\ c.financedAmount = a.financedAmount
                      /\ c.borrowedShares = a.borrowedShares
<1>1. \A c : Same(c) => /\ Same([c EXCEPT !.exists = TRUE])
                        /\ Same([c EXCEPT !.active = TRUE])
                        /\ Same([c EXCEPT !.active = FALSE])
                        /\ \A n \in Nat : Same([c EXCEPT !.allocated = n])
                        /\ \A n \in Int : Same([c EXCEPT !.cash = n])
  <2> TAKE c
  <2> HAVE Same(c)
  <2>1. Same([c EXCEPT !.exists = TRUE])
    BY DEF Account
  <2>2. Same([c EXCEPT !.active = TRUE]) /\ Same([c EXCEPT !.active = FALSE])
    BY DEF Account
  <2>3. \A n \in Nat : Same([c EXCEPT !.allocated = n])
    BY DEF Account
  <2>4. \A n \in Int : Same([c EXCEPT !.cash = n])
    BY DEF Account
  <2> QED  BY <2>1, <2>2, <2>3, <2>4
<1>2. Same(a)
  OBVIOUS
<1>3. ASSUME NEW amount \in Nat PROVE Same(Allocated(a, amount))
  <2> DEFINE b1 == [a EXCEPT !.exists = TRUE]
             b2 == [b1 EXCEPT !.active = TRUE]
             b3 == [b2 EXCEPT !.allocated = amount]
             b4 == [b3 EXCEPT !.cash = amount]
  <2>1. Allocated(a, amount) = b4
    BY DEF Allocated
  <2> HIDE DEF Same
  <2>2. Same(b1)
    BY <1>1, <1>2
  <2> HIDE DEF b1
  <2>3. Same(b2)
    BY <1>1, <2>2
  <2> HIDE DEF b2
  <2>4. Same(b3)
    BY <1>1, <2>3
  <2> HIDE DEF b3
  <2>5. amount \in Int
    OBVIOUS
  <2>6. Same(b4)
    BY <1>1, <2>4, <2>5
  <2> QED  BY <2>1, <2>6
<1>4. ASSUME NEW delta \in Int PROVE Same(CashAdjusted(a, delta))
  <2> DEFINE b1 == [a EXCEPT !.exists = TRUE]
             b2 == [b1 EXCEPT !.cash = a.cash + delta]
  <2>1. CashAdjusted(a, delta) = b2
    BY DEF CashAdjusted
  <2>2. a.cash + delta \in Int
    BY DEF Account
  <2> HIDE DEF Same
  <2>3. Same(b1)
    BY <1>1, <1>2
  <2> HIDE DEF b1
  <2>4. Same(b2)
    BY <1>1, <2>2, <2>3
  <2> QED  BY <2>1, <2>4
<1>5. ASSUME NEW s \in Symbols, NEW price \in Nat PROVE Same(Marked(a, s, price))
  BY DEF Account, Marked
<1>6. Same(Deactivated(a))
  <2> HIDE DEF Same
  <2> QED  BY <1>1, <1>2 DEF Deactivated
<1> HIDE DEF Same
<1>7. Same(b)
  BY <1>3, <1>4, <1>5, <1>6 DEF Adjusted
<1> QED  BY <1>7 DEF Same

-----------------------------------------------------------------------------
(* What a step makes of the accounts. *)

TablesOK ==
  /\ accounts \in [Strategies -> Account]
  /\ file.accounts \in [Strategies -> Account]
  /\ fetched \subseteq [Strategies -> Account]

\* The file holds the accounts it held, those in memory, or none; what is parsed
\* is what the file holds.
LEMMA FileSteps ==
  ASSUME TablesOK, [Next]_vars
  PROVE  /\ file'.accounts \in [Strategies -> Account]
         /\ \A st \in Strategies :
              file'.accounts[st] \in {file.accounts[st], accounts[st], NoAccount}
         /\ fetched' \subseteq fetched \cup {file.accounts}
         /\ fetched' \subseteq [Strategies -> Account]
<1>1. Empty \in [Strategies -> Account]
      /\ \A st \in Strategies : Empty[st] = NoAccount
  BY NoAccountTypes DEF Empty
<1>2. fetched' \subseteq fetched \cup {file.accounts}
  BY DEF Next, Other, Allocate, Reclaim, ReclaimAll, UpdateAvailable, UpdatePrice,
         ApplyFill, Save, Crash, Fetch, Swap, vars
<1>3. fetched' \subseteq [Strategies -> Account]
  BY <1>2 DEF TablesOK
<1>4. CASE UNCHANGED file
  BY <1>2, <1>3, <1>4 DEF TablesOK
<1>5. CASE Save
  BY <1>2, <1>3, <1>5 DEF TablesOK, Save
<1>6. CASE Crash
  BY <1>1, <1>2, <1>3, <1>6 DEF TablesOK, Crash, TornFile
<1>7. UNCHANGED file \/ Save \/ Crash
  BY DEF Next, Other, Allocate, Reclaim, ReclaimAll, UpdateAvailable, UpdatePrice,
         ApplyFill, Fetch, Swap, vars
<1> QED  BY <1>4, <1>5, <1>6, <1>7

\* A fill changes the account it is booked in, and no other.
LEMMA FillSteps ==
  ASSUME TablesOK, NEW st \in Strategies, NEW f \in Fills, ApplyFill(st, f)
  PROVE  /\ f \in Fill /\ Bookable(f)
         /\ accounts' \in [Strategies -> Account]
         /\ accounts'[st] = AccountAfter(accounts[st], f)
         /\ \A other \in Strategies \ {st} : accounts'[other] = accounts[other]
<1>1. f \in Fill /\ Bookable(f)
  BY FillsAssumption DEF ApplyFill
<1>2. accounts[st] \in Account /\ accounts \in [Strategies -> Account]
  BY DEF TablesOK
<1>3. AccountAfter(accounts[st], f) \in Account
  BY <1>1, <1>2, FillTypes
<1> QED  BY <1>1, <1>2, <1>3 DEF ApplyFill

\* The steps that adjust an account do so in one of the four ways.
LEMMA AdjustingSteps ==
  ASSUME Other
  PROVE  \/ ReclaimAll \/ Save \/ Crash \/ Fetch \/ Swap
         \/ /\ file' = file /\ fetched' = fetched
            /\ \E st \in Strategies : \E b \in Adjusted(accounts[st]) :
                 accounts' = [accounts EXCEPT ![st] = b]
<1>1. ASSUME NEW st \in Strategies, NEW amount \in Allocations, Allocate(st, amount)
      PROVE  \E b \in Adjusted(accounts[st]) : accounts' = [accounts EXCEPT ![st] = b]
  <2>1. amount \in Nat
    BY FillsAssumption
  <2>2. Allocated(accounts[st], amount) \in Adjusted(accounts[st])
    BY <2>1 DEF Adjusted
  <2>3. accounts' = [accounts EXCEPT ![st] = Allocated(accounts[st], amount)]
    BY <1>1 DEF Allocate
  <2> QED  BY <2>2, <2>3, Zenon
<1>2. ASSUME NEW st \in Strategies, NEW delta \in CashDeltas, UpdateAvailable(st, delta)
      PROVE  \E b \in Adjusted(accounts[st]) : accounts' = [accounts EXCEPT ![st] = b]
  <2>1. delta \in Int
    BY FillsAssumption
  <2>2. CashAdjusted(accounts[st], delta) \in Adjusted(accounts[st])
    BY <2>1 DEF Adjusted
  <2>3. accounts' = [accounts EXCEPT ![st] = CashAdjusted(accounts[st], delta)]
    BY <1>2 DEF UpdateAvailable
  <2> QED  BY <2>2, <2>3, Zenon
<1>3. ASSUME NEW st \in Strategies, NEW s \in Symbols, NEW price \in MarketPrices,
             UpdatePrice(st, s, price)
      PROVE  \E b \in Adjusted(accounts[st]) : accounts' = [accounts EXCEPT ![st] = b]
  <2>1. price \in Nat
    BY FillsAssumption
  <2>2. Marked(accounts[st], s, price) \in Adjusted(accounts[st])
    BY <2>1 DEF Adjusted
  <2>3. accounts' = [accounts EXCEPT ![st] = Marked(accounts[st], s, price)]
    BY <1>3 DEF UpdatePrice
  <2> QED  BY <2>2, <2>3, Zenon
<1>4. ASSUME NEW st \in Strategies, Reclaim(st)
      PROVE  \E b \in Adjusted(accounts[st]) : accounts' = [accounts EXCEPT ![st] = b]
  <2>1. Deactivated(accounts[st]) \in Adjusted(accounts[st])
    BY DEF Adjusted
  <2>2. accounts' = [accounts EXCEPT ![st] = Deactivated(accounts[st])]
    BY <1>4 DEF Reclaim
  <2> QED  BY <2>1, <2>2, Zenon
<1>5. \/ ReclaimAll \/ Save \/ Crash \/ Fetch \/ Swap
      \/ file' = file /\ fetched' = fetched
  BY DEF Other, Allocate, UpdateAvailable, UpdatePrice, Reclaim
<1> QED  BY <1>1, <1>2, <1>3, <1>4, <1>5 DEF Other

\* A step that books no fill keeps an account, adjusts it, empties it or takes
\* the one of a table that was parsed.
LEMMA OtherSteps ==
  ASSUME TablesOK, Other \/ UNCHANGED vars
  PROVE  /\ accounts' \in [Strategies -> Account]
         /\ \A st \in Strategies :
              \/ accounts'[st] \in {accounts[st], NoAccount}
              \/ \E table \in fetched : accounts'[st] = table[st]
              \/ accounts'[st] \in Adjusted(accounts[st])
<1>1. Empty \in [Strategies -> Account]
      /\ \A st \in Strategies : Empty[st] = NoAccount
  BY NoAccountTypes DEF Empty
<1>2. ASSUME NEW st \in Strategies, NEW b \in Adjusted(accounts[st]),
             accounts' = [accounts EXCEPT ![st] = b]
      PROVE  /\ accounts' \in [Strategies -> Account]
             /\ accounts'[st] \in Adjusted(accounts[st])
             /\ \A other \in Strategies \ {st} : accounts'[other] = accounts[other]
  <2>1. accounts[st] \in Account /\ accounts \in [Strategies -> Account]
    BY DEF TablesOK
  <2>2. b \in Account
    BY <2>1, AdjustedFacts
  <2> QED  BY <1>2, <2>1, <2>2
<1>3. CASE ReclaimAll \/ Crash
  BY <1>1, <1>3 DEF ReclaimAll, Crash
<1>4. CASE Save \/ Fetch \/ UNCHANGED vars
  BY <1>4 DEF TablesOK, Save, Fetch, vars
<1>5. CASE Swap
  BY <1>5 DEF TablesOK, Swap
<1>6. CASE \E st \in Strategies : \E b \in Adjusted(accounts[st]) :
             accounts' = [accounts EXCEPT ![st] = b]
  BY <1>2, <1>6
<1> QED  BY <1>3, <1>4, <1>5, <1>6, AdjustingSteps

-----------------------------------------------------------------------------
(* Types, debts and lots. *)

\* What is true of every account: its types, the agreement of the debt with the
\* principals, and that its lots are part of its long position.
Sound(a) == a \in Account /\ DebtIsFinanced(a) /\ LotsWithinLong(a)

LEMMA FillKeepsDebt ==
  ASSUME NEW f \in Fill, Bookable(f), NEW a \in Account, DebtIsFinanced(a)
  PROVE  DebtIsFinanced(AccountAfter(a, f))
<1> DEFINE principals == a.financedAmount
           after == principals[f.symbol] + DebtDelta(a, f)
<1>1. /\ principals \in [Symbols -> Int] /\ f.symbol \in Symbols
      /\ principals[f.symbol] \in Int /\ DebtDelta(a, f) \in Int /\ after \in Int
      /\ a.borrowedCash \in Int
  <2>1. /\ DebtDelta(a, f) \in Int
        /\ a.financedAmount[f.symbol] + DebtDelta(a, f) \in Nat
    BY MoneyFacts
  <2>2. /\ a.financedAmount \in [Symbols -> Nat] /\ f.symbol \in Symbols
        /\ a.borrowedCash \in Nat
    BY DEF Account, Fill
  <2> QED  BY <2>1, <2>2
<1>2. /\ AccountAfter(a, f).financedAmount = [principals EXCEPT ![f.symbol] = after]
      /\ AccountAfter(a, f).borrowedCash = a.borrowedCash + DebtDelta(a, f)
  BY DEF AccountAfter
<1>3. a.borrowedCash = SumFunction(principals)
  BY DEF DebtIsFinanced
<1> HIDE DEF principals, after
<1>4. SumFunction([principals EXCEPT ![f.symbol] = after])
        = SumFunction(principals) + (after - principals[f.symbol])
  BY <1>1, SymbolsAssumption, SumUpdate
<1>5. SumFunction([principals EXCEPT ![f.symbol] = after])
        = a.borrowedCash + DebtDelta(a, f)
  BY <1>1, <1>3, <1>4 DEF after
<1> QED  BY <1>2, <1>5 DEF DebtIsFinanced

LEMMA FillKeepsLots ==
  ASSUME NEW f \in Fill, Bookable(f), NEW a \in Account, LotsWithinLong(a)
  PROVE  LotsWithinLong(AccountAfter(a, f))
<1> DEFINE b == AccountAfter(a, f)
<1>1. /\ b.lots = [a.lots EXCEPT ![f.symbol] = LotsAfter(a, f)]
      /\ b.quantity = [a.quantity EXCEPT ![f.symbol] = QuantityAfter(a, f)]
  BY DEF AccountAfter
<1>2. /\ a.lots \in [Symbols -> Seq(Lot)] /\ a.quantity \in [Symbols -> Int]
      /\ f.symbol \in Symbols
  BY DEF Account, Fill
<1>3. LotTotal(LotsAfter(a, f)) <= Most(QuantityAfter(a, f), 0)
  BY <1>2, LotFacts DEF LotsWithinLong
<1> HIDE DEF b
<1>4. ASSUME NEW s \in Symbols PROVE LotTotal(b.lots[s]) <= Most(b.quantity[s], 0)
  <2>1. CASE s = f.symbol
    <3>1. b.lots[s] = LotsAfter(a, f) /\ b.quantity[s] = QuantityAfter(a, f)
      BY <1>1, <1>2, <2>1
    <3> QED  BY <1>3, <3>1
  <2>2. CASE s # f.symbol
    <3>1. b.lots[s] = a.lots[s] /\ b.quantity[s] = a.quantity[s]
      BY <1>1, <1>2, <2>2
    <3> QED  BY <3>1 DEF LotsWithinLong
  <2> QED  BY <2>1, <2>2
<1> QED  BY <1>4 DEF LotsWithinLong, b

LEMMA NoAccountSound == Sound(NoAccount)
<1>1. DebtIsFinanced(NoAccount)
  <2> DEFINE none == [s \in Symbols |-> 0]
             zero == {T \in SUBSET Symbols : SumFunctionOnSet(none, T) = 0}
  <2>1. ASSUME NEW T \in SUBSET Symbols, \A U \in SUBSET T : U # T => U \in zero
        PROVE  T \in zero
    <3>1. CASE T = {}
      BY <3>1, SumEmpty
    <3>2. CASE T # {}
      <4>1. PICK s \in T : TRUE
        BY <3>2
      <4>2. Numeric(none, T)
        BY SymbolsAssumption, FS_Subset DEF Numeric
      <4>3. T \ {s} \in zero /\ none[s] = 0
        BY <2>1, <4>1
      <4>4. SumFunctionOnSet(none, T) = none[s] + SumFunctionOnSet(none, T \ {s})
        BY <4>1, <4>2, SumRemove
      <4> QED  BY <4>3, <4>4
    <3> QED  BY <3>1, <3>2
  <2>2. DOMAIN none = Symbols
    OBVIOUS
  <2>3. NoAccount.borrowedCash = 0 /\ NoAccount.financedAmount = none
    BY DEF NoAccount
  <2> HIDE DEF zero, none
  <2>4. SUBSET Symbols \subseteq zero
    BY <2>1, SymbolsAssumption, SmallerSetsFirst
  <2>5. SumFunction(none) = 0
    BY <2>2, <2>4 DEF zero, SumFunction
  <2> QED  BY <2>3, <2>5 DEF DebtIsFinanced
<1>2. LotsWithinLong(NoAccount)
  <2>1. << >> \in Seq(Lot) /\ Len(<< >>) = 0
    OBVIOUS
  <2>2. LotTotal(<< >>) = 0
    BY <2>1, OldestTotalFacts
  <2> QED  BY <2>2 DEF LotsWithinLong, NoAccount, Most
<1> QED  BY <1>1, <1>2, NoAccountTypes DEF Sound

LEMMA AdjustedSound ==
  ASSUME NEW a, Sound(a), NEW b \in Adjusted(a)
  PROVE  Sound(b)
  BY AdjustedFacts DEF Sound, DebtIsFinanced, LotsWithinLong

LEMMA FillSound ==
  ASSUME NEW f \in Fill, Bookable(f), NEW a, Sound(a)
  PROVE  Sound(AccountAfter(a, f))
  BY FillTypes, FillKeepsDebt, FillKeepsLots DEF Sound

BooksInv == TablesOK /\ EveryAccount(Sound)

\* Whatever is booked, adjusted, lost and reloaded, every account is sound.
THEOREM BooksCorrect == Spec => []BooksInv
<1>1. Init => BooksInv
  <2>1. Empty \in [Strategies -> Account]
        /\ \A st \in Strategies : Empty[st] = NoAccount
    BY NoAccountTypes DEF Empty
  <2> QED  BY <2>1, NoAccountSound DEF Init, NoFile, BooksInv, TablesOK, EveryAccount
<1>2. BooksInv /\ [Next]_vars => BooksInv'
  <2> SUFFICES ASSUME BooksInv, [Next]_vars PROVE BooksInv'
    OBVIOUS
  <2>1. /\ TablesOK
        /\ \A st \in Strategies : Sound(accounts[st]) /\ Sound(file.accounts[st])
        /\ \A st \in Strategies, table \in fetched : Sound(table[st])
    BY DEF BooksInv, EveryAccount
  <2>2. /\ file'.accounts \in [Strategies -> Account]
        /\ \A st \in Strategies : Sound(file'.accounts[st])
        /\ fetched' \subseteq [Strategies -> Account]
        /\ \A st \in Strategies, table \in fetched' : Sound(table[st])
    BY <2>1, FileSteps, NoAccountSound
  <2>3. /\ accounts' \in [Strategies -> Account]
        /\ \A st \in Strategies : Sound(accounts'[st])
    <3>1. CASE Other \/ UNCHANGED vars
      BY <2>1, <3>1, OtherSteps, NoAccountSound, AdjustedSound
    <3>2. ASSUME NEW st \in Strategies, NEW f \in Fills, ApplyFill(st, f)
          PROVE  /\ accounts' \in [Strategies -> Account]
                 /\ \A other \in Strategies : Sound(accounts'[other])
      <4>1. Sound(AccountAfter(accounts[st], f))
        BY <2>1, <3>2, FillSteps, FillSound
      <4> QED  BY <2>1, <3>2, <4>1, FillSteps
    <3> QED  BY <3>1, <3>2 DEF Next
  <2> QED  BY <2>2, <2>3 DEF BooksInv, TablesOK, EveryAccount
<1> QED  BY <1>1, <1>2, PTL DEF Spec

\* The money owed is always the sum of the principals financed symbol by symbol.
THEOREM DebtsAgree == Spec => []FinancedIsBorrowed
<1>1. BooksInv => FinancedIsBorrowed
  BY DEF BooksInv, FinancedIsBorrowed, EveryAccount, Sound
<1> QED  BY <1>1, BooksCorrect, PTL

\* The lots never hold more than the long position.
THEOREM LotsFollowPosition == Spec => []LotsNeverExceedLong
<1>1. BooksInv => LotsNeverExceedLong
  BY DEF BooksInv, LotsNeverExceedLong, EveryAccount, Sound
<1> QED  BY <1>1, BooksCorrect, PTL

\* Every field of every account, lots and realised profit included, stays in its
\* type, and so do the file and the count of amounts booked.
THEOREM TypesCorrect == Spec => []TypeOK
<1> DEFINE Outer == file.state \in {"absent", "torn", "whole"} /\ booked \in 0..MaxBooked
<1>1. Init => Outer
  BY FillsAssumption DEF Init, NoFile
<1>2. Outer /\ [Next]_vars => Outer'
  <2> SUFFICES ASSUME Outer, [Next]_vars PROVE Outer'
    OBVIOUS
  <2>1. file' = file \/ file'.state = "whole" \/ file' = TornFile
    BY DEF Next, Other, Allocate, Reclaim, ReclaimAll, UpdateAvailable, UpdatePrice,
           ApplyFill, Fetch, Swap, Save, Crash, vars
  <2>2. booked' = booked \/ Count
    BY DEF Next, Other, Allocate, Reclaim, ReclaimAll, UpdateAvailable, UpdatePrice,
           ApplyFill, Fetch, Swap, Save, Crash, vars
  <2> QED  BY <2>1, <2>2, FillsAssumption DEF TornFile, Count
<1>3. BooksInv /\ Outer => TypeOK
  BY DEF BooksInv, TablesOK, TypeOK
<1> QED  BY <1>1, <1>2, <1>3, BooksCorrect, PTL DEF Spec

-----------------------------------------------------------------------------
(* A fill moves value, it does not make or lose any. *)

LEMMA FillWorth ==
  ASSUME NEW f \in Fill, Bookable(f), NEW a \in Account
  PROVE  WorthAt(AccountAfter(a, f), f) = WorthAt(a, f) - f.fees
<1> DEFINE held == a.quantity[f.symbol]
<1>1. /\ a.cash \in Int /\ a.borrowedCash \in Nat /\ held \in Int
      /\ f.price \in Nat /\ f.fees \in Nat /\ f.quantity \in Int
      /\ f.symbol \in Symbols
      /\ f.shortSell \in BOOLEAN /\ f.shortCover \in BOOLEAN
  BY DEF Account, Fill
<1>2. /\ Gross(f) \in Nat /\ OwnMoney(f) \in Int /\ Repayment(a, f) \in Nat
      /\ CashDelta(a, f) \in Int /\ DebtDelta(a, f) \in Int
  BY FillFacts, RepaymentBound, MoneyFacts
<1>3. f.quantity * f.price = IF IsBuy(f) THEN Gross(f) ELSE -Gross(f)
  <2>1. CASE f.quantity > 0
    BY <1>1, <2>1 DEF Gross, Size, Magnitude, IsBuy
  <2>2. CASE ~(f.quantity > 0)
    <3>1. f.quantity < 0
      BY <1>1, <2>2 DEF Bookable
    <3>2. Gross(f) = (-f.quantity) * f.price
      BY <3>1 DEF Gross, Size, Magnitude
    <3>3. (-f.quantity) * f.price = -(f.quantity * f.price)
      BY <1>1
    <3>. QED BY <1>1, <1>2, <2>2, <3>2, <3>3 DEF IsBuy
  <2>. QED BY <2>1, <2>2
<1>4. CashDelta(a, f) - DebtDelta(a, f)
        = (IF IsBuy(f) THEN -Gross(f) ELSE Gross(f)) - f.fees
  BY <1>1, <1>2
     DEF CashDelta, DebtDelta, Financed, IsCover, IsOpenBuy, IsShortSell,
         IsPlainSell, IsBuy
<1>5. (held + f.quantity) * f.price = held * f.price + f.quantity * f.price
  BY <1>1
<1>6. WorthAt(AccountAfter(a, f), f)
        = (a.cash + CashDelta(a, f)) - (a.borrowedCash + DebtDelta(a, f))
          + (held + f.quantity) * f.price
  <2> DEFINE b == AccountAfter(a, f)
  <2>1. /\ b.cash = a.cash + CashDelta(a, f)
        /\ b.borrowedCash = a.borrowedCash + DebtDelta(a, f)
    BY DEF AccountAfter
  <2>2. b.quantity[f.symbol] = held + f.quantity
    <3>1. b.quantity = [a.quantity EXCEPT ![f.symbol] = QuantityAfter(a, f)]
      BY DEF AccountAfter
    <3>2. a.quantity \in [Symbols -> Int]
      BY DEF Account
    <3>. QED BY <1>1, <3>1, <3>2 DEF QuantityAfter
  <2>. HIDE DEF b
  <2>3. WorthAt(b, f) = b.cash - b.borrowedCash + b.quantity[f.symbol] * f.price
    BY DEF WorthAt
  <2>4. WorthAt(b, f)
          = (a.cash + CashDelta(a, f)) - (a.borrowedCash + DebtDelta(a, f))
            + (held + f.quantity) * f.price
    BY <2>1, <2>2, <2>3
  <2>. QED BY <2>4 DEF b
<1>7. WorthAt(a, f) = a.cash - a.borrowedCash + held * f.price
  BY DEF WorthAt
<1>8. \A c, b, h, v, cd, dd \in Int :
        (c + cd) - (b + dd) + (h + v) = (c - b + h) + (cd - dd + v)
  OBVIOUS
<1>9. /\ held * f.price \in Int
      /\ f.quantity * f.price \in Int
      /\ CashDelta(a, f) - DebtDelta(a, f) + f.quantity * f.price = -f.fees
  BY <1>1, <1>2, <1>3, <1>4
<1>10. WorthAt(AccountAfter(a, f), f)
         = (a.cash - a.borrowedCash + held * f.price)
           + (CashDelta(a, f) - DebtDelta(a, f) + f.quantity * f.price)
  BY <1>1, <1>2, <1>5, <1>6, <1>8, <1>9
<1>11. WorthAt(AccountAfter(a, f), f)
         = (a.cash - a.borrowedCash + held * f.price) - f.fees
  BY <1>1, <1>9, <1>10
<1>. QED BY <1>7, <1>11

\* Every fill, disciplined or not, changes what its account is worth at the
\* price of the fill by exactly its fees.
THEOREM FillsConserveValue == Spec => FillConservesValue
<1>1. ASSUME BooksInv, NEW st \in Strategies, NEW f \in Fills, ApplyFill(st, f)
      PROVE  WorthAt(accounts'[st], f) = WorthAt(accounts[st], f) - f.fees
  <2>1. TablesOK /\ accounts[st] \in Account
    BY <1>1 DEF BooksInv, TablesOK
  <2> QED  BY <1>1, <2>1, FillSteps, FillWorth
<1>2. BooksInv =>
        [\A st \in Strategies, f \in Fills :
           ApplyFill(st, f) =>
             WorthAt(accounts'[st], f) = WorthAt(accounts[st], f) - f.fees]_vars
  BY <1>1
<1> QED  BY <1>2, BooksCorrect, PTL DEF FillConservesValue

-----------------------------------------------------------------------------
(* Booking a fill and restoring it from a log. *)

LEMMA RestoreMatches ==
  ASSUME NEW f \in Fill, Bookable(f), NEW a \in Account
  PROVE  SamePositions(RestoreOne(a, SignedEntry(f)), AccountAfter(a, f))
<1> DEFINE r == SignedEntry(f)
<1>1. /\ r.symbol = f.symbol /\ r.quantity = f.quantity /\ r.price = f.price
      /\ r.isOpen = (IsOpenBuy(f) \/ IsShortSell(f))
  BY DEF SignedEntry
<1>2. f.quantity \in Int /\ f.quantity # 0 /\ f.symbol \in Symbols
  BY DEF Fill, Bookable
<1> HIDE DEF r
<1>3. Size(r) = Size(f) /\ QuantityAfter(a, r) = QuantityAfter(a, f)
  BY <1>1 DEF Size, QuantityAfter
<1>4. CloseQty(a, r) = CloseQty(a, f)
  BY <1>1, <1>3 DEF CloseQty
<1>5. OpenQty(a, r) = OpenQty(a, f)
  BY <1>3, <1>4 DEF OpenQty
<1>6. AvgPriceAfter(a, r) = AvgPriceAfter(a, f)
  BY <1>1, <1>3, <1>5 DEF AvgPriceAfter
<1>7. ClosedLots(a, r) = ClosedLots(a, f)
  BY <1>1, <1>4 DEF ClosedLots
<1>8. RestoredLots(a, r) = LotsAfter(a, f)
  <2>1. f.quantity > 0 => (r.isOpen <=> IsOpenBuy(f))
    BY <1>1 DEF IsOpenBuy, IsShortSell, IsBuy
  <2>2. IsOpenBuy(f) => f.quantity > 0
    BY DEF IsOpenBuy, IsBuy
  <2>3. f.quantity > 0 /\ QuantityAfter(a, f) > 0 => OpenQty(a, f) > 0
    <3>1. a.quantity[f.symbol] \in Int
      BY <1>2 DEF Account
    <3> QED  BY <1>2, <3>1, CloseFacts DEF QuantityAfter, Most
  <2> QED  BY <1>1, <1>3, <1>5, <1>7, <2>1, <2>2, <2>3 DEF RestoredLots, LotsAfter
<1>9. /\ RestoreOne(a, r).quantity = [a.quantity EXCEPT ![f.symbol] = QuantityAfter(a, f)]
      /\ RestoreOne(a, r).avgPrice = [a.avgPrice EXCEPT ![f.symbol] = AvgPriceAfter(a, f)]
      /\ RestoreOne(a, r).lots = [a.lots EXCEPT ![f.symbol] = LotsAfter(a, f)]
  <2>1. RestoreOne(a, r) =
          [ a EXCEPT !.quantity[f.symbol] = QuantityAfter(a, f),
                     !.avgPrice[f.symbol] = AvgPriceAfter(a, f),
                     !.lots[f.symbol] = LotsAfter(a, f) ]
    BY <1>1, <1>2, <1>3, <1>6, <1>8 DEF RestoreOne
  <2> QED  BY <2>1 DEF Account
<1> QED  BY <1>9 DEF SamePositions, AccountAfter, r

\* Restoring a fill from a log, whatever the account has been through, leaves
\* the positions, average prices and lots that booking it left.
THEOREM RestoringIsBooking == Spec => RestoringAgrees
<1>1. ASSUME BooksInv, NEW st \in Strategies, NEW f \in Fills, ApplyFill(st, f)
      PROVE  SamePositions(RestoreOne(accounts[st], SignedEntry(f)), accounts'[st])
  <2>1. TablesOK /\ accounts[st] \in Account
    BY <1>1 DEF BooksInv, TablesOK
  <2> QED  BY <1>1, <2>1, FillSteps, RestoreMatches
<1>2. BooksInv =>
        [\A st \in Strategies, f \in Fills :
           ApplyFill(st, f) =>
             SamePositions(RestoreOne(accounts[st], SignedEntry(f)), accounts'[st])]_vars
  BY <1>1
<1> QED  BY <1>2, BooksCorrect, PTL DEF RestoringAgrees

-----------------------------------------------------------------------------
(* Disciplined fills. *)

\* A behaviour of disciplined fills is a behaviour of the ledger.
LEMMA DisciplineIsSpec == DisciplinedSpec => Spec
<1>1. DisciplinedNext => Next
  BY DEF DisciplinedNext, DisciplinedFill, Next
<1>2. [DisciplinedNext]_vars => [Next]_vars
  BY <1>1
<1>. QED BY <1>2, PTL DEF DisciplinedSpec, Spec

LEMMA FillKeepsShortOnLoan ==
  ASSUME NEW f \in Fill, Bookable(f), NEW a \in Account, ShortOnLoan(a), Fits(a, f)
  PROVE  ShortOnLoan(AccountAfter(a, f))
<1> DEFINE held == a.quantity[f.symbol]
           loan == a.borrowedShares[f.symbol]
           b == AccountAfter(a, f)
<1>1. /\ f.symbol \in Symbols /\ f.quantity \in Int /\ f.quantity # 0
      /\ held \in Int /\ loan \in Nat /\ loan = Most(-held, 0)
      /\ a.quantity \in [Symbols -> Int] /\ a.borrowedShares \in [Symbols -> Nat]
      /\ f.shortSell \in BOOLEAN /\ f.shortCover \in BOOLEAN
  BY DEF Fill, Bookable, Account, ShortOnLoan
<1>2. /\ b.quantity = [a.quantity EXCEPT ![f.symbol] = held + f.quantity]
      /\ b.borrowedShares
           = [a.borrowedShares EXCEPT ![f.symbol] = BorrowedSharesAfter(a, f)]
  BY DEF AccountAfter, QuantityAfter
<1>3. BorrowedSharesAfter(a, f) = Most(-(held + f.quantity), 0)
  <2>1. CASE IsCover(f)
    <3>1. f.quantity > 0 /\ Size(f) = f.quantity
      BY <1>1, <2>1 DEF IsCover, IsBuy, Size, Magnitude
    <3>2. f.quantity <= -held
      BY <2>1, <3>1 DEF Fits
    <3>3. BorrowedSharesAfter(a, f) = Most(loan - f.quantity, 0)
      BY <2>1, <3>1 DEF BorrowedSharesAfter, IsCover, IsShortSell
    <3>. HIDE DEF held, loan
    <3>. QED BY <1>1, <3>1, <3>2, <3>3 DEF Most
  <2>2. CASE IsOpenBuy(f)
    <3>1. f.quantity > 0 /\ held >= 0
      BY <2>2 DEF Fits, IsOpenBuy, IsBuy
    <3>2. BorrowedSharesAfter(a, f) = loan
      BY <2>2 DEF BorrowedSharesAfter, IsOpenBuy, IsCover, IsShortSell
    <3>. HIDE DEF held, loan
    <3>. QED BY <1>1, <3>1, <3>2 DEF Most
  <2>3. CASE IsShortSell(f)
    <3>1. f.quantity < 0 /\ Size(f) = -f.quantity
      BY <1>1, <2>3 DEF IsShortSell, IsBuy, Size, Magnitude
    <3>2. held <= 0
      BY <2>3 DEF Fits
    <3>3. BorrowedSharesAfter(a, f) = loan + (-f.quantity)
      BY <2>3, <3>1 DEF BorrowedSharesAfter, IsCover, IsShortSell
    <3>. HIDE DEF held, loan
    <3>. QED BY <1>1, <3>1, <3>2, <3>3 DEF Most
  <2>4. CASE IsPlainSell(f)
    <3>1. f.quantity < 0 /\ Size(f) = -f.quantity
      BY <1>1, <2>4 DEF IsPlainSell, IsBuy, Size, Magnitude
    <3>2. -f.quantity <= held
      BY <2>4, <3>1 DEF Fits
    <3>3. BorrowedSharesAfter(a, f) = loan
      BY <2>4 DEF BorrowedSharesAfter, IsPlainSell, IsCover, IsShortSell
    <3>. HIDE DEF held, loan
    <3>. QED BY <1>1, <3>1, <3>2, <3>3 DEF Most
  <2>. QED BY <2>1, <2>2, <2>3, <2>4
           DEF IsCover, IsOpenBuy, IsShortSell, IsPlainSell
<1>4. ASSUME NEW s \in Symbols
      PROVE  b.borrowedShares[s] = Most(-b.quantity[s], 0)
  <2>. HIDE DEF b
  <2>1. CASE s = f.symbol
    BY <1>1, <1>2, <1>3, <2>1
  <2>2. CASE s # f.symbol
    <3>1. a.borrowedShares[s] = Most(-a.quantity[s], 0)
      BY DEF ShortOnLoan
    <3>. QED BY <1>1, <1>2, <2>2, <3>1
  <2>. QED BY <2>1, <2>2
<1>. QED BY <1>4 DEF ShortOnLoan

LEMMA NoAccountShortOnLoan == ShortOnLoan(NoAccount)
  BY DEF ShortOnLoan, NoAccount, Most

\* Selling the whole position repays the whole principal.
LEMMA WholeShare ==
  ASSUME NEW owed \in Nat, NEW held \in Nat \ {0}
  PROVE  (owed * held) \div held = owed
  OBVIOUS

LEMMA FillKeepsSettled ==
  ASSUME NEW f \in Fill, Bookable(f), NEW a, Sound(a), SettledWhenFlat(a), Fits(a, f)
  PROVE  SettledWhenFlat(AccountAfter(a, f))
<1> DEFINE held == a.quantity[f.symbol]
           owed == a.financedAmount[f.symbol]
           b == AccountAfter(a, f)
<1>1. /\ a \in Account /\ f.symbol \in Symbols /\ f.quantity \in Int /\ f.quantity # 0
      /\ held \in Int /\ owed \in Nat /\ a.borrowedCash \in Nat
      /\ a.quantity \in [Symbols -> Int] /\ a.financedAmount \in [Symbols -> Nat]
      /\ owed > 0 => held > 0
  BY DEF Fill, Bookable, Sound, Account, SettledWhenFlat
<1>2. /\ b.quantity = [a.quantity EXCEPT ![f.symbol] = held + f.quantity]
      /\ b.financedAmount = [a.financedAmount EXCEPT ![f.symbol] = owed + DebtDelta(a, f)]
  BY DEF AccountAfter, QuantityAfter
<1>3. owed <= a.borrowedCash
  BY <1>1, SymbolsAssumption, SumBounds DEF Sound, DebtIsFinanced
<1> HIDE DEF held, owed
<1>4. owed + DebtDelta(a, f) > 0 => held + f.quantity > 0
  <2>1. CASE IsCover(f)
    <3>1. f.quantity > 0 /\ f.quantity <= -held
      BY <1>1, <2>1 DEF IsCover, IsBuy, Fits, Size, Magnitude, held
    <3>2. DebtDelta(a, f) = 0
      BY <2>1 DEF DebtDelta, IsCover, IsOpenBuy, IsPlainSell
    <3> QED  BY <1>1, <3>1, <3>2
  <2>2. CASE IsOpenBuy(f)
    <3>1. f.quantity > 0 /\ held >= 0
      BY <2>2 DEF Fits, IsOpenBuy, IsBuy, held
    <3> QED  BY <1>1, <3>1
  <2>3. CASE IsShortSell(f)
    <3>1. held <= 0
      BY <2>3 DEF Fits, held
    <3>2. DebtDelta(a, f) = 0
      BY <2>3 DEF DebtDelta, IsShortSell, IsOpenBuy, IsPlainSell
    <3> QED  BY <1>1, <3>1, <3>2
  <2>4. CASE IsPlainSell(f)
    <3>1. f.quantity < 0 /\ Size(f) = -f.quantity /\ Size(f) <= held
      BY <1>1, <2>4 DEF IsPlainSell, IsBuy, Size, Magnitude, Fits, held
    <3>2. DebtDelta(a, f) = -Repayment(a, f)
      BY <2>4 DEF DebtDelta, IsPlainSell, IsOpenBuy
    <3>3. CASE Size(f) = held /\ owed > 0
      <4>1. held \in Nat \ {0}
        BY <1>1, <3>3
      <4>2. (owed * held) \div held = owed
        BY <1>1, <4>1, WholeShare
      <4>3. Repayment(a, f) = Least(Least((owed * held) \div held, owed), a.borrowedCash)
        BY <3>3, <4>1 DEF Repayment, owed, held
      <4>4. Repayment(a, f) = owed
        BY <1>1, <1>3, <4>2, <4>3 DEF Least
      <4> QED  BY <1>1, <3>2, <4>4
    <3>4. CASE Size(f) = held /\ ~(owed > 0)
      <4>1. Repayment(a, f) = 0
        BY <3>4 DEF Repayment, owed
      <4> QED  BY <1>1, <3>2, <3>4, <4>1
    <3>5. CASE Size(f) # held
      BY <1>1, <3>1, <3>5
    <3> QED  BY <3>3, <3>4, <3>5
  <2> QED  BY <2>1, <2>2, <2>3, <2>4 DEF IsCover, IsOpenBuy, IsShortSell, IsPlainSell
<1> HIDE DEF b
<1>5. ASSUME NEW s \in Symbols, b.financedAmount[s] > 0 PROVE b.quantity[s] > 0
  <2>1. CASE s = f.symbol
    BY <1>1, <1>2, <1>4, <1>5, <2>1
  <2>2. CASE s # f.symbol
    <3>1. b.financedAmount[s] = a.financedAmount[s] /\ b.quantity[s] = a.quantity[s]
      BY <1>1, <1>2, <2>2
    <3> QED  BY <1>5, <3>1 DEF SettledWhenFlat
  <2> QED  BY <2>1, <2>2
<1> QED  BY <1>5 DEF SettledWhenFlat, b

LEMMA ConcatFacts ==
  ASSUME NEW s \in Seq(Nat), NEW t \in Seq(Nat)
  PROVE  /\ Len(s \o t) = Len(s) + Len(t)
         /\ \A j \in 1..(Len(s) + Len(t)) :
              (s \o t)[j] = IF j <= Len(s) THEN s[j] ELSE t[j - Len(s)]
  OBVIOUS

\* What a fill that fits does to the shares, and what those cost that it sells.
LEMMA SharesAfterFill ==
  ASSUME NEW f \in Fill, Bookable(f), NEW a \in Account, Fits(a, f)
  PROVE  LET owned == SharesOf(a.lots[f.symbol])
         IN  /\ IsOpenBuy(f) =>
                  SharesOf(LotsAfter(a, f)) = owned \o Alike(Size(f), f.price)
             /\ IsPlainSell(f) /\ Size(f) <= LotTotal(a.lots[f.symbol]) =>
                  /\ SharesOf(LotsAfter(a, f)) = Kept(owned, Size(f))
                  /\ ClosedCost(a, f) = SumFunction(Taken(owned, Size(f)))
             /\ IsShortSell(f) \/ IsCover(f) => SharesOf(LotsAfter(a, f)) = owned
<1> DEFINE held == a.quantity[f.symbol]
           batch == a.lots[f.symbol]
           owned == SharesOf(batch)
           rest == ClosedLots(a, f).batch
           sold == IF held > 0 THEN CloseQty(a, f) ELSE 0
           lot == [quantity |-> OpenQty(a, f), price |-> f.price]
<1>1. /\ held \in Int /\ f.quantity \in Int /\ f.quantity # 0 /\ f.price \in Nat
      /\ batch \in Seq(Lot) /\ Size(f) = Magnitude(f.quantity)
      /\ QuantityAfter(a, f) = held + f.quantity
  BY DEF Fill, Account, Bookable, Size, QuantityAfter
<1>2. /\ CloseQty(a, f) \in 0..Size(f)
      /\ held > 0 => CloseQty(a, f) = IF f.quantity > 0 THEN 0
                                      ELSE Least(Size(f), held)
  BY CloseFacts
<1>3. sold \in Nat /\ ClosedLots(a, f) = ConsumeLots(batch, sold)
  BY <1>1, <1>2 DEF Magnitude, ClosedLots
<1>4. /\ SharesOf(rest) = Kept(owned, sold)
      /\ sold <= LotTotal(batch) =>
           ClosedLots(a, f).cost = SumFunction(Taken(owned, sold))
  <2> HIDE DEF sold
  <2> QED  BY <1>1, <1>3, ConsumeShares
<1>5. rest \in Seq(Lot)
  <2> HIDE DEF sold
  <2> QED  BY <1>1, <1>3, ConsumeFacts DEF Drawn
<1>6. owned \in Seq(Nat) /\ Kept(owned, 0) = owned
  <2>1. owned \in Seq(Nat)
    BY <1>1, SharesTypes
  <2> HIDE DEF owned
  <2> QED  BY <2>1 DEF Kept
<1>7. LotsAfter(a, f) =
        IF IsOpenBuy(f) /\ OpenQty(a, f) > 0 /\ QuantityAfter(a, f) > 0
        THEN Append(rest, lot) ELSE rest
  BY DEF LotsAfter
<1> HIDE DEF batch, owned, rest
<1>8. CASE IsOpenBuy(f)
  <2>1. f.quantity > 0 /\ held >= 0 /\ Size(f) = f.quantity
    BY <1>1, <1>8 DEF IsOpenBuy, IsBuy, Fits, Magnitude
  <2>2. CloseQty(a, f) = 0
    BY <1>1, <1>2, <2>1 DEF CloseQty, SameSide
  <2>3. sold = 0 /\ OpenQty(a, f) = Size(f) /\ OpenQty(a, f) \in Nat \ {0}
        /\ QuantityAfter(a, f) > 0
    BY <1>1, <2>1, <2>2 DEF OpenQty
  <2>4. LotsAfter(a, f) = Append(rest, lot) /\ lot \in Lot
    BY <1>1, <1>7, <1>8, <2>3 DEF Lot
  <2>5. SharesOf(LotsAfter(a, f)) = SharesOf(rest) \o SharesOfLot(lot)
    BY <1>5, <2>4, SharesAppend
  <2>6. SharesOfLot(lot) = Alike(Size(f), f.price)
    BY <2>3 DEF SharesOfLot, Alike
  <2> QED  BY <1>4, <1>6, <1>8, <2>3, <2>5, <2>6
           DEF IsOpenBuy, IsPlainSell, IsShortSell, IsCover, owned, batch
<1>9. CASE IsPlainSell(f)
  <2>1. f.quantity < 0 /\ held > 0 /\ Size(f) <= held /\ ~IsOpenBuy(f)
    BY <1>1, <1>9 DEF IsPlainSell, IsOpenBuy, IsBuy, Fits, Magnitude
  <2>2. sold = Size(f)
    BY <1>1, <1>2, <2>1 DEF Least, Magnitude
  <2>3. ClosedCost(a, f) = ClosedLots(a, f).cost
    BY <2>1 DEF ClosedCost
  <2> QED  BY <1>4, <1>7, <1>9, <2>1, <2>2, <2>3
           DEF IsOpenBuy, IsPlainSell, IsShortSell, IsCover, owned, batch
<1>10. CASE IsShortSell(f) \/ IsCover(f)
  <2>1. held <= 0 /\ ~IsOpenBuy(f) /\ ~IsPlainSell(f)
    BY <1>1, <1>10 DEF IsShortSell, IsCover, IsOpenBuy, IsPlainSell, IsBuy, Fits, Magnitude
  <2>2. sold = 0
    BY <1>1, <2>1
  <2> QED  BY <1>4, <1>6, <1>7, <2>1, <2>2 DEF owned, batch
<1> QED  BY <1>8, <1>9, <1>10 DEF IsCover, IsOpenBuy, IsShortSell, IsPlainSell

\* Under disciplined fills the lots hold the shares of the long position, each
\* bought at a price.
SharesAreHeld(a) ==
  \A s \in Symbols :
    /\ LotTotal(a.lots[s]) = Most(a.quantity[s], 0)
    /\ \A j \in 1..LotTotal(a.lots[s]) : SharesOf(a.lots[s])[j] > 0

LEMMA FillKeepsShares ==
  ASSUME NEW f \in Fill, Bookable(f), NEW a \in Account, SharesAreHeld(a), Fits(a, f)
  PROVE  SharesAreHeld(AccountAfter(a, f))
<1> DEFINE held == a.quantity[f.symbol]
           owned == SharesOf(a.lots[f.symbol])
           after == SharesOf(LotsAfter(a, f))
           b == AccountAfter(a, f)
<1>1. /\ held \in Int /\ f.quantity \in Int /\ f.quantity # 0
      /\ f.price \in Nat /\ f.price > 0 /\ Size(f) \in Nat \ {0}
      /\ Size(f) = Magnitude(f.quantity)
      /\ QuantityAfter(a, f) = held + f.quantity
      /\ f.symbol \in Symbols /\ a.quantity \in [Symbols -> Int]
      /\ a.lots \in [Symbols -> Seq(Lot)]
  BY FillFacts DEF Fill, Account, Bookable, Size, QuantityAfter
<1>2. /\ owned \in Seq(Nat) /\ Len(owned) = Most(held, 0)
      /\ \A j \in 1..Len(owned) : owned[j] > 0
  <2>1. a.lots[f.symbol] \in Seq(Lot)
    BY <1>1
  <2> QED  BY <1>1, <2>1, SharesTypes DEF SharesAreHeld
<1>3. LotsAfter(a, f) \in Seq(Lot)
  BY LotFacts
<1>4. after \in Seq(Nat) /\ Len(after) = LotTotal(LotsAfter(a, f))
  BY <1>3, SharesTypes
<1>5. Size(f) <= Len(owned) => Size(f) <= LotTotal(a.lots[f.symbol])
  BY <1>1, SharesTypes
<1>6. /\ Len(after) = Most(held + f.quantity, 0)
      /\ \A j \in 1..Len(after) : after[j] > 0
  <2> HIDE DEF owned, after, held
  <2>1. CASE IsOpenBuy(f)
    <3>1. f.quantity > 0 /\ held >= 0 /\ Size(f) = f.quantity
      BY <1>1, <2>1 DEF IsOpenBuy, IsBuy, Fits, Magnitude, held
    <3> DEFINE new == Alike(Size(f), f.price)
    <3>2. after = owned \o new
      BY <2>1, SharesAfterFill DEF owned, after
    <3>3. new \in Seq(Nat) /\ Len(new) = Size(f) /\ \A j \in 1..Size(f) : new[j] = f.price
      BY <1>1, AlikeFacts
    <3> HIDE DEF new
    <3>4. /\ Len(owned \o new) = Len(owned) + Len(new)
          /\ \A j \in 1..(Len(owned) + Len(new)) :
               (owned \o new)[j] = IF j <= Len(owned) THEN owned[j]
                                   ELSE new[j - Len(owned)]
      BY <1>2, <3>3, ConcatFacts
    <3>5. Len(owned) = held /\ Len(after) = held + f.quantity
      BY <1>1, <1>2, <3>1, <3>2, <3>3, <3>4 DEF Most
    <3>6. ASSUME NEW j \in 1..Len(after) PROVE after[j] > 0
      <4>1. j > Len(owned) => j - Len(owned) \in 1..Size(f)
        BY <1>1, <3>1, <3>5
      <4>2. j <= Len(owned) => j \in 1..Len(owned)
        BY <1>1, <3>1, <3>5
      <4>3. after[j] = IF j <= Len(owned) THEN owned[j] ELSE new[j - Len(owned)]
        BY <1>1, <3>1, <3>2, <3>3, <3>4
      <4> QED  BY <1>1, <1>2, <3>3, <3>5, <4>1, <4>2, <4>3
    <3> QED  BY <1>1, <3>1, <3>5, <3>6 DEF Most
  <2>2. CASE IsPlainSell(f)
    <3>1. f.quantity < 0 /\ Size(f) = -f.quantity /\ Size(f) <= held
      BY <1>1, <2>2 DEF IsPlainSell, IsBuy, Fits, Magnitude, held
    <3>2. Len(owned) = held /\ Size(f) \in 0..Len(owned)
      BY <1>1, <1>2, <3>1 DEF Most
    <3>3. after = Kept(owned, Size(f))
      BY <1>5, <2>2, <3>1, <3>2, SharesAfterFill DEF owned, after
    <3>4. /\ Len(after) = held - Size(f)
          /\ \A j \in 1..(held - Size(f)) : after[j] = owned[Size(f) + j]
      BY <1>2, <3>2, <3>3, PartFacts
    <3>5. \A j \in 1..(held - Size(f)) : Size(f) + j \in 1..Len(owned)
      BY <1>1, <3>1, <3>2
    <3>6. Most(held + f.quantity, 0) = held - Size(f)
      BY <1>1, <3>1 DEF Most
    <3>7. \A j \in 1..(held - Size(f)) : after[j] > 0
      BY <1>2, <3>4, <3>5
    <3> QED  BY <3>4, <3>6, <3>7
  <2>3. CASE IsShortSell(f) \/ IsCover(f)
    <3>1. held <= 0 /\ held + f.quantity <= 0
      BY <1>1, <2>3 DEF IsShortSell, IsCover, IsBuy, Fits, Magnitude, held
    <3>2. after = owned
      BY <2>3, SharesAfterFill DEF owned, after
    <3>3. Most(held, 0) = 0 /\ Most(held + f.quantity, 0) = 0
      BY <1>1, <3>1 DEF Most
    <3> QED  BY <1>2, <3>2, <3>3
  <2> QED  BY <2>1, <2>2, <2>3 DEF IsCover, IsOpenBuy, IsShortSell, IsPlainSell
<1>7. /\ b.quantity = [a.quantity EXCEPT ![f.symbol] = held + f.quantity]
      /\ b.lots = [a.lots EXCEPT ![f.symbol] = LotsAfter(a, f)]
  BY DEF AccountAfter, QuantityAfter
<1> HIDE DEF b
<1>8. ASSUME NEW s \in Symbols
      PROVE  /\ LotTotal(b.lots[s]) = Most(b.quantity[s], 0)
             /\ \A j \in 1..LotTotal(b.lots[s]) : SharesOf(b.lots[s])[j] > 0
  <2>1. CASE s = f.symbol
    <3>1. b.quantity[s] = held + f.quantity /\ b.lots[s] = LotsAfter(a, f)
      BY <1>1, <1>7, <2>1
    <3> QED  BY <1>4, <1>6, <3>1
  <2>2. CASE s # f.symbol
    <3>1. b.quantity[s] = a.quantity[s] /\ b.lots[s] = a.lots[s]
      BY <1>1, <1>7, <2>2
    <3> QED  BY <3>1 DEF SharesAreHeld
  <2> QED  BY <2>1, <2>2
<1> QED  BY <1>8 DEF SharesAreHeld, b

\* What is true of every account under disciplined fills.
Tidy(a) == ShortOnLoan(a) /\ SettledWhenFlat(a) /\ SharesAreHeld(a)
TidyInv == EveryAccount(Tidy)

LEMMA NoAccountTidy == Tidy(NoAccount)
<1>1. << >> \in Seq(Lot) /\ Len(<< >>) = 0
  OBVIOUS
<1>2. LotTotal(<< >>) = 0
  BY <1>1, OldestTotalFacts
<1>3. SharesAreHeld(NoAccount)
  BY <1>2 DEF SharesAreHeld, NoAccount, Most
<1> QED  BY <1>3, NoAccountShortOnLoan DEF Tidy, SettledWhenFlat, NoAccount

\* Under disciplined fills the shares owed are the short position, and what is
\* financed on a symbol is settled when its long position is closed.
THEOREM DisciplineKeepsTidy == DisciplinedSpec => []TidyInv
<1>1. Init => TidyInv
  <2>1. \A st \in Strategies : Empty[st] = NoAccount
    BY DEF Empty
  <2> QED  BY <2>1, NoAccountTidy DEF Init, NoFile, TidyInv, EveryAccount
<1>2. BooksInv /\ TidyInv /\ [DisciplinedNext]_vars => TidyInv'
  <2> SUFFICES ASSUME BooksInv, TidyInv, [DisciplinedNext]_vars PROVE TidyInv'
    OBVIOUS
  <2>1. /\ TablesOK
        /\ \A st \in Strategies :
             /\ Sound(accounts[st]) /\ accounts[st] \in Account
             /\ Tidy(accounts[st]) /\ Tidy(file.accounts[st])
             /\ \A table \in fetched : Tidy(table[st])
    BY DEF BooksInv, TidyInv, EveryAccount, Sound
  <2>2. [Next]_vars
    BY DEF DisciplinedNext, DisciplinedFill, Next
  <2>3. \A st \in Strategies :
          Tidy(file'.accounts[st]) /\ \A table \in fetched' : Tidy(table[st])
    BY <2>1, <2>2, FileSteps, NoAccountTidy
  <2>4. \A st \in Strategies : Tidy(accounts'[st])
    <3>1. CASE Other \/ UNCHANGED vars
      <4>2. ASSUME NEW st \in Strategies, accounts'[st] \in Adjusted(accounts[st])
            PROVE  Tidy(accounts'[st])
        <5>1. accounts[st] \in Account /\ Tidy(accounts[st])
          BY <2>1
        <5> QED  BY <4>2, <5>1, AdjustedFacts
                 DEF Tidy, ShortOnLoan, SettledWhenFlat, SharesAreHeld
      <4>3. ASSUME NEW st \in Strategies
            PROVE  \/ accounts'[st] \in Adjusted(accounts[st])
                   \/ accounts'[st] \in {accounts[st], NoAccount}
                   \/ \E table \in fetched : accounts'[st] = table[st]
        BY <2>1, <3>1, OtherSteps
      <4>4. ASSUME NEW st \in Strategies, NEW table \in fetched,
                   accounts'[st] = table[st]
            PROVE  Tidy(accounts'[st])
        BY <2>1, <4>4
      <4>5. ASSUME NEW st \in Strategies, accounts'[st] \in {accounts[st], NoAccount}
            PROVE  Tidy(accounts'[st])
        BY <2>1, <4>5, NoAccountTidy
      <4> QED  BY <4>2, <4>3, <4>4, <4>5
    <3>2. ASSUME NEW st \in Strategies, NEW f \in Fills, DisciplinedFill(st, f)
          PROVE  \A other \in Strategies : Tidy(accounts'[other])
      <4>1. ApplyFill(st, f) /\ Fits(accounts[st], f)
        BY <3>2 DEF DisciplinedFill
      <4>2. /\ f \in Fill /\ Bookable(f)
            /\ accounts'[st] = AccountAfter(accounts[st], f)
            /\ \A other \in Strategies \ {st} : accounts'[other] = accounts[other]
        BY <2>1, <4>1, FillSteps
      <4>3. Tidy(accounts'[st])
        BY <2>1, <4>1, <4>2, FillKeepsShortOnLoan, FillKeepsSettled, FillKeepsShares DEF Tidy
      <4> QED  BY <2>1, <4>2, <4>3
    <3> QED  BY <3>1, <3>2 DEF DisciplinedNext
  <2> QED  BY <2>3, <2>4 DEF TidyInv, EveryAccount
<1>3. DisciplinedSpec => []BooksInv
  BY DisciplineIsSpec, BooksCorrect, PTL
<1> QED  BY <1>1, <1>2, <1>3, PTL DEF DisciplinedSpec

\* As long as callers report fills that fit the position, the shares an account
\* owes are exactly its short positions, in memory and in the saved file.
THEOREM LoansMatchShorts == DisciplinedSpec => []BorrowedSharesAreShort
<1>1. TidyInv => BorrowedSharesAreShort
  BY DEF TidyInv, BorrowedSharesAreShort, EveryAccount, Tidy
<1> QED  BY <1>1, DisciplineKeepsTidy, PTL

\* As long as callers report fills that fit the position, nothing stays financed
\* on a symbol whose long position is closed.
THEOREM ClosedIsSettled == DisciplinedSpec => []FinancedOnlyWhileLong
<1>1. TidyInv => FinancedOnlyWhileLong
  BY DEF TidyInv, FinancedOnlyWhileLong, EveryAccount, Tidy
<1> QED  BY <1>1, DisciplineKeepsTidy, PTL

-----------------------------------------------------------------------------
(* The book an account stands for, after a fill that fits. *)

ABook(net, realised, owned, short) ==
  [net |-> net, realised |-> realised, owned |-> owned, short |-> short]

LEMMA BookAfterFill ==
  ASSUME NEW f \in Fill, Bookable(f), NEW a \in Account
  PROVE  BookOf(AccountAfter(a, f)) =
           ABook((a.cash - a.borrowedCash) + (CashDelta(a, f) - DebtDelta(a, f)),
                 a.profit + RealisedProfit(a, f),
                 [BookOf(a).owned EXCEPT ![f.symbol] = SharesOf(LotsAfter(a, f))],
                 [BookOf(a).short EXCEPT ![f.symbol] =
                    [ units |-> BorrowedSharesAfter(a, f),
                      proceeds |-> BorrowedSharesAfter(a, f) * AvgPriceAfter(a, f) ]])
<1> DEFINE b == AccountAfter(a, f)
<1>1. /\ a.cash \in Int /\ a.borrowedCash \in Nat /\ f.symbol \in Symbols
      /\ a.lots \in [Symbols -> Seq(Lot)] /\ a.avgPrice \in [Symbols -> Nat]
      /\ a.borrowedShares \in [Symbols -> Nat]
  BY DEF Account, Fill
<1>2. CashDelta(a, f) \in Int /\ DebtDelta(a, f) \in Int
  BY MoneyFacts
<1>3. /\ b.cash = a.cash + CashDelta(a, f)
      /\ b.borrowedCash = a.borrowedCash + DebtDelta(a, f)
      /\ b.profit = a.profit + RealisedProfit(a, f)
      /\ b.lots = [a.lots EXCEPT ![f.symbol] = LotsAfter(a, f)]
      /\ b.avgPrice = [a.avgPrice EXCEPT ![f.symbol] = AvgPriceAfter(a, f)]
      /\ b.borrowedShares =
           [a.borrowedShares EXCEPT ![f.symbol] = BorrowedSharesAfter(a, f)]
  BY DEF AccountAfter
<1> HIDE DEF b
<1>4. b.cash - b.borrowedCash =
        (a.cash - a.borrowedCash) + (CashDelta(a, f) - DebtDelta(a, f))
  BY <1>1, <1>2, <1>3
<1>5. [s \in Symbols |-> SharesOf(b.lots[s])] =
        [[s \in Symbols |-> SharesOf(a.lots[s])] EXCEPT
           ![f.symbol] = SharesOf(LotsAfter(a, f))]
  BY <1>1, <1>3
<1>6. [s \in Symbols |-> [ units |-> b.borrowedShares[s],
                           proceeds |-> b.borrowedShares[s] * b.avgPrice[s] ]] =
        [[s \in Symbols |-> [ units |-> a.borrowedShares[s],
                              proceeds |-> a.borrowedShares[s] * a.avgPrice[s] ]] EXCEPT
           ![f.symbol] = [ units |-> BorrowedSharesAfter(a, f),
                           proceeds |-> BorrowedSharesAfter(a, f) * AvgPriceAfter(a, f) ]]
  BY <1>1, <1>3
<1>7. /\ BookOf(a).owned = [s \in Symbols |-> SharesOf(a.lots[s])]
      /\ BookOf(a).short = [s \in Symbols |->
           [ units |-> a.borrowedShares[s],
             proceeds |-> a.borrowedShares[s] * a.avgPrice[s] ]]
  BY DEF BookOf
<1> QED  BY <1>3, <1>4, <1>5, <1>6, <1>7 DEF BookOf, ABook, b

\* Whoever owes what, a buy takes its gross and its fees out of the net money,
\* and a sale puts in its gross less its fees.
LEMMA NetFacts ==
  ASSUME NEW f \in Fill, Bookable(f), NEW a \in Account
  PROVE  CashDelta(a, f) - DebtDelta(a, f) =
           (IF IsBuy(f) THEN -Gross(f) ELSE Gross(f)) - f.fees
<1>1. /\ Gross(f) \in Nat /\ OwnMoney(f) \in 0..Gross(f) /\ f.fees \in Nat
      /\ Financed(f) = Gross(f) - OwnMoney(f) /\ Repayment(a, f) \in Nat
  BY FillFacts, RepaymentBound DEF Fill, Financed
<1>2. CASE IsCover(f)
  BY <1>1, <1>2 DEF CashDelta, DebtDelta, IsCover, IsOpenBuy, IsPlainSell, IsShortSell, IsBuy
<1>3. CASE IsOpenBuy(f)
  BY <1>1, <1>3 DEF CashDelta, DebtDelta, IsCover, IsOpenBuy, IsPlainSell, IsShortSell, IsBuy
<1>4. CASE IsShortSell(f)
  BY <1>1, <1>4 DEF CashDelta, DebtDelta, IsCover, IsOpenBuy, IsPlainSell, IsShortSell, IsBuy
<1>5. CASE IsPlainSell(f)
  BY <1>1, <1>5 DEF CashDelta, DebtDelta, IsCover, IsOpenBuy, IsPlainSell, IsShortSell, IsBuy
<1> QED  BY <1>2, <1>3, <1>4, <1>5 DEF IsCover, IsOpenBuy, IsPlainSell, IsShortSell

\* Shares that have a price cost something.
LEMMA TakenCosts ==
  ASSUME NEW s \in Seq(Nat), NEW n \in 1..Len(s), s[1] > 0
  PROVE  SumFunction(Taken(s, n)) > 0
<1> DEFINE t == Taken(s, n)
<1>1. t \in Seq(Nat) /\ Len(t) = n /\ t[1] = s[1]
  BY PartFacts
<1> HIDE DEF t
<1>2. t \in [1..n -> Nat] /\ IsFiniteSet(1..n) /\ 1 \in 1..n
  <2>1. n \in Nat \ {0}
    OBVIOUS
  <2>2. IsFiniteSet(1..n) /\ 1 \in 1..n
    BY <2>1, FS_Interval
  <2> QED  BY <1>1, <2>1, <2>2
<1>3. SumFunction(t) \in Nat /\ t[1] <= SumFunction(t)
  BY <1>2, SumBounds
<1>4. s[1] \in Nat
  OBVIOUS
<1> QED  BY <1>1, <1>3, <1>4 DEF t

\* What a fill that fits realises.
LEMMA ProfitAfterFill ==
  ASSUME NEW f \in Fill, Bookable(f), NEW a \in Account, Tidy(a), Fits(a, f)
  PROVE  LET owned == SharesOf(a.lots[f.symbol])
         IN  /\ IsOpenBuy(f) \/ IsShortSell(f) => RealisedProfit(a, f) = 0
             /\ IsPlainSell(f) =>
                  /\ Size(f) \in 1..Len(owned)
                  /\ RealisedProfit(a, f) =
                       Gross(f) - f.fees - SumFunction(Taken(owned, Size(f)))
             /\ IsCover(f) =>
                  /\ Size(f) <= a.borrowedShares[f.symbol]
                  /\ RealisedProfit(a, f) =
                       (a.avgPrice[f.symbol] - f.price) * Size(f) - f.fees
<1> DEFINE held == a.quantity[f.symbol]
           owned == SharesOf(a.lots[f.symbol])
<1>1. /\ held \in Int /\ f.quantity \in Int /\ Size(f) = Magnitude(f.quantity)
      /\ Size(f) \in Nat \ {0} /\ f.symbol \in Symbols /\ f.fees \in Nat
      /\ a.borrowedShares[f.symbol] = Most(-held, 0)
      /\ a.lots[f.symbol] \in Seq(Lot) /\ Gross(f) \in Nat
  BY FillFacts DEF Fill, Account, Size, Tidy, ShortOnLoan
<1>2. /\ owned \in Seq(Nat) /\ Len(owned) = Most(held, 0)
      /\ Len(owned) = LotTotal(a.lots[f.symbol])
      /\ \A j \in 1..Len(owned) : owned[j] > 0
  BY <1>1, SharesTypes DEF Tidy, SharesAreHeld
<1> HIDE DEF owned
<1>3. CASE IsOpenBuy(f) \/ IsShortSell(f)
  BY <1>3 DEF RealisedProfit, IsOpenBuy, IsShortSell, IsPlainSell, IsCover
<1>4. CASE IsPlainSell(f)
  <2>1. Size(f) <= held /\ held > 0
    BY <1>1, <1>4 DEF Fits
  <2>2. Size(f) \in 1..Len(owned)
    BY <1>1, <1>2, <2>1 DEF Most
  <2>3. ClosedCost(a, f) = SumFunction(Taken(owned, Size(f)))
    BY <1>2, <1>4, <2>2, SharesAfterFill DEF owned
  <2>4. owned[1] > 0 /\ Size(f) \in 1..Len(owned)
    BY <1>2, <2>2
  <2>5. ClosedCost(a, f) > 0 /\ ClosedCost(a, f) \in Nat
    BY <1>2, <2>3, <2>4, TakenCosts, LotFacts
  <2>6. RealisedProfit(a, f) = Gross(f) - ClosedCost(a, f) - f.fees
    BY <1>4, <2>5 DEF RealisedProfit, IsPlainSell, IsCover
  <2> HIDE DEF held
  <2>7. RealisedProfit(a, f) = Gross(f) - f.fees - SumFunction(Taken(owned, Size(f)))
    BY <1>1, <2>3, <2>5, <2>6
  <2> QED  BY <1>4, <2>2, <2>7 DEF owned, IsPlainSell, IsOpenBuy, IsShortSell, IsCover
<1>5. CASE IsCover(f)
  <2>1. f.quantity > 0 /\ Size(f) = f.quantity /\ Size(f) <= -held
    BY <1>1, <1>5 DEF Fits, IsCover, IsBuy, Magnitude
  <2>2. Size(f) <= a.borrowedShares[f.symbol]
    BY <1>1, <2>1 DEF Most
  <2>3. CloseQty(a, f) = Size(f)
    BY <1>1, <2>1 DEF CloseQty, SameSide, Least, Magnitude
  <2>4. RealisedProfit(a, f) = (a.avgPrice[f.symbol] - f.price) * Size(f) - f.fees
    BY <1>1, <1>5, <2>3 DEF RealisedProfit, IsPlainSell, IsCover
  <2> QED  BY <1>5, <2>2, <2>4 DEF IsPlainSell, IsOpenBuy, IsShortSell, IsCover
<1> QED  BY <1>3, <1>4, <1>5 DEF IsPlainSell, IsOpenBuy, IsShortSell, IsCover

\* Books edited at one owner and one instrument, the way a purchase, a sale, a
\* short sale and a cover do it.
With(g, s, x) == [g EXCEPT ![s] = x]
Replaced(books, o, book) == [books EXCEPT ![o] = book]
Funded(books, o, net) == [books EXCEPT ![o].net = net]
Bought(books, o, s, net, queue) ==
  [books EXCEPT ![o].net = net, ![o].owned[s] = queue]
Sold(books, o, s, net, queue, profit) ==
  [books EXCEPT ![o].net = net, ![o].owned[s] = queue, ![o].realised = profit]
Shorted(books, o, s, net, debt) ==
  [books EXCEPT ![o].net = net, ![o].short[s] = debt]
Covered(books, o, s, net, debt, profit) ==
  [books EXCEPT ![o].net = net, ![o].short[s] = debt, ![o].realised = profit]

LEMMA EditFacts ==
  ASSUME NEW books, NEW o, NEW s, NEW net, NEW profit, NEW queue, NEW debt,
         NEW m, NEW r, NEW w, NEW h, books[o] = ABook(m, r, w, h)
  PROVE  /\ Funded(books, o, net) = Replaced(books, o, ABook(net, r, w, h))
         /\ Bought(books, o, s, net, queue) =
              Replaced(books, o, ABook(net, r, With(w, s, queue), h))
         /\ Sold(books, o, s, net, queue, profit) =
              Replaced(books, o, ABook(net, profit, With(w, s, queue), h))
         /\ Shorted(books, o, s, net, debt) =
              Replaced(books, o, ABook(net, r, w, With(h, s, debt)))
         /\ Covered(books, o, s, net, debt, profit) =
              Replaced(books, o, ABook(net, profit, w, With(h, s, debt)))
<1>1. [books EXCEPT ![o].net = net] = [books EXCEPT ![o] = [books[o] EXCEPT !.net = net]]
  OBVIOUS
<1>2. [books EXCEPT ![o].net = net, ![o].owned[s] = queue] =
        [books EXCEPT ![o] = [books[o] EXCEPT !.net = net, !.owned[s] = queue]]
  OBVIOUS
<1>3. [books EXCEPT ![o].net = net, ![o].owned[s] = queue, ![o].realised = profit] =
        [books EXCEPT ![o] =
           [books[o] EXCEPT !.net = net, !.owned[s] = queue, !.realised = profit]]
  OBVIOUS
<1>4. [books EXCEPT ![o].net = net, ![o].short[s] = debt] =
        [books EXCEPT ![o] = [books[o] EXCEPT !.net = net, !.short[s] = debt]]
  OBVIOUS
<1>5. [books EXCEPT ![o].net = net, ![o].short[s] = debt, ![o].realised = profit] =
        [books EXCEPT ![o] =
           [books[o] EXCEPT !.net = net, !.short[s] = debt, !.realised = profit]]
  OBVIOUS
<1>6. books[o] = ABook(m, r, w, h)
  OBVIOUS
<1> DEFINE R == ABook(m, r, w, h)
<1>7. [R EXCEPT !.net = net] = ABook(net, r, w, h)
  BY DEF ABook
<1>8. [R EXCEPT !.net = net, !.owned[s] = queue] = ABook(net, r, [w EXCEPT ![s] = queue], h)
  <2>1. [R EXCEPT !.net = net, !.owned[s] = queue] =
          [[R EXCEPT !.net = net] EXCEPT !.owned[s] = queue]
    OBVIOUS
  <2>2. [ABook(net, r, w, h) EXCEPT !.owned[s] = queue] =
          ABook(net, r, [w EXCEPT ![s] = queue], h)
    BY DEF ABook
  <2> HIDE DEF R
  <2> QED  BY <1>7, <2>1, <2>2, Zenon
<1>9. [R EXCEPT !.net = net, !.owned[s] = queue, !.realised = profit] =
         ABook(net, profit, [w EXCEPT ![s] = queue], h)
  <2>1. [R EXCEPT !.net = net, !.owned[s] = queue, !.realised = profit] =
          [[R EXCEPT !.net = net, !.owned[s] = queue] EXCEPT !.realised = profit]
    OBVIOUS
  <2>2. [ABook(net, r, [w EXCEPT ![s] = queue], h) EXCEPT !.realised = profit] =
          ABook(net, profit, [w EXCEPT ![s] = queue], h)
    BY DEF ABook
  <2> HIDE DEF R
  <2> QED  BY <1>8, <2>1, <2>2, Zenon
<1>10. [R EXCEPT !.net = net, !.short[s] = debt] = ABook(net, r, w, [h EXCEPT ![s] = debt])
  <2>1. [R EXCEPT !.net = net, !.short[s] = debt] =
          [[R EXCEPT !.net = net] EXCEPT !.short[s] = debt]
    OBVIOUS
  <2>2. [ABook(net, r, w, h) EXCEPT !.short[s] = debt] =
          ABook(net, r, w, [h EXCEPT ![s] = debt])
    BY DEF ABook
  <2> HIDE DEF R
  <2> QED  BY <1>7, <2>1, <2>2, Zenon
<1>11. [R EXCEPT !.net = net, !.short[s] = debt, !.realised = profit] =
         ABook(net, profit, w, [h EXCEPT ![s] = debt])
  <2>1. [R EXCEPT !.net = net, !.short[s] = debt, !.realised = profit] =
          [[R EXCEPT !.net = net, !.short[s] = debt] EXCEPT !.realised = profit]
    OBVIOUS
  <2>2. [ABook(net, r, w, [h EXCEPT ![s] = debt]) EXCEPT !.realised = profit] =
          ABook(net, profit, w, [h EXCEPT ![s] = debt])
    BY DEF ABook
  <2> HIDE DEF R
  <2> QED  BY <1>10, <2>1, <2>2, Zenon
<1> HIDE DEF R
<1>12. books[o] = R
  BY <1>6 DEF R
<1>13. [books EXCEPT ![o].net = net] = [books EXCEPT ![o] = ABook(net, r, w, h)]
  BY <1>1, <1>7, <1>12, Zenon
<1>14. [books EXCEPT ![o].net = net, ![o].owned[s] = queue] =
         [books EXCEPT ![o] = ABook(net, r, [w EXCEPT ![s] = queue], h)]
  BY <1>2, <1>8, <1>12, Zenon
<1>15. [books EXCEPT ![o].net = net, ![o].owned[s] = queue, ![o].realised = profit] =
         [books EXCEPT ![o] = ABook(net, profit, [w EXCEPT ![s] = queue], h)]
  BY <1>3, <1>9, <1>12, Zenon
<1>16. [books EXCEPT ![o].net = net, ![o].short[s] = debt] =
         [books EXCEPT ![o] = ABook(net, r, w, [h EXCEPT ![s] = debt])]
  BY <1>4, <1>10, <1>12, Zenon
<1>17. [books EXCEPT ![o].net = net, ![o].short[s] = debt, ![o].realised = profit] =
         [books EXCEPT ![o] = ABook(net, profit, w, [h EXCEPT ![s] = debt])]
  BY <1>5, <1>11, <1>12, Zenon
<1> QED  BY <1>13, <1>14, <1>15, <1>16, <1>17, Zenon
         DEF With, Replaced, Funded, Bought, Sold, Shorted, Covered

\* The average of a short position is a whole price per unit.
LEMMA ShortAverage ==
  ASSUME NEW f \in Fill, Bookable(f), NEW a \in Account, Tidy(a), Fits(a, f)
  PROVE  LET units == a.borrowedShares[f.symbol]
             avg == a.avgPrice[f.symbol]
         IN  /\ IsOpenBuy(f) \/ IsPlainSell(f) =>
                  units = 0 /\ BorrowedSharesAfter(a, f) = 0
             /\ IsShortSell(f) =>
                  /\ BorrowedSharesAfter(a, f) = units + Size(f)
                  /\ AvgPriceAfter(a, f) =
                       (units * avg + Size(f) * f.price) \div (units + Size(f))
             /\ IsCover(f) =>
                  /\ BorrowedSharesAfter(a, f) = units - Size(f)
                  /\ units - Size(f) # 0 => AvgPriceAfter(a, f) = avg
<1> DEFINE held == a.quantity[f.symbol]
           units == a.borrowedShares[f.symbol]
           avg == a.avgPrice[f.symbol]
           n == Size(f)
<1>1. /\ held \in Int /\ f.quantity \in Int /\ n = Magnitude(f.quantity)
      /\ n \in Nat \ {0} /\ f.symbol \in Symbols /\ f.price \in Nat /\ avg \in Nat
      /\ units = Most(-held, 0) /\ units \in Nat
      /\ QuantityAfter(a, f) = held + f.quantity
  BY FillFacts DEF Fill, Account, Size, Tidy, ShortOnLoan, QuantityAfter
<1>2. CASE IsOpenBuy(f) \/ IsPlainSell(f)
  <2>1. held >= 0
    BY <1>1, <1>2 DEF Fits, IsOpenBuy, IsPlainSell
  <2>2. units = 0
    BY <1>1, <2>1 DEF Most
  <2>3. BorrowedSharesAfter(a, f) = units
    BY <1>2 DEF BorrowedSharesAfter, IsOpenBuy, IsPlainSell, IsShortSell, IsCover
  <2> QED  BY <1>2, <2>2, <2>3 DEF IsOpenBuy, IsPlainSell, IsShortSell, IsCover
<1>3. CASE IsShortSell(f)
  <2>1. f.quantity = -n /\ held <= 0 /\ units = -held /\ QuantityAfter(a, f) = -(units + n)
    BY <1>1, <1>3 DEF Fits, IsShortSell, IsBuy, Magnitude, Most
  <2>2. BorrowedSharesAfter(a, f) = units + n
    BY <1>3 DEF BorrowedSharesAfter, IsShortSell, IsCover
  <2>3. CASE held = 0
    <3>1. AvgPriceAfter(a, f) = f.price
      <4>1. QuantityAfter(a, f) # 0
        <5>1. /\ units \in Nat /\ n \in Nat \ {0}
              /\ QuantityAfter(a, f) = -(units + n)
          BY <1>1, <2>1
        <5> HIDE DEF units, n
        <5> QED  BY <5>1
      <4> QED  BY <2>3, <4>1 DEF AvgPriceAfter
    <3>2. (n * f.price) \div n = f.price
      BY <1>1, WholeShare
    <3>3. units * avg + n * f.price = n * f.price /\ units + n = n
      <4>1. units = 0
        BY <1>1, <2>1, <2>3
      <4>2. 0 * avg = 0 /\ n * f.price \in Nat
        BY <1>1
      <4> QED  BY <1>1, <4>1, <4>2
    <3> QED  BY <1>3, <2>2, <3>1, <3>2, <3>3
             DEF IsOpenBuy, IsPlainSell, IsShortSell, IsCover
  <2>4. CASE held # 0
    <3>1. CloseQty(a, f) = 0 /\ OpenQty(a, f) # 0
      BY <1>1, <2>1, <2>4 DEF CloseQty, OpenQty, SameSide
    <3>2. Magnitude(held) = units /\ Magnitude(QuantityAfter(a, f)) = units + n
      BY <1>1, <2>1, <2>4 DEF Magnitude
    <3>3. AvgPriceAfter(a, f) =
            (Magnitude(held) * avg + n * f.price) \div Magnitude(QuantityAfter(a, f))
      BY <1>1, <2>1, <2>4, <3>1 DEF AvgPriceAfter
    <3> QED  BY <1>3, <2>2, <3>2, <3>3
             DEF IsOpenBuy, IsPlainSell, IsShortSell, IsCover
  <2> QED  BY <2>3, <2>4
<1>4. CASE IsCover(f)
  <2>1. f.quantity = n /\ n <= -held /\ units = -held /\ QuantityAfter(a, f) = n - units
    BY <1>1, <1>4 DEF Fits, IsCover, IsBuy, Magnitude, Most
  <2>2. BorrowedSharesAfter(a, f) = units - n
    <3>1. BorrowedSharesAfter(a, f) = Most(units - n, 0)
      BY <1>4 DEF BorrowedSharesAfter, IsCover, IsShortSell
    <3> HIDE DEF units, held, n
    <3> QED  BY <1>1, <2>1, <3>1 DEF Most
  <2>3. ASSUME units - n # 0 PROVE AvgPriceAfter(a, f) = avg
    <3>1. CloseQty(a, f) = n /\ OpenQty(a, f) = 0
      BY <1>1, <2>1 DEF CloseQty, OpenQty, SameSide, Least, Magnitude
    <3> QED  BY <1>1, <2>1, <2>3, <3>1 DEF AvgPriceAfter
  <2> QED  BY <1>4, <2>2, <2>3 DEF IsOpenBuy, IsPlainSell, IsShortSell, IsCover
<1> QED  BY <1>2, <1>3, <1>4 DEF IsOpenBuy, IsPlainSell, IsShortSell, IsCover

\* A fold is the same fold in the book's copy of the library.
LEMMA SameSum ==
  ASSUME NEW q
  PROVE  Book!SumFunction(q) = SumFunction(q)
<1>1. Book!SumFunctionOnSet(q, DOMAIN q) = SumFunctionOnSet(q, DOMAIN q)
  BY Zenon DEF Book!SumFunctionOnSet, Book!FoldFunctionOnSet, Book!MapThenFoldSet,
               SumFunctionOnSet, FoldFunctionOnSet, MapThenFoldSet
<1> QED  BY <1>1 DEF SumFunction, Book!SumFunction

\* A fill that fits is a purchase, a sale, a short sale or a cover in the book.
LEMMA FillIsBookStep ==
  ASSUME TablesOK, NEW st \in Strategies, NEW f \in Fills, Tidy(accounts[st]),
         DisciplinedFill(st, f)
  PROVE  Book!Next
<1> DEFINE a == accounts[st]
           s == f.symbol
           n == Size(f)
           books == BooksOf(accounts)
           m == a.cash - a.borrowedCash
           w == BookOf(a).owned
           h == BookOf(a).short
           units == a.borrowedShares[s]
           avg == a.avgPrice[s]
           value == n * f.price
<1>1. /\ f \in Fill /\ Bookable(f) /\ a \in Account /\ Fits(a, f) /\ file' = file /\ fetched' = fetched
      /\ accounts' = [accounts EXCEPT ![st] = AccountAfter(a, f)]
      /\ accounts \in [Strategies -> Account]
  BY FillsAssumption DEF DisciplinedFill, ApplyFill, TablesOK
<1>2. /\ s \in Symbols /\ n \in Nat \ {0} /\ f.price \in Nat /\ f.fees \in Nat
      /\ units \in Nat /\ avg \in Nat /\ m \in Int /\ a.profit \in Int
      /\ Gross(f) = value /\ value \in Nat
      /\ a.lots[s] \in Seq(Lot)
  <2>1. s \in Symbols /\ n \in Nat \ {0} /\ f.price \in Nat /\ f.fees \in Nat
    BY <1>1, FillFacts DEF Fill
  <2>2. Gross(f) = value /\ value \in Nat
    BY <2>1 DEF Gross
  <2>3. units \in Nat /\ avg \in Nat /\ a.lots[s] \in Seq(Lot)
    BY <1>1, <2>1 DEF Account
  <2>4. m \in Int /\ a.profit \in Int
    BY <1>1 DEF Account
  <2> QED  BY <2>1, <2>2, <2>3, <2>4
<1>3. BooksOf(accounts') = Replaced(books, st, BookOf(AccountAfter(a, f)))
  BY <1>1 DEF BooksOf, Replaced
<1>4. /\ books[st] = ABook(m, a.profit, w, h)
      /\ books[st].net = m /\ books[st].realised = a.profit
      /\ books[st].owned[s] = SharesOf(a.lots[s]) /\ w[s] = SharesOf(a.lots[s])
      /\ books[st].short[s] = [units |-> units, proceeds |-> units * avg]
      /\ h[s] = [units |-> units, proceeds |-> units * avg]
      /\ w \in [Symbols -> {w[t] : t \in Symbols}] /\ h \in [Symbols -> {h[t] : t \in Symbols}]
  BY <1>2 DEF BooksOf, BookOf, ABook
<1>5. BookOf(AccountAfter(a, f)) =
        ABook(m + ((IF IsBuy(f) THEN -value ELSE value) - f.fees),
              a.profit + RealisedProfit(a, f),
              With(w, s, SharesOf(LotsAfter(a, f))),
              With(h, s, [ units |-> BorrowedSharesAfter(a, f),
                           proceeds |-> BorrowedSharesAfter(a, f) * AvgPriceAfter(a, f) ]))
  BY <1>1, <1>2, BookAfterFill, NetFacts DEF With
<1>6. /\ With(w, s, SharesOf(a.lots[s])) = w
      /\ With(h, s, [units |-> units, proceeds |-> units * avg]) = h
  BY <1>4 DEF With
<1>7. /\ UNCHANGED (IF file.state = "whole" THEN <<BooksOf(file.accounts)>> ELSE << >>)
      /\ UNCHANGED {BooksOf(table) : table \in fetched}
  BY <1>1
<1>8. /\ s \in Symbols /\ n \in {Size(g) : g \in Fills}
      /\ f.price \in {g.price : g \in Fills} /\ f.fees \in {g.fees : g \in Fills}
  BY <1>2
<1>9. ASSUME IsOpenBuy(f) PROVE Book!Buy(st, s, n, f.price, f.fees)
  <2>1. /\ units = 0 /\ BorrowedSharesAfter(a, f) = 0 /\ RealisedProfit(a, f) = 0
        /\ SharesOf(LotsAfter(a, f)) = w[s] \o Alike(n, f.price)
        /\ AvgPriceAfter(a, f) \in Nat /\ IsBuy(f)
    BY <1>1, <1>4, <1>9, ShortAverage, ProfitAfterFill, SharesAfterFill, PositionFacts
       DEF IsOpenBuy
  <2>2. BorrowedSharesAfter(a, f) * AvgPriceAfter(a, f) = units * avg
    BY <1>2, <2>1
  <2>3. m + (-value - f.fees) = m - value - f.fees /\ a.profit + 0 = a.profit
    <3> HIDE DEF m, value
    <3> QED  BY <1>2
  <2>4. BookOf(AccountAfter(a, f)) =
          ABook(m - value - f.fees, a.profit,
                With(w, s, w[s] \o Alike(n, f.price)), h)
    <3> HIDE DEF a, s, n, m, w, h, units, avg, value
    <3> QED  BY <1>5, <1>6, <2>1, <2>2, <2>3
  <2>5. BooksOf(accounts') =
          Bought(books, st, s, m - value - f.fees, w[s] \o Alike(n, f.price))
    <3> DEFINE net == m - value - f.fees
               queue == w[s] \o Alike(n, f.price)
               profit == a.profit
    <3>1. books[st] = ABook(m, profit, w, h)
      BY <1>4
    <3>2. BookOf(AccountAfter(a, f)) = ABook(net, profit, With(w, s, queue), h)
      BY <2>4 DEF With
    <3> HIDE DEF a, s, n, m, w, h, units, avg, value, books, net, queue, profit
    <3>3. Bought(books, st, s, net, queue) =
            Replaced(books, st, ABook(net, profit, With(w, s, queue), h))
      BY <3>1, EditFacts
    <3>4. BooksOf(accounts') = Bought(books, st, s, net, queue)
      BY <1>3, <3>2, <3>3
    <3> QED  BY <3>4 DEF net, queue
  <2>6. BooksOf(accounts') =
          Bought(books, st, s, books[st].net - n * f.price - f.fees,
                 books[st].owned[s] \o Alike(n, f.price))
    <3>1. m - value - f.fees = books[st].net - n * f.price - f.fees
      BY <1>4
    <3>2. w[s] = books[st].owned[s]
      BY <1>4
    <3> HIDE DEF a, s, n, m, w, h, units, avg, value, books
    <3> QED  BY <2>5, <3>1, <3>2, Zenon
  <2>7. books[st].short[s].units = 0
    <3>1. books[st].short[s] = [units |-> units, proceeds |-> units * avg] /\ units = 0
      BY <1>4, <2>1
    <3> HIDE DEF books, units, avg, s
    <3> QED  BY <3>1
  <2> HIDE DEF a, s, n, m, w, h, units, avg, value
  <2> QED  BY <1>7, <2>6, <2>7, Zenon DEF Book!Buy, Bought, Alike
<1>10. ASSUME IsPlainSell(f) PROVE Book!Sell(st, s, n, f.price, f.fees)
  <2> DEFINE cost == SumFunction(Taken(w[s], n))
             gain == a.profit + value - f.fees - cost
  <2>1. /\ units = 0 /\ BorrowedSharesAfter(a, f) = 0 /\ n \in 1..Len(w[s])
        /\ SharesOf(LotsAfter(a, f)) = Kept(w[s], n)
        /\ RealisedProfit(a, f) = value - f.fees - cost
        /\ AvgPriceAfter(a, f) \in Nat /\ ~IsBuy(f)
    <3>1. /\ n \in 1..Len(w[s]) /\ RealisedProfit(a, f) = value - f.fees - cost
      BY <1>1, <1>2, <1>4, <1>10, ProfitAfterFill
    <3>2. Len(w[s]) = LotTotal(a.lots[s])
      BY <1>2, <1>4, SharesTypes
    <3>3. SharesOf(LotsAfter(a, f)) = Kept(w[s], n)
      <4> DEFINE owned == SharesOf(a.lots[s])
      <4>1. w[s] = owned
        BY <1>4
      <4>2. n <= LotTotal(a.lots[s])
        BY <1>2, <3>1, <3>2
      <4>3. SharesOf(LotsAfter(a, f)) = Kept(owned, n)
        BY <1>1, <1>10, <4>2, SharesAfterFill
      <4> QED  BY <4>1, <4>3
    <3>4. units = 0 /\ BorrowedSharesAfter(a, f) = 0
      BY <1>1, <1>10, ShortAverage
    <3>5. AvgPriceAfter(a, f) \in Nat /\ ~IsBuy(f)
      BY <1>1, <1>10, PositionFacts DEF IsPlainSell
    <3> QED  BY <3>1, <3>3, <3>4, <3>5
  <2>2. BorrowedSharesAfter(a, f) * AvgPriceAfter(a, f) = units * avg
    <3>1. 0 * avg = 0 /\ 0 * AvgPriceAfter(a, f) = 0
      <4>1. \A x \in Nat : 0 * x = 0
        OBVIOUS
      <4>2. avg \in Nat /\ AvgPriceAfter(a, f) \in Nat
        BY <1>2, <2>1
      <4> QED  BY <4>1, <4>2
    <3> QED  BY <2>1, <3>1
  <2>3. cost \in Nat
    <3>1. w[s] \in Seq(Nat)
      BY <1>2, <1>4, SharesTypes
    <3>2. Taken(w[s], n) \in Seq(Nat)
      BY <2>1, <3>1, PartFacts
    <3> QED  BY <3>2, SumAppend
  <2>4. /\ m + (value - f.fees) = m + value - f.fees
        /\ a.profit + (value - f.fees - cost) = gain
    <3> HIDE DEF m, value, cost
    <3> QED  BY <1>2, <2>3
  <2>5. BookOf(AccountAfter(a, f)) =
          ABook(m + value - f.fees, gain, With(w, s, Kept(w[s], n)), h)
    <3> HIDE DEF a, s, n, m, w, h, units, avg, value, cost, gain
    <3> QED  BY <1>5, <1>6, <2>1, <2>2, <2>4
  <2>6. BooksOf(accounts') = Sold(books, st, s, m + value - f.fees, Kept(w[s], n), gain)
    <3> DEFINE net == m + value - f.fees
               queue == Kept(w[s], n)
               profit == a.profit
    <3>1. books[st] = ABook(m, profit, w, h)
      BY <1>4
    <3>2. BookOf(AccountAfter(a, f)) = ABook(net, gain, With(w, s, queue), h)
      BY <2>5
    <3> HIDE DEF a, s, n, m, w, h, units, avg, value, books, net, queue, profit, gain
    <3>3. Sold(books, st, s, net, queue, gain) =
            Replaced(books, st, ABook(net, gain, With(w, s, queue), h))
      BY <3>1, EditFacts
    <3>4. BooksOf(accounts') = Sold(books, st, s, net, queue, gain)
      BY <1>3, <3>2, <3>3
    <3> QED  BY <3>4 DEF net, queue
  <2>7. BooksOf(accounts') =
          Sold(books, st, s, books[st].net + n * f.price - f.fees,
               Kept(books[st].owned[s], n),
               books[st].realised + n * f.price - f.fees
                 - Book!SumFunction(Taken(books[st].owned[s], n)))
    <3>1. m + value - f.fees = books[st].net + n * f.price - f.fees
      BY <1>4
    <3>2. w[s] = books[st].owned[s]
      BY <1>4
    <3>3. gain = books[st].realised + n * f.price - f.fees
                   - Book!SumFunction(Taken(w[s], n))
      BY <1>4, SameSum
    <3> HIDE DEF a, s, n, m, w, h, units, avg, value, books, cost, gain
    <3> QED  BY <2>6, <3>1, <3>2, <3>3, Zenon
  <2>8. n <= Len(books[st].owned[s])
    <3>1. w[s] = books[st].owned[s]
      BY <1>4
    <3> HIDE DEF books, w, s, n
    <3> QED  BY <2>1, <3>1
  <2> HIDE DEF a, s, n, m, w, h, units, avg, value, cost, gain
  <2> QED  BY <1>7, <2>7, <2>8, Zenon DEF Book!Sell, Sold, Kept, Taken
<1>11. ASSUME IsShortSell(f) PROVE Book!ShortSell(st, s, n, f.price, f.fees)
  <2> DEFINE all == units + n
             debt == [ units |-> all,
                       proceeds |-> all * ((units * avg + n * f.price) \div all) ]
  <2>1. /\ BorrowedSharesAfter(a, f) = all
        /\ AvgPriceAfter(a, f) = (units * avg + n * f.price) \div all
        /\ RealisedProfit(a, f) = 0 /\ SharesOf(LotsAfter(a, f)) = w[s] /\ ~IsBuy(f)
    BY <1>1, <1>4, <1>11, ShortAverage, ProfitAfterFill, SharesAfterFill DEF IsShortSell
  <2>2. w[s] = << >>
    <3>1. a.quantity[s] \in Int /\ a.quantity[s] <= 0
      BY <1>1, <1>2, <1>11 DEF Fits, Account
    <3>2. Len(w[s]) = LotTotal(a.lots[s]) /\ LotTotal(a.lots[s]) = Most(a.quantity[s], 0)
      BY <1>2, <1>4, SharesTypes DEF Tidy, SharesAreHeld
    <3>3. LotTotal(a.lots[s]) = 0
      BY <3>1, <3>2 DEF Most
    <3> QED  BY <1>2, <1>4, <3>3, SharesOfNoLots
  <2>3. m + (value - f.fees) = m + value - f.fees /\ a.profit + 0 = a.profit
    <3> HIDE DEF m, value
    <3> QED  BY <1>2
  <2>4. BookOf(AccountAfter(a, f)) = ABook(m + value - f.fees, a.profit, w, With(h, s, debt))
    <3>1. [ units |-> BorrowedSharesAfter(a, f),
            proceeds |-> BorrowedSharesAfter(a, f) * AvgPriceAfter(a, f) ] = debt
      BY <2>1
    <3>2. With(w, s, SharesOf(LotsAfter(a, f))) = w
      BY <1>4, <1>6, <2>1
    <3> HIDE DEF a, s, n, m, w, h, units, avg, value, all, debt
    <3> QED  BY <1>5, <2>1, <2>3, <3>1, <3>2
  <2>5. BooksOf(accounts') = Shorted(books, st, s, m + value - f.fees, debt)
    <3> DEFINE net == m + value - f.fees
               profit == a.profit
    <3>1. books[st] = ABook(m, profit, w, h)
      BY <1>4
    <3>2. BookOf(AccountAfter(a, f)) = ABook(net, profit, w, With(h, s, debt))
      BY <2>4
    <3> HIDE DEF a, s, n, m, w, h, units, avg, value, books, net, profit, all, debt
    <3>3. Shorted(books, st, s, net, debt) =
            Replaced(books, st, ABook(net, profit, w, With(h, s, debt)))
      BY <3>1, EditFacts
    <3>4. BooksOf(accounts') = Shorted(books, st, s, net, debt)
      BY <1>3, <3>2, <3>3
    <3> QED  BY <3>4 DEF net
  <2>6. /\ books[st].short[s].units = units
        /\ books[st].short[s].proceeds = units * avg
        /\ books[st].owned[s] = << >>
        /\ m + value - f.fees = books[st].net + n * f.price - f.fees
    <3>1. /\ books[st].short[s] = [units |-> units, proceeds |-> units * avg]
          /\ books[st].owned[s] = w[s] /\ books[st].net = m
      BY <1>4
    <3> HIDE DEF a, s, n, m, w, h, units, avg, books
    <3> QED  BY <2>2, <3>1
  <2>7. debt = [ units |-> books[st].short[s].units + n,
                 proceeds |-> Book!AtWholePrice(books[st].short[s].proceeds + n * f.price,
                                                books[st].short[s].units + n) ]
    <3> HIDE DEF a, s, n, m, w, h, units, avg, books
    <3> QED  BY <2>6 DEF Book!AtWholePrice, debt, all
  <2>8. BooksOf(accounts') =
          Shorted(books, st, s, books[st].net + n * f.price - f.fees,
            [ units |-> books[st].short[s].units + n,
              proceeds |-> Book!AtWholePrice(books[st].short[s].proceeds + n * f.price,
                                             books[st].short[s].units + n) ])
    <3> HIDE DEF a, s, n, m, w, h, units, avg, value, books, all, debt
    <3> QED  BY <2>5, <2>6, <2>7, Zenon
  <2> HIDE DEF a, s, n, m, w, h, units, avg, value, all, debt
  <2> QED  BY <1>7, <2>6, <2>8, Zenon DEF Book!ShortSell, Shorted
<1>12. ASSUME IsCover(f) PROVE Book!Cover(st, s, n, f.price, f.fees)
  <2> DEFINE part == ((units * avg) * n) \div units
             left == units - n
             debt == [units |-> left, proceeds |-> units * avg - part]
             gain == a.profit + part - value - f.fees
  <2>1. /\ BorrowedSharesAfter(a, f) = left /\ n <= units
        /\ left # 0 => AvgPriceAfter(a, f) = avg
        /\ RealisedProfit(a, f) = (avg - f.price) * n - f.fees
        /\ SharesOf(LotsAfter(a, f)) = w[s] /\ IsBuy(f) /\ AvgPriceAfter(a, f) \in Nat
    <3>1. /\ BorrowedSharesAfter(a, f) = left
          /\ left # 0 => AvgPriceAfter(a, f) = avg
      BY <1>1, <1>12, ShortAverage
    <3>2. n <= units /\ RealisedProfit(a, f) = (avg - f.price) * n - f.fees
      BY <1>1, <1>12, ProfitAfterFill
    <3>3. SharesOf(LotsAfter(a, f)) = w[s]
      BY <1>1, <1>4, <1>12, SharesAfterFill
    <3>4. IsBuy(f) /\ AvgPriceAfter(a, f) \in Nat
      BY <1>1, <1>12, PositionFacts DEF IsCover
    <3> QED  BY <3>1, <3>2, <3>3, <3>4
  <2>2. part = avg * n /\ part \in Nat
    <3> HIDE DEF units, avg, n
    <3>1. (units * avg) * n = (avg * n) * units /\ avg * n \in Nat /\ units \in Nat \ {0}
      <4>1. \A x, y, z \in Nat : (x * y) * z = (y * z) * x /\ y * z \in Nat
        OBVIOUS
      <4>2. units \in Nat \ {0} /\ avg \in Nat /\ n \in Nat
        BY <1>2, <2>1
      <4> QED  BY <4>1, <4>2
    <3>2. ((avg * n) * units) \div units = avg * n
      BY <3>1, WholeShare
    <3> QED  BY <3>1, <3>2
  <2>3. left * AvgPriceAfter(a, f) = units * avg - part
    <3>1. left * avg = units * avg - avg * n
      <4> HIDE DEF units, avg, n
      <4> QED  BY <1>2, <2>1
    <3>2. CASE left # 0
      BY <2>1, <2>2, <3>1, <3>2
    <3>3. CASE left = 0
      <4>1. 0 * avg = 0 /\ 0 * AvgPriceAfter(a, f) = 0
        <5>1. \A x \in Nat : 0 * x = 0
          OBVIOUS
        <5>2. avg \in Nat /\ AvgPriceAfter(a, f) \in Nat
          BY <1>2, <2>1
        <5> QED  BY <5>1, <5>2
      <4> QED  BY <2>2, <3>1, <3>3, <4>1
    <3> QED  BY <3>2, <3>3
  <2>4. /\ m + (-value - f.fees) = m - value - f.fees
        /\ a.profit + ((avg - f.price) * n - f.fees) = gain
    <3>1. (avg - f.price) * n = avg * n - value
      <4> DEFINE price == f.price
      <4>1. avg \in Nat /\ price \in Nat /\ n \in Nat
        BY <1>2
      <4> HIDE DEF avg, n, price
      <4>2. (avg - price) * n = avg * n - n * price
        BY <4>1
      <4> QED  BY <4>2 DEF price
    <3> DEFINE change == (avg - f.price) * n
               fees == f.fees
               profit == a.profit
    <3>2. /\ change = part - value /\ part \in Int /\ value \in Nat /\ fees \in Nat
          /\ m \in Int /\ profit \in Int
      BY <1>2, <2>2, <3>1
    <3> HIDE DEF m, value, avg, n, part, change, fees, profit
    <3>3. m + (-value - fees) = m - value - fees
      BY <3>2
    <3>4. profit + (change - fees) = profit + part - value - fees
      BY <3>2
    <3> QED  BY <3>3, <3>4 DEF gain, change, fees, profit
  <2>5. BookOf(AccountAfter(a, f)) = ABook(m - value - f.fees, gain, w, With(h, s, debt))
    <3>1. [ units |-> BorrowedSharesAfter(a, f),
            proceeds |-> BorrowedSharesAfter(a, f) * AvgPriceAfter(a, f) ] = debt
      BY <2>1, <2>3
    <3>2. With(w, s, SharesOf(LotsAfter(a, f))) = w
      BY <1>4, <1>6, <2>1
    <3> HIDE DEF a, s, n, m, w, h, units, avg, value, debt, gain
    <3> QED  BY <1>5, <2>1, <2>4, <3>1, <3>2
  <2>6. BooksOf(accounts') = Covered(books, st, s, m - value - f.fees, debt, gain)
    <3> DEFINE net == m - value - f.fees
               profit == a.profit
    <3>1. books[st] = ABook(m, profit, w, h)
      BY <1>4
    <3>2. BookOf(AccountAfter(a, f)) = ABook(net, gain, w, With(h, s, debt))
      BY <2>5
    <3> HIDE DEF a, s, n, m, w, h, units, avg, value, books, net, profit, gain, debt
    <3>3. Covered(books, st, s, net, debt, gain) =
            Replaced(books, st, ABook(net, gain, w, With(h, s, debt)))
      BY <3>1, EditFacts
    <3>4. BooksOf(accounts') = Covered(books, st, s, net, debt, gain)
      BY <1>3, <3>2, <3>3
    <3> QED  BY <3>4 DEF net
  <2>7. /\ books[st].short[s].units = units
        /\ books[st].short[s].proceeds = units * avg
        /\ books[st].realised = a.profit
        /\ m - value - f.fees = books[st].net - n * f.price - f.fees
    <3>1. /\ books[st].short[s] = [units |-> units, proceeds |-> units * avg]
          /\ books[st].net = m /\ books[st].realised = a.profit
      BY <1>4
    <3> HIDE DEF a, s, n, m, w, h, units, avg, books
    <3> QED  BY <3>1
  <2> DEFINE share(short) == (short.proceeds * n) \div short.units
  <2>8. BooksOf(accounts') =
          Covered(books, st, s, books[st].net - n * f.price - f.fees,
            [ units |-> books[st].short[s].units - n,
              proceeds |-> books[st].short[s].proceeds - share(books[st].short[s]) ],
            books[st].realised + share(books[st].short[s]) - n * f.price - f.fees)
    <3>1. share(books[st].short[s]) = part
      <4> HIDE DEF a, s, n, m, w, h, units, avg, value, books
      <4> QED  BY <2>7
    <3>2. debt = [ units |-> books[st].short[s].units - n,
                   proceeds |-> books[st].short[s].proceeds - share(books[st].short[s]) ]
      <4> HIDE DEF a, s, n, m, w, h, units, avg, value, books, part, share
      <4> QED  BY <2>7, <3>1
    <3>3. gain = books[st].realised + share(books[st].short[s]) - n * f.price - f.fees
      <4> HIDE DEF a, s, n, m, w, h, units, avg, books, part, share
      <4> QED  BY <2>7, <3>1
    <3> HIDE DEF a, s, n, m, w, h, units, avg, value, books, debt, gain, share
    <3> QED  BY <2>6, <2>7, <3>2, <3>3, Zenon
  <2>9. n <= books[st].short[s].units
    BY <2>1, <2>7
  <2> HIDE DEF a, s, n, m, w, h, units, avg, value, part, left, debt, gain
  <2> QED  BY <1>7, <2>8, <2>9, Zenon DEF Book!Cover, Covered
<1>13. \/ Book!Buy(st, s, n, f.price, f.fees) \/ Book!Sell(st, s, n, f.price, f.fees)
       \/ Book!ShortSell(st, s, n, f.price, f.fees) \/ Book!Cover(st, s, n, f.price, f.fees)
  <2> HIDE DEF s, n
  <2> QED  BY <1>9, <1>10, <1>11, <1>12, Zenon
           DEF IsOpenBuy, IsPlainSell, IsShortSell, IsCover
<1> HIDE DEF s, n
<1> QED  BY <1>8, <1>13 DEF Book!Next

\* Books adjusted, lost, saved and loaded.
LEMMA NoBooksFacts == BooksOf(Empty) = Book!NoBooks
<1>1. BookOf(NoAccount) = Book!NoBook
  <2>1. SharesOf(<< >>) = << >> /\ 0 - 0 = 0 /\ 0 * 0 = 0
    BY SharesOfNoLots
  <2>2. /\ NoAccount.cash = 0 /\ NoAccount.borrowedCash = 0 /\ NoAccount.profit = 0
        /\ \A s \in Symbols : /\ NoAccount.lots[s] = << >>
                              /\ NoAccount.borrowedShares[s] = 0
                              /\ NoAccount.avgPrice[s] = 0
    BY DEF NoAccount
  <2>3. [s \in Symbols |-> SharesOf(NoAccount.lots[s])] = [s \in Symbols |-> << >>]
    BY <2>1, <2>2
  <2>4. [s \in Symbols |-> [ units |-> NoAccount.borrowedShares[s],
                             proceeds |-> NoAccount.borrowedShares[s] * NoAccount.avgPrice[s] ]] =
          [s \in Symbols |-> [units |-> 0, proceeds |-> 0]]
    BY <2>1, <2>2
  <2> QED  BY <2>1, <2>2, <2>3, <2>4 DEF BookOf, Book!NoBook
<1> QED  BY <1>1 DEF BooksOf, Empty, Book!NoBooks

LEMMA OtherIsBookStep ==
  ASSUME TablesOK, Other
  PROVE  Book!Next
<1> DEFINE saved == IF file.state = "whole" THEN <<BooksOf(file.accounts)>> ELSE << >>
           read == {BooksOf(table) : table \in fetched}
<1>1. CASE ReclaimAll \/ Crash
  <2>1. /\ accounts' = Empty
        /\ file' = file \/ file' = TornFile
        /\ fetched' = fetched \/ fetched' = {}
    BY <1>1 DEF ReclaimAll, Crash
  <2>2. BooksOf(accounts') = Book!NoBooks
    BY <2>1, NoBooksFacts
  <2>3. saved' \in {saved, << >>} /\ read' \in {read, {}}
    BY <2>1 DEF TornFile
  <2> QED  BY <2>2, <2>3 DEF Book!Next, Book!Lose
<1>2. CASE Save
  <2>1. saved' = <<BooksOf(accounts)>> /\ accounts' = accounts /\ read' = read
    BY <1>2 DEF Save
  <2> QED  BY <2>1 DEF Book!Next, Book!Checkpoint
<1>3. CASE Fetch
  <2>1. /\ saved = <<BooksOf(file.accounts)>> /\ accounts' = accounts
        /\ saved' = saved /\ fetched' = fetched \cup {file.accounts}
    BY <1>3 DEF Fetch
  <2>2. saved # << >> /\ read' = read \cup {saved[1]}
    BY <2>1
  <2> QED  BY <2>1, <2>2 DEF Book!Next, Book!Read
<1>4. CASE Swap
  <2>1. /\ \E table \in fetched : accounts' = table
        /\ saved' = saved /\ read' = read
    BY <1>4 DEF Swap
  <2>2. BooksOf(accounts') \in read
    BY <2>1
  <2> QED  BY <2>1, <2>2 DEF Book!Next, Book!Restore
<1>5. ASSUME NEW st \in Strategies, NEW b \in Adjusted(accounts[st]), file' = file,
             fetched' = fetched,
             accounts' = [accounts EXCEPT ![st] = b]
      PROVE  Book!Next
  <2> DEFINE a == accounts[st]
             net == b.cash - b.borrowedCash
             books == BooksOf(accounts)
  <2>1. a \in Account /\ accounts \in [Strategies -> Account]
    BY DEF TablesOK
  <2>2. /\ b.quantity = a.quantity /\ b.lots = a.lots /\ b.avgPrice = a.avgPrice
        /\ b.profit = a.profit /\ b.borrowedShares = a.borrowedShares
    BY <2>1, AdjustedFacts
  <2>3. BookOf(b) = ABook(net, BookOf(a).realised, BookOf(a).owned, BookOf(a).short)
    <3> HIDE DEF a
    <3> QED  BY <2>2 DEF BookOf, ABook
  <2>4. books[st] = ABook(BookOf(a).net, BookOf(a).realised, BookOf(a).owned, BookOf(a).short)
    BY DEF BooksOf, BookOf, ABook
  <2>5. BooksOf(accounts') = Replaced(books, st, BookOf(b))
    BY <1>5, <2>1 DEF BooksOf, Replaced
  <2>6. BooksOf(accounts') = Funded(books, st, net)
    <3> HIDE DEF a, net, books
    <3> QED  BY <2>3, <2>4, <2>5, EditFacts
  <2>7. BooksOf(accounts')[st].net = net
    BY <1>5, <2>1 DEF BooksOf, BookOf
  <2>8. BooksOf(accounts') = Funded(books, st, BooksOf(accounts')[st].net)
    <3> HIDE DEF books, net
    <3> QED  BY <2>6, <2>7, Zenon
  <2>9. UNCHANGED <<saved, read>>
    BY <1>5
  <2>10. Book!Fund(st)
    <3> HIDE DEF a, net
    <3> QED  BY <2>8, <2>9, Zenon DEF Book!Fund, Funded
  <2> QED  BY <2>10 DEF Book!Next
<1> QED  BY <1>1, <1>2, <1>3, <1>4, <1>5, AdjustingSteps

\* Fed fills that fit, the ledger is a first-in first-out book: the shares a
\* strategy sells are the ones it bought first, its profit is what they earned
\* over their cost and fees, whatever margin, lots, average prices, checkpoints
\* and restarts do underneath.
THEOREM LedgerIsFifoBook == DisciplinedSpec => ImplementsFifoBook
<1> DEFINE saved == IF file.state = "whole" THEN <<BooksOf(file.accounts)>> ELSE << >>
           read == {BooksOf(table) : table \in fetched}
<1>1. Init => Book!Init
  <2> SUFFICES ASSUME Init PROVE Book!Init
    OBVIOUS
  <2>1. accounts = Empty /\ file.state = "absent" /\ read = {}
    BY DEF Init, NoFile
  <2> QED  BY <2>1, NoBooksFacts DEF Book!Init
<1>2. TablesOK /\ TidyInv /\ [DisciplinedNext]_vars => [Book!Next]_<<BooksOf(accounts), saved, read>>
  <2> SUFFICES ASSUME TablesOK, TidyInv, [DisciplinedNext]_vars
               PROVE  [Book!Next]_<<BooksOf(accounts), saved, read>>
    OBVIOUS
  <2>1. CASE UNCHANGED vars
    BY <2>1 DEF vars
  <2>2. CASE Other
    BY <2>2, OtherIsBookStep
  <2>3. CASE \E st \in Strategies, f \in Fills : DisciplinedFill(st, f)
    <3>1. \A st \in Strategies : Tidy(accounts[st])
      BY DEF TidyInv, EveryAccount
    <3> QED  BY <2>3, <3>1, FillIsBookStep
  <2> QED  BY <2>1, <2>2, <2>3 DEF DisciplinedNext
<1>3. DisciplinedSpec => []TablesOK
  <2>1. BooksInv => TablesOK
    BY DEF BooksInv
  <2> QED  BY <2>1, DisciplineIsSpec, BooksCorrect, PTL
<1> QED  BY <1>1, <1>2, <1>3, DisciplineKeepsTidy, PTL
         DEF DisciplinedSpec, ImplementsFifoBook, Book!Spec

-----------------------------------------------------------------------------
(* The book value. *)

\* Of a fill that fits: what the lots it leaves cost, and what the units sold
\* short are worth at their average price.
LEMMA CostAfterFill ==
  ASSUME NEW f \in Fill, Bookable(f), NEW a \in Account, Tidy(a), Fits(a, f)
  PROVE  LET before == LotCost(a.lots[f.symbol])
             after == LotCost(LotsAfter(a, f))
             worth == a.borrowedShares[f.symbol] * a.avgPrice[f.symbol]
             left == BorrowedSharesAfter(a, f) * AvgPriceAfter(a, f)
         IN  /\ IsOpenBuy(f) => after = before + Gross(f) /\ left = worth
             /\ IsPlainSell(f) =>
                  /\ RealisedProfit(a, f) = Gross(f) - f.fees - (before - after)
                  /\ left = worth
             /\ IsShortSell(f) =>
                  /\ after = before
                  /\ left = worth + Gross(f) - RoundedOff(a, f)
             /\ IsCover(f) =>
                  /\ after = before
                  /\ RealisedProfit(a, f) = (worth - left) - Gross(f) - f.fees
<1> DEFINE s == f.symbol
           n == Size(f)
           value == n * f.price
           units == a.borrowedShares[s]
           avg == a.avgPrice[s]
           owned == SharesOf(a.lots[s])
           before == LotCost(a.lots[s])
           after == LotCost(LotsAfter(a, f))
           left == BorrowedSharesAfter(a, f) * AvgPriceAfter(a, f)
<1>1. /\ s \in Symbols /\ n \in Nat \ {0} /\ f.price \in Nat /\ f.fees \in Nat
      /\ units \in Nat /\ avg \in Nat /\ Gross(f) = value /\ value \in Nat
      /\ a.lots[s] \in Seq(Lot) /\ a.quantity[s] \in Int
      /\ units = Most(-a.quantity[s], 0)
  BY FillFacts DEF Fill, Account, Gross, Tidy, ShortOnLoan
<1>2. /\ before = SumFunction(owned) /\ after = SumFunction(SharesOf(LotsAfter(a, f)))
      /\ before \in Nat /\ after \in Nat /\ owned \in Seq(Nat)
      /\ Len(owned) = LotTotal(a.lots[s])
  BY <1>1, LotCostIsShares, LotFacts, SharesTypes
<1>3. AvgPriceAfter(a, f) \in Nat /\ BorrowedSharesAfter(a, f) \in Nat
  BY PositionFacts, MoneyFacts
<1>4. ASSUME units = 0, BorrowedSharesAfter(a, f) = 0 PROVE left = units * avg
  <2>1. \A x \in Nat : 0 * x = 0
    OBVIOUS
  <2>2. 0 * avg = 0 /\ 0 * AvgPriceAfter(a, f) = 0
    BY <1>1, <1>3, <2>1
  <2> QED  BY <1>4, <2>2
<1>5. CASE IsOpenBuy(f)
  <2>1. SharesOf(LotsAfter(a, f)) = owned \o Alike(n, f.price)
    BY <1>5, SharesAfterFill
  <2>2. after = before + value
    <3> HIDE DEF owned, n, before, after
    <3>1. SumFunction(owned \o Alike(n, f.price)) = SumFunction(owned) + n * f.price
      BY <1>1, <1>2, SumConcat
    <3> QED  BY <1>2, <2>1, <3>1
  <2>3. left = units * avg
    BY <1>4, <1>5, ShortAverage
  <2> QED  BY <1>1, <1>5, <2>2, <2>3 DEF IsOpenBuy, IsPlainSell, IsShortSell, IsCover
<1>6. CASE IsPlainSell(f)
  <2>1. /\ n \in 1..Len(owned)
        /\ RealisedProfit(a, f) = Gross(f) - f.fees - SumFunction(Taken(owned, n))
    BY <1>6, ProfitAfterFill
  <2>2. SharesOf(LotsAfter(a, f)) = Kept(owned, n)
    BY <1>2, <1>6, <2>1, SharesAfterFill
  <2>3. /\ before = SumFunction(Taken(owned, n)) + after
        /\ SumFunction(Taken(owned, n)) \in Nat
    <3> HIDE DEF owned, n, before, after
    <3>1. n \in 0..Len(owned)
      BY <1>1, <2>1
    <3>2. SumFunction(owned) = SumFunction(Taken(owned, n)) + SumFunction(Kept(owned, n))
      BY <1>2, <3>1, SumOfParts
    <3>3. Taken(owned, n) \in Seq(Nat)
      BY <1>2, <3>1, PartFacts
    <3>4. SumFunction(Taken(owned, n)) \in Nat
      BY <3>3, SumAppend
    <3>5. before = SumFunction(owned) /\ after = SumFunction(Kept(owned, n))
      BY <1>2, <2>2
    <3> QED  BY <3>2, <3>4, <3>5
  <2>4. RealisedProfit(a, f) = Gross(f) - f.fees - (before - after)
    <3> DEFINE cost == SumFunction(Taken(owned, n))
               gross == Gross(f)
               fees == f.fees
               realised == RealisedProfit(a, f)
    <3>1. gross \in Nat /\ fees \in Nat
      BY <1>1
    <3>2. cost \in Nat /\ after \in Nat /\ before = cost + after
      BY <1>2, <2>3
    <3>3. realised = gross - fees - cost
      BY <2>1
    <3> HIDE DEF owned, n, before, after, value, cost, gross, fees, realised
    <3>4. realised = gross - fees - (before - after)
      BY <3>1, <3>2, <3>3
    <3> QED  BY <3>4 DEF gross, fees, realised
  <2>5. left = units * avg
    BY <1>4, <1>6, ShortAverage
  <2> QED  BY <1>6, <2>4, <2>5 DEF IsOpenBuy, IsPlainSell, IsShortSell, IsCover
<1>7. CASE IsShortSell(f)
  <2> DEFINE brought == units * avg + value
             all == units + n
  <2>1. after = before
    BY <1>2, <1>7, SharesAfterFill
  <2>2. left = all * (brought \div all)
    BY <1>7, ShortAverage
  <2>3. brought \in Nat /\ all \in Nat \ {0}
    <3>1. units * avg \in Nat /\ value \in Nat
      BY <1>1
    <3>2. units \in Nat /\ n \in Nat \ {0}
      BY <1>1
    <3> HIDE DEF units, avg, n, value
    <3>3. brought \in Nat
      BY <3>1
    <3>4. all \in Nat \ {0}
      BY <3>2
    <3> QED  BY <3>3, <3>4
  <2>4. RoundedOff(a, f) = brought % all
    BY <1>1, <1>7 DEF RoundedOff
  <2>5. all * (brought \div all) = brought - (brought % all)
    <3> HIDE DEF brought, all
    <3> QED  BY <2>3
  <2>6. left = units * avg + Gross(f) - RoundedOff(a, f)
    <3>1. units * avg + Gross(f) = brought
      BY <1>1
    <3>2. units * avg \in Nat /\ Gross(f) \in Nat
      BY <1>1
    <3> HIDE DEF left, brought, all, units, avg
    <3>3. brought % all \in Int
      BY <2>3
    <3> QED  BY <2>2, <2>3, <2>4, <2>5, <3>1, <3>2, <3>3
  <2> QED  BY <1>7, <2>1, <2>6 DEF IsOpenBuy, IsPlainSell, IsShortSell, IsCover
<1>8. CASE IsCover(f)
  <2>1. after = before
    BY <1>2, <1>8, SharesAfterFill
  <2>2. /\ BorrowedSharesAfter(a, f) = units - n
        /\ units - n # 0 => AvgPriceAfter(a, f) = avg
        /\ RealisedProfit(a, f) = (avg - f.price) * n - f.fees
    BY <1>8, ShortAverage, ProfitAfterFill
  <2>3. left = units * avg - n * avg
    <3>1. (units - n) * avg = units * avg - n * avg
      <4> HIDE DEF units, n, avg
      <4> QED  BY <1>1
    <3>2. CASE units - n # 0
      BY <2>2, <3>1, <3>2
    <3>3. CASE units - n = 0
      <4>1. \A x \in Nat : 0 * x = 0
        OBVIOUS
      <4>2. 0 * avg = 0 /\ 0 * AvgPriceAfter(a, f) = 0
        BY <1>1, <1>3, <4>1
      <4>3. left = 0 * AvgPriceAfter(a, f)
        BY <2>2, <3>3
      <4>4. units * avg - n * avg = 0 * avg
        BY <3>1, <3>3
      <4> HIDE DEF left, units, n, avg
      <4> QED  BY <4>2, <4>3, <4>4
    <3> QED  BY <3>2, <3>3
  <2>4. (avg - f.price) * n = n * avg - value
    <3> DEFINE price == f.price
    <3>1. avg \in Nat /\ price \in Nat /\ n \in Nat
      BY <1>1
    <3> HIDE DEF avg, n, price
    <3>2. (avg - price) * n = n * avg - n * price
      BY <3>1
    <3> QED  BY <3>2 DEF price
  <2>5. RealisedProfit(a, f) = (units * avg - left) - Gross(f) - f.fees
    <3> DEFINE worth == units * avg
               part == n * avg
               gross == Gross(f)
               fees == f.fees
               realised == RealisedProfit(a, f)
    <3>1. worth \in Nat /\ part \in Nat /\ gross = value /\ value \in Nat /\ fees \in Nat
      <4>1. \A x, y \in Nat : x * y \in Nat
        OBVIOUS
      <4>2. worth \in Nat /\ part \in Nat
        BY <1>1, <4>1
      <4> QED  BY <1>1, <4>2
    <3>2. left = worth - part
      BY <2>3
    <3>3. realised = (part - value) - fees
      BY <2>2, <2>4
    <3> HIDE DEF units, avg, n, value, left, worth, part, gross, fees, realised
    <3>4. realised = (worth - left) - gross - fees
      BY <3>1, <3>2, <3>3
    <3> QED  BY <3>4 DEF worth, gross, fees, realised
  <2> QED  BY <1>8, <2>1, <2>5 DEF IsOpenBuy, IsPlainSell, IsShortSell, IsCover
<1> QED  BY <1>5, <1>6, <1>7, <1>8 DEF IsOpenBuy, IsPlainSell, IsShortSell, IsCover

LEMMA PositionCostTypes ==
  ASSUME NEW a \in Account, NEW s \in Symbols
  PROVE  PositionCost(a, s) \in Int
<1>1. /\ a.lots[s] \in Seq(Lot) /\ a.quantity[s] \in Int /\ a.avgPrice[s] \in Nat
  BY DEF Account
<1>2. LotCost(a.lots[s]) \in Nat
  BY <1>1, LotCostIsShares
<1>3. Most(-a.quantity[s], 0) \in Nat
  BY <1>1 DEF Most
<1>4. Most(-a.quantity[s], 0) * a.avgPrice[s] \in Nat
  BY <1>1, <1>3
<1> QED  BY <1>2, <1>4 DEF PositionCost

\* A fill that fits changes the book value by what it realises, by its fees if it
\* opens a position, and by what a rounded average price loses.
LEMMA GainAfterFill ==
  ASSUME NEW f \in Fill, Bookable(f), NEW a \in Account, Tidy(a), Fits(a, f)
  PROVE  BookValue(AccountAfter(a, f)) - BookValue(a) =
           RealisedProfit(a, f)
           - (IF IsOpenBuy(f) \/ IsShortSell(f) THEN f.fees ELSE 0)
           + RoundedOff(a, f)
<1> DEFINE s == f.symbol
           b == AccountAfter(a, f)
           costs(c) == [t \in Symbols |-> PositionCost(c, t)]
           before == LotCost(a.lots[s])
           after == LotCost(LotsAfter(a, f))
           worth == a.borrowedShares[s] * a.avgPrice[s]
           left == BorrowedSharesAfter(a, f) * AvgPriceAfter(a, f)
           flow == CashDelta(a, f) - DebtDelta(a, f)
<1> SUFFICES BookValue(b) - BookValue(a) =
               RealisedProfit(a, f)
               - (IF IsOpenBuy(f) \/ IsShortSell(f) THEN f.fees ELSE 0)
               + RoundedOff(a, f)
  OBVIOUS
<1>1. /\ s \in Symbols /\ b \in Account /\ f.fees \in Nat /\ Gross(f) \in Nat
      /\ a.cash \in Int /\ a.borrowedCash \in Nat /\ flow \in Int
  <2>1. b \in Account
    BY FillTypes
  <2>2. flow \in Int
    BY MoneyFacts
  <2>3. /\ s \in Symbols /\ f.fees \in Nat /\ Gross(f) \in Nat
        /\ a.cash \in Int /\ a.borrowedCash \in Nat
    BY FillFacts DEF Fill, Account
  <2> QED  BY <2>1, <2>2, <2>3
<1>2. b.cash - b.borrowedCash = (a.cash - a.borrowedCash) + flow
  <2>1. CashDelta(a, f) \in Int /\ DebtDelta(a, f) \in Int
    BY MoneyFacts
  <2> QED  BY <1>1, <2>1 DEF AccountAfter
<1>3. ShortOnLoan(b)
  BY FillKeepsShortOnLoan DEF Tidy
<1>4. PositionCost(a, s) = before - worth
  BY <1>1 DEF PositionCost, Tidy, ShortOnLoan
<1>5. PositionCost(b, s) = after - left
  <2>1. /\ b.lots[s] = LotsAfter(a, f) /\ b.avgPrice[s] = AvgPriceAfter(a, f)
        /\ b.borrowedShares[s] = BorrowedSharesAfter(a, f)
    BY <1>1 DEF AccountAfter, Account
  <2> HIDE DEF b
  <2>2. b.borrowedShares[s] = Most(-b.quantity[s], 0)
    BY <1>1, <1>3 DEF ShortOnLoan
  <2> QED  BY <2>1, <2>2 DEF PositionCost
<1>6. costs(b) = [costs(a) EXCEPT ![s] = PositionCost(b, s)]
  <2>1. ASSUME NEW t \in Symbols, t # s PROVE PositionCost(b, t) = PositionCost(a, t)
    <3>1. b.lots[t] = a.lots[t] /\ b.avgPrice[t] = a.avgPrice[t] /\ b.quantity[t] = a.quantity[t]
      BY <1>1, <2>1 DEF AccountAfter, Account
    <3> QED  BY <3>1 DEF PositionCost
  <2> HIDE DEF b
  <2> QED  BY <1>1, <2>1
<1>7. costs(a) \in [Symbols -> Int] /\ PositionCost(b, s) \in Int /\ PositionCost(a, s) \in Int
  BY <1>1, PositionCostTypes
<1>8. SumFunction(costs(b)) = SumFunction(costs(a)) + (PositionCost(b, s) - PositionCost(a, s))
  <2> DEFINE old == costs(a)
             new == costs(b)
             cost == PositionCost(b, s)
  <2>1. old[s] = PositionCost(a, s) /\ old \in [Symbols -> Int] /\ cost \in Int
        /\ new = [old EXCEPT ![s] = cost]
    BY <1>1, <1>6, <1>7
  <2> HIDE DEF old, new, cost
  <2>2. SumFunction([old EXCEPT ![s] = cost]) = SumFunction(old) + (cost - old[s])
    BY <1>1, <2>1, SymbolsAssumption, SumUpdate
  <2>3. SumFunction(new) = SumFunction(old) + (cost - PositionCost(a, s))
    BY <2>1, <2>2
  <2> QED  BY <2>3 DEF old, new, cost
<1>9. SumFunction(costs(a)) \in Int
  <2> HIDE DEF costs
  <2>1. Numeric(costs(a), Symbols) /\ DOMAIN costs(a) = Symbols
    BY <1>7, SymbolsAssumption DEF Numeric
  <2> QED  BY <2>1, SumOfPart DEF SumFunction
<1>10. BookValue(b) - BookValue(a) = flow + ((after - left) - (before - worth))
  <2>1. /\ BookValue(a) = (a.cash - a.borrowedCash) + SumFunction(costs(a))
        /\ BookValue(b) = (b.cash - b.borrowedCash) + SumFunction(costs(b))
    BY DEF BookValue
  <2>2. a.cash - a.borrowedCash \in Int
    BY <1>1
  <2> HIDE DEF costs, b, flow, after, left, before, worth
  <2> QED  BY <1>1, <1>2, <1>4, <1>5, <1>7, <1>8, <1>9, <2>1, <2>2
<1>11. flow = (IF IsBuy(f) THEN -Gross(f) ELSE Gross(f)) - f.fees
  BY NetFacts
<1>12. /\ before \in Nat /\ after \in Nat /\ worth \in Nat /\ left \in Nat
  <2>1. /\ a.lots[s] \in Seq(Lot) /\ LotsAfter(a, f) \in Seq(Lot)
        /\ a.borrowedShares[s] \in Nat /\ a.avgPrice[s] \in Nat
        /\ BorrowedSharesAfter(a, f) \in Nat /\ AvgPriceAfter(a, f) \in Nat
    BY <1>1, LotFacts, MoneyFacts, PositionFacts DEF Account
  <2>2. before \in Nat /\ after \in Nat
    BY <2>1, LotCostIsShares
  <2>3. worth \in Nat /\ left \in Nat
    <3>1. \A x, y \in Nat : x * y \in Nat
      OBVIOUS
    <3> QED  BY <2>1, <3>1
  <2> QED  BY <2>2, <2>3
<1>13. /\ IsOpenBuy(f) => after = before + Gross(f) /\ left = worth
       /\ IsPlainSell(f) =>
            /\ RealisedProfit(a, f) = Gross(f) - f.fees - (before - after)
            /\ left = worth
       /\ IsShortSell(f) => after = before /\ left = worth + Gross(f) - RoundedOff(a, f)
       /\ IsCover(f) =>
            /\ after = before
            /\ RealisedProfit(a, f) = (worth - left) - Gross(f) - f.fees
  BY CostAfterFill
<1>14. /\ IsOpenBuy(f) \/ IsShortSell(f) => RealisedProfit(a, f) = 0
       /\ ~IsShortSell(f) => RoundedOff(a, f) = 0
  BY ProfitAfterFill DEF RoundedOff
<1> HIDE DEF b, flow, after, left, before, worth
<1>15. CASE IsOpenBuy(f)
  <2>1. IsBuy(f) /\ ~IsShortSell(f)
    BY <1>15 DEF IsOpenBuy, IsShortSell
  <2> QED  BY <1>1, <1>10, <1>11, <1>12, <1>13, <1>14, <1>15, <2>1
<1>16. CASE IsPlainSell(f)
  <2>1. ~IsBuy(f) /\ ~IsShortSell(f) /\ ~IsOpenBuy(f)
    BY <1>16 DEF IsOpenBuy, IsShortSell, IsPlainSell
  <2> QED  BY <1>1, <1>10, <1>11, <1>12, <1>13, <1>14, <1>16, <2>1
<1>17. CASE IsShortSell(f)
  <2>1. ~IsBuy(f) /\ RoundedOff(a, f) = worth + Gross(f) - left
    <3>1. RoundedOff(a, f) \in Int
      <4>1. Most(-a.quantity[s], 0) \in Nat /\ a.avgPrice[s] \in Nat /\ Size(f) \in Nat \ {0}
        <5>1. a.quantity[s] \in Int /\ a.avgPrice[s] \in Nat
          BY <1>1 DEF Account
        <5> QED  BY <5>1, FillFacts DEF Most
      <4>2. /\ Most(-a.quantity[s], 0) * a.avgPrice[s] + Gross(f) \in Nat
            /\ Most(-a.quantity[s], 0) + Size(f) \in Nat \ {0}
        BY <1>1, <4>1
      <4>3. (Most(-a.quantity[s], 0) * a.avgPrice[s] + Gross(f))
              % (Most(-a.quantity[s], 0) + Size(f)) \in Int
        BY <4>2
      <4> QED  BY <1>17, <4>3 DEF RoundedOff
    <3> QED  BY <1>1, <1>12, <1>13, <1>17, <3>1 DEF IsShortSell
  <2> QED  BY <1>1, <1>10, <1>11, <1>12, <1>13, <1>14, <1>17, <2>1
<1>18. CASE IsCover(f)
  <2>1. IsBuy(f) /\ ~IsShortSell(f) /\ ~IsOpenBuy(f)
    BY <1>18 DEF IsCover, IsOpenBuy, IsShortSell
  <2> QED  BY <1>1, <1>10, <1>11, <1>12, <1>13, <1>14, <1>18, <2>1
<1> QED  BY <1>15, <1>16, <1>17, <1>18 DEF IsCover, IsOpenBuy, IsShortSell, IsPlainSell, b

\* Fed fills that fit, the profit an account shows is what its book value gained:
\* of any position, however it was bought, averaged, split into lots, partly sold
\* and carried through saves and loads.
THEOREM ProfitIsGained == DisciplinedSpec => ProfitIsBookGain
<1>1. TablesOK /\ TidyInv /\ [DisciplinedNext]_vars =>
        \A st \in Strategies, f \in Fills :
          DisciplinedFill(st, f) =>
            BookValue(accounts'[st]) - BookValue(accounts[st]) =
              accounts'[st].profit - accounts[st].profit
              - (IF IsOpenBuy(f) \/ IsShortSell(f) THEN f.fees ELSE 0)
              + RoundedOff(accounts[st], f)
  <2> SUFFICES ASSUME TablesOK, TidyInv, NEW st \in Strategies, NEW f \in Fills,
                      DisciplinedFill(st, f)
               PROVE  BookValue(accounts'[st]) - BookValue(accounts[st]) =
                        accounts'[st].profit - accounts[st].profit
                        - (IF IsOpenBuy(f) \/ IsShortSell(f) THEN f.fees ELSE 0)
                        + RoundedOff(accounts[st], f)
    OBVIOUS
  <2> DEFINE a == accounts[st]
  <2>1. Fits(a, f) /\ ApplyFill(st, f) /\ a \in Account /\ Tidy(a)
    BY DEF DisciplinedFill, TablesOK, TidyInv, EveryAccount
  <2>2. f \in Fill /\ Bookable(f) /\ accounts'[st] = AccountAfter(a, f)
    BY <2>1, FillSteps
  <2>3. /\ a.profit \in Int /\ AccountAfter(a, f) \in Account
        /\ AccountAfter(a, f).profit = a.profit + RealisedProfit(a, f)
    BY <2>1, <2>2, FillTypes DEF Account, AccountAfter
  <2>4. AccountAfter(a, f).profit \in Int
    BY <2>3 DEF Account
  <2>5. RealisedProfit(a, f) \in Int
    BY <2>1, <2>2, RealisedTypes
  <2>6. AccountAfter(a, f).profit - a.profit = RealisedProfit(a, f)
    BY <2>3, <2>5
  <2>7. BookValue(AccountAfter(a, f)) - BookValue(a) =
          RealisedProfit(a, f) - (IF IsOpenBuy(f) \/ IsShortSell(f) THEN f.fees ELSE 0)
          + RoundedOff(a, f)
    BY <2>1, <2>2, GainAfterFill
  <2> HIDE DEF a
  <2>8. BookValue(AccountAfter(a, f)) - BookValue(a) =
          AccountAfter(a, f).profit - a.profit
          - (IF IsOpenBuy(f) \/ IsShortSell(f) THEN f.fees ELSE 0) + RoundedOff(a, f)
    BY <2>6, <2>7
  <2> QED  BY <2>2, <2>8 DEF a
<1>2. DisciplinedSpec => []TablesOK
  <2>1. BooksInv => TablesOK
    BY DEF BooksInv
  <2> QED  BY <2>1, DisciplineIsSpec, BooksCorrect, PTL
<1> QED  BY <1>1, <1>2, DisciplineKeepsTidy, PTL DEF DisciplinedSpec, ProfitIsBookGain
=============================================================================
