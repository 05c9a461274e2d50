------------------------ MODULE TickFlowPollerProofs ------------------------
(***************************************************************************)
(* The polling thread leaves no symbol out of a round and keeps its        *)
(* pauses, for any set of symbols, any size of the batches and any calls.  *)
(*                                                                         *)
(* The offset is a number, the rest of the proof turns it into symbols:    *)
(* while nobody changes the set, those before the offset have been asked   *)
(* for.  For the pauses, the stage and the errors counted tell how many    *)
(* requests failed in a row, and nobody asks while a pause is under way.   *)
(***************************************************************************)
EXTENDS TickFlowPoller, FiniteSetTheorems, TLAPS

\* What was asked for in an undisturbed round is what comes before the offset.
AskedBeforeOffset ==
  ~disturbed => \A s \in watched : Rank(s) < offset => s \in asked

\* Only an idle worker pauses; it has no errors then.
PausesAreIdle ==
  /\ paused => pc \in {"loop", "done"} /\ errors = 0
  /\ pausing => paused

\* The errors counted are the failures in a row, until the last stage.
FailuresAreCounted == backoff < 3 => inARow = errors

RoundInv == TypeOK /\ AskedBeforeOffset
PauseInv == TypeOK /\ PausesAreIdle /\ FailuresAreCounted

-----------------------------------------------------------------------------
(* Ranks. *)

\* A symbol of the set has fewer symbols before it than the set has.
LEMMA RankIsLess ==
  ASSUME TypeOK, NEW s \in watched
  PROVE  Rank(s) \in Nat /\ Cardinality(watched) \in Nat
         /\ Rank(s) < Cardinality(watched)
<1> DEFINE before == {r \in watched : r < s}
<1>1. IsFiniteSet(watched)
  BY FS_Subset, PollerAssumption DEF TypeOK
<1>2. before \in SUBSET watched /\ before # watched
  BY PollerAssumption DEF TypeOK
<1>3. Cardinality(before) <= Cardinality(watched)
      /\ (Cardinality(watched) = Cardinality(before) => watched = before)
      /\ IsFiniteSet(before)
  BY <1>1, <1>2, FS_Subset
<1>4. Cardinality(before) \in Nat /\ Cardinality(watched) \in Nat
  BY <1>1, <1>3, FS_CardinalityType
<1>5. Rank(s) = Cardinality(before)
  BY DEF Rank
<1> QED  BY <1>2, <1>3, <1>4, <1>5

LEMMA WatchedIsCounted ==
  ASSUME TypeOK
  PROVE  Cardinality(watched) \in Nat
BY FS_Subset, FS_CardinalityType, PollerAssumption DEF TypeOK

\* Where a batch starts and where it ends are positions.
LEMMA PositionsAreNumbers ==
  ASSUME TypeOK
  PROVE  /\ Start \in Nat /\ Upper \in Nat
         /\ Upper <= Start + BatchSize
BY WatchedIsCounted, PollerAssumption DEF TypeOK, Start, Upper

-----------------------------------------------------------------------------
(* Types. *)

\* A call names symbols only, and knows what to do with them.
LEMMA CallsNameSymbols ==
  ASSUME NEW c \in Call, c # NoCall
  PROVE  c.op \in {"add", "remove", "set"} /\ c.symbols \subseteq Symbols
<1>1. c \in [op : {"add", "remove", "set"}, symbols : Named]
  BY DEF Call
<1> QED  BY <1>1, PollerAssumption

LEMMA TypeInit == Init => TypeOK
<1> SUFFICES ASSUME Init PROVE TypeOK
  OBVIOUS
<1>1. call \in Call
  BY DEF Init, Call
<1>2. login \in BOOLEAN /\ stop \in BOOLEAN /\ paused \in BOOLEAN
      /\ pausing \in BOOLEAN /\ disturbed \in BOOLEAN
  BY Zenon DEF Init
<1>3. watched \subseteq Symbols /\ batch \subseteq Symbols /\ asked \subseteq Symbols
  BY DEF Init
<1>4. offset \in Nat /\ errors \in 0..2 /\ backoff \in 0..3 /\ inARow \in 0..3
      /\ pc = "loop"
  BY DEF Init
<1> QED  BY <1>1, <1>2, <1>3, <1>4 DEF TypeOK

LEMMA TypeStep == TypeOK /\ [Next]_vars => TypeOK'
<1> SUFFICES ASSUME TypeOK, [Next]_vars PROVE TypeOK'
  OBVIOUS
<1> USE DEF TypeOK, shared, round, back
<1>1. ASSUME NEW op \in {"add", "remove", "set"}, NEW symbols \in Named,
             CallBridge(op, symbols)
      PROVE  TypeOK'
  <2>1. call' \in Call
    BY <1>1 DEF CallBridge, Call
  <2> QED  BY <1>1, <2>1 DEF CallBridge
<1>2. CASE Apply
  <2>1. watched' \subseteq Symbols
    <3>1. call.op \in {"add", "remove", "set"} /\ call.symbols \subseteq Symbols
      BY <1>2, CallsNameSymbols DEF Apply
    <3> QED  BY <1>2, <3>1 DEF Apply, Changed
  <2>2. call' \in Call
    BY <1>2 DEF Apply, Call
  <2> QED  BY <1>2, <2>1, <2>2 DEF Apply
<1>3. CASE Release  BY <1>3 DEF Release
<1>4. CASE Stop  BY <1>4 DEF Stop
<1>5. CASE PauseEnds  BY <1>5 DEF PauseEnds
<1>6. CASE Begin
  <2>1. errors' \in 0..2
    BY <1>6 DEF Begin
  <2>2. paused' \in BOOLEAN
    BY <1>6, Zenon DEF Begin
  <2> QED  BY <1>6, <2>1, <2>2 DEF Begin
<1>7. CASE Wait  BY <1>7 DEF Wait
<1>8. CASE CheckList  BY <1>8 DEF CheckList
<1>9. CASE Wake  BY <1>9 DEF Wake
<1>10. CASE Quit  BY <1>10 DEF Quit
<1>11. CASE Send
  <2>1. Batch \subseteq Symbols
    BY DEF Batch
  <2> QED  BY <1>11, <2>1, PositionsAreNumbers DEF Send
<1>12. CASE SendNothing  BY <1>12, PositionsAreNumbers DEF SendNothing
<1>13. CASE Answered  BY <1>13 DEF Answered
<1>14. CASE Failed  BY <1>14 DEF Failed, TooMany
<1>15. CASE UNCHANGED vars  BY <1>15 DEF vars
<1> QED
  BY <1>1, <1>2, <1>3, <1>4, <1>5, <1>6, <1>7, <1>8, <1>9, <1>10, <1>11, <1>12,
     <1>13, <1>14, <1>15 DEF Next, Worker

\* All variables keep their types, whatever is called and whatever fails.
THEOREM TypesAreKept == Spec => []TypeOK
BY TypeInit, TypeStep, PTL DEF Spec

-----------------------------------------------------------------------------
(* Rounds. *)

LEMMA RoundStep == RoundInv /\ [Next]_vars => RoundInv'
<1> SUFFICES ASSUME RoundInv, [Next]_vars PROVE AskedBeforeOffset'
  BY TypeStep DEF RoundInv
<1> USE DEF RoundInv, AskedBeforeOffset, Rank
<1>1. ASSUME watched' = watched, offset' = offset, asked' = asked, disturbed' = disturbed
      PROVE  AskedBeforeOffset'
  BY <1>1
<1>2. CASE Apply
  <2>1. CASE watched' = watched
    BY <1>1, <1>2, <2>1 DEF Apply, TypeOK
  <2>2. CASE watched' # watched
    BY <1>2, <2>2 DEF Apply
  <2> QED  BY <2>1, <2>2
<1>3. CASE Send
  <2> SUFFICES ASSUME ~disturbed', NEW s \in watched, Rank(s) < Upper
               PROVE  s \in asked'
    BY <1>3 DEF Send, shared
  <2>1. Rank(s) \in Nat /\ Cardinality(watched) \in Nat /\ Rank(s) < Cardinality(watched)
    BY RankIsLess
  <2>2. Upper <= Start + BatchSize /\ Start \in Nat /\ Upper \in Nat
    BY PositionsAreNumbers
  <2>3. CASE Rank(s) >= Start
    <3>1. s \in Batch
      BY <2>1, <2>2, <2>3, PollerAssumption DEF Batch
    <3> QED  BY <1>3, <3>1 DEF Send
  <2>4. CASE Rank(s) < Start
    <3>1. Start = offset /\ ~(offset >= Cardinality(watched))
      BY <2>1, <2>4 DEF Start
    <3>2. ~disturbed /\ asked' = asked \cup Batch
      BY <1>3, <3>1 DEF Send
    <3> QED  BY <2>4, <3>1, <3>2
  <2> QED  BY <2>1, <2>2, <2>3, <2>4
<1>4. CASE SendNothing
  <2> SUFFICES ASSUME ~disturbed', NEW s \in watched, Rank(s) < offset'
               PROVE  s \in asked
    BY <1>4 DEF SendNothing, shared
  <2>1. Rank(s) \in Nat /\ offset \in Nat
    BY RankIsLess DEF TypeOK
  <2>2. Rank(s) < offset
    BY <1>4, <2>1 DEF SendNothing, Start
  <2> QED  BY <1>4, <2>2 DEF SendNothing
<1>5. CASE (\E op \in {"add", "remove", "set"}, symbols \in Named : CallBridge(op, symbols))
           \/ Release \/ Stop \/ PauseEnds
  BY <1>1, <1>5 DEF CallBridge, Release, Stop, PauseEnds, round, shared
<1>6. CASE Begin \/ Wait \/ CheckList \/ Wake \/ Quit \/ Answered \/ Failed
  BY <1>1, <1>6 DEF Begin, Wait, CheckList, Wake, Quit, Answered, Failed, round, shared
<1>7. CASE UNCHANGED vars
  BY <1>1, <1>7 DEF vars, round, shared
<1> QED  BY <1>2, <1>3, <1>4, <1>5, <1>6, <1>7 DEF Next, Worker

\* Round-robin over a set that others change leaves nobody out of a round in
\* which they did not (FetchQuotes).
THEOREM NobodyIsLeftOut == Spec => RoundsAreComplete
<1>1. Init => RoundInv
  BY TypeInit DEF Init, RoundInv, AskedBeforeOffset
<1>2. RoundInv /\ [Next]_vars =>
        [Send /\ ~disturbed /\ offset >= Cardinality(watched) => watched \subseteq asked]_vars
  <2> SUFFICES ASSUME RoundInv, ~disturbed, offset >= Cardinality(watched)
               PROVE  watched \subseteq asked
    OBVIOUS
  <2>1. offset \in Nat
    BY DEF RoundInv, TypeOK
  <2>2. ASSUME NEW s \in watched PROVE s \in asked
    <3>1. Rank(s) \in Nat /\ Cardinality(watched) \in Nat /\ Rank(s) < Cardinality(watched)
      BY RankIsLess DEF RoundInv
    <3> QED  BY <2>1, <3>1 DEF RoundInv, AskedBeforeOffset
  <2> QED  BY <2>2
<1> QED  BY <1>1, <1>2, RoundStep, PTL DEF Spec, RoundsAreComplete

-----------------------------------------------------------------------------
(* Pauses. *)

LEMMA PauseStep == PauseInv /\ [Next]_vars => PauseInv'
<1> SUFFICES ASSUME PauseInv, [Next]_vars
             PROVE  PausesAreIdle' /\ FailuresAreCounted'
  BY TypeStep DEF PauseInv
<1> USE DEF PauseInv, PausesAreIdle, FailuresAreCounted
<1>1. CASE UNCHANGED <<back, pc>>
  BY <1>1 DEF back
<1>2. CASE Begin  BY <1>2 DEF Begin
<1>3. CASE PauseEnds  BY <1>3 DEF PauseEnds
<1>4. CASE Wait \/ CheckList \/ Wake \/ Quit \/ Send \/ SendNothing
  BY <1>4 DEF Wait, CheckList, Wake, Quit, Send, SendNothing, back
<1>5. CASE Answered  BY <1>5 DEF Answered
<1>6. CASE Failed  BY <1>6 DEF Failed, TooMany, TypeOK
<1>7. CASE (\E op \in {"add", "remove", "set"}, symbols \in Named : CallBridge(op, symbols))
           \/ Apply \/ Release \/ Stop \/ UNCHANGED vars
  BY <1>1, <1>7 DEF CallBridge, Apply, Release, Stop, vars
<1> QED  BY <1>2, <1>3, <1>4, <1>5, <1>6, <1>7 DEF Next, Worker

\* No request during a pause, and none after three failures in a row before
\* the last stage (HandleApiError).
THEOREM PausesAreKept == Spec => PausesFollowFailures
<1>1. Init => PauseInv
  BY TypeInit DEF Init, PauseInv, PausesAreIdle, FailuresAreCounted
<1>2. PauseInv /\ [Next]_vars =>
        [Send => ~pausing /\ (inARow < 3 \/ backoff = 3)]_vars
  BY DEF PauseInv, PausesAreIdle, FailuresAreCounted, TypeOK, Send
<1> QED  BY <1>1, <1>2, PauseStep, PTL DEF Spec, PausesFollowFailures
=============================================================================
