-------------------------- MODULE FillJournalProofs --------------------------
(***************************************************************************)
(* Fills are durable for any number of fills, threads and crashes.         *)
(*                                                                         *)
(* A crash may come at any time, so the proof says what the file and the   *)
(* decision log hold as long as nobody needs them: a whole file has every  *)
(* fill that was answered, a torn one is being written or was struck, and  *)
(* then the log has the manual fills.                                      *)
(***************************************************************************)
EXTENDS FillJournal, TLAPS

UnderWay(f) == stage[f] \in {"booked", "marked", "saving"}

\* What no crash need give back: orders, and decisions that were put away.
Forgotten(f) == struck /\ f \notin ManualFills \ closed

\* The mutex is held by the thread that writes, which has torn the file.
WriterSaves ==
  /\ \A f \in FillIds : stage[f] = "saving" => writer = f
  /\ writer # Nobody => up /\ stage[writer] = "saving" /\ disk.state = "torn"
  /\ disk.state = "torn" /\ writer = Nobody => ~up /\ struck

\* Requests are under way in a process that runs, and their fills in its ledger.
FillsAreBooked ==
  /\ \A f \in FillIds : UnderWay(f) => up /\ f \in ledger
  /\ \A f \in ManualFills : stage[f] \in {"marked", "saving", "answered"} => f \in executed

\* Whatever is booked, written or logged was reported.
ReportedOnly ==
  \A f \in ledger \cup disk.account \cup executed : f \in FillIds /\ stage[f] # "new"

\* The file has what was answered, and nothing that memory lacks.
FileHoldsAnswered ==
  /\ disk.state = "absent" => \A f \in FillIds : stage[f] # "answered"
  /\ disk.state = "whole" =>
       \A f \in FillIds : stage[f] = "answered" => f \in disk.account \/ Forgotten(f)
  /\ up /\ disk.state # "torn" =>
       /\ disk.account \subseteq ledger
       /\ \A f \in ledger \ disk.account : UnderWay(f)

JournalInv ==
  /\ TypeOK /\ WriterSaves /\ FillsAreBooked /\ ReportedOnly
  /\ FileHoldsAnswered /\ AnsweredFillsAreHeld

-----------------------------------------------------------------------------

\* Only the stage of the fill that takes a step changes.
LEMMA GotoMoves ==
  ASSUME TypeOK, NEW f \in FillIds, NEW from \in Stages, NEW to \in Stages,
         Goto(f, from, to)
  PROVE  /\ stage' \in [FillIds -> Stages]
         /\ stage[f] = from /\ stage'[f] = to
         /\ \A g \in FillIds \ {f} : stage'[g] = stage[g]
BY DEF TypeOK, Goto

LEMMA JournalInit == Init => JournalInv
<1> SUFFICES ASSUME Init PROVE JournalInv
  OBVIOUS
<1> USE NobodyAssumption, JournalAssumption DEF Init
<1>1. TypeOK
  <2>1. up \in BOOLEAN /\ struck \in BOOLEAN
    BY Zenon
  <2>2. disk \in [state : {"absent", "torn", "whole"}, account : SUBSET FillIds]
    BY DEF Absent
  <2>3. stage \in [FillIds -> Stages] /\ crashes \in 0..MaxCrashes
    BY DEF Stages
  <2> QED  BY <2>1, <2>2, <2>3 DEF TypeOK
<1>2. WriterSaves /\ FillsAreBooked /\ ReportedOnly
  BY DEF WriterSaves, FillsAreBooked, ReportedOnly, UnderWay, Absent, FillIds
<1>3. FileHoldsAnswered /\ AnsweredFillsAreHeld
  BY DEF FileHoldsAnswered, AnsweredFillsAreHeld, Absent
<1> QED  BY <1>1, <1>2, <1>3 DEF JournalInv

\* A fill gets into the ledger of a process, and is under way from then on.
LEMMA BookStep ==
  ASSUME JournalInv, NEW f \in FillIds, Book(f)
  PROVE  JournalInv'
<1> USE DEF JournalInv
<1>1. /\ stage' \in [FillIds -> Stages]
      /\ stage[f] = "new" /\ stage'[f] = "booked"
      /\ \A g \in FillIds \ {f} : stage'[g] = stage[g]
  BY GotoMoves DEF Book, Stages
<1>2. /\ up /\ writer = Nobody /\ ledger' = ledger \cup {f}
      /\ up' = up /\ disk' = disk /\ executed' = executed /\ closed' = closed
      /\ writer' = writer /\ struck' = struck /\ crashes' = crashes
  BY DEF Book
<1>3. TypeOK'
  BY <1>1, <1>2 DEF TypeOK
<1>4. WriterSaves'
  BY <1>1, <1>2 DEF WriterSaves
<1>5. FillsAreBooked'
  BY <1>1, <1>2 DEF FillsAreBooked, UnderWay, FillIds
<1>6. ReportedOnly'
  BY <1>1, <1>2 DEF ReportedOnly
<1>7. FileHoldsAnswered'
  BY <1>1, <1>2 DEF FileHoldsAnswered, UnderWay, Forgotten, ReportedOnly
<1>8. AnsweredFillsAreHeld'
  BY <1>1, <1>2 DEF AnsweredFillsAreHeld
<1> QED  BY <1>3, <1>4, <1>5, <1>6, <1>7, <1>8

LEMMA MarkStep ==
  ASSUME JournalInv, NEW f \in FillIds, Mark(f)
  PROVE  JournalInv'
<1> USE DEF JournalInv
<1>1. /\ stage' \in [FillIds -> Stages]
      /\ stage[f] = "booked" /\ stage'[f] = "marked"
      /\ \A g \in FillIds \ {f} : stage'[g] = stage[g]
  BY GotoMoves DEF Mark, Stages
<1>2. /\ f \in ManualFills /\ executed' = executed \cup {f}
      /\ up' = up /\ ledger' = ledger /\ disk' = disk /\ closed' = closed
      /\ writer' = writer /\ struck' = struck /\ crashes' = crashes
  BY DEF Mark
<1>3. TypeOK'
  BY <1>1, <1>2 DEF TypeOK
<1>4. WriterSaves'
  BY <1>1, <1>2 DEF WriterSaves, TypeOK
<1>5. FillsAreBooked'
  BY <1>1, <1>2 DEF FillsAreBooked, UnderWay, FillIds
<1>6. ReportedOnly'
  BY <1>1, <1>2 DEF ReportedOnly
<1>7. FileHoldsAnswered'
  BY <1>1, <1>2 DEF FileHoldsAnswered, UnderWay, Forgotten, ReportedOnly
<1>8. AnsweredFillsAreHeld'
  BY <1>1, <1>2 DEF AnsweredFillsAreHeld
<1> QED  BY <1>3, <1>4, <1>5, <1>6, <1>7, <1>8

\* The file is torn while one thread has the mutex.
LEMMA OpenFileStep ==
  ASSUME JournalInv, NEW f \in FillIds, OpenFile(f)
  PROVE  JournalInv'
<1> USE DEF JournalInv
<1>1. /\ stage' \in [FillIds -> Stages]
      /\ stage[f] = (IF f \in ManualFills THEN "marked" ELSE "booked")
      /\ stage'[f] = "saving"
      /\ \A g \in FillIds \ {f} : stage'[g] = stage[g]
  BY GotoMoves DEF OpenFile, Stages
<1>2. /\ up /\ writer = Nobody /\ writer' = f /\ disk' = Torn
      /\ up' = up /\ ledger' = ledger /\ executed' = executed /\ closed' = closed
      /\ struck' = struck /\ crashes' = crashes
  BY DEF OpenFile
<1>3. disk'.state = "torn" /\ disk'.account = {}
      /\ disk' \in [state : {"absent", "torn", "whole"}, account : SUBSET FillIds]
  BY <1>2 DEF Torn
<1>4. TypeOK'
  BY <1>1, <1>2, <1>3 DEF TypeOK
<1>5. WriterSaves'
  BY <1>1, <1>2, <1>3, NobodyAssumption DEF WriterSaves
<1>6. FillsAreBooked'
  BY <1>1, <1>2 DEF FillsAreBooked, UnderWay, FillIds
<1>7. ReportedOnly'
  BY <1>1, <1>2, <1>3 DEF ReportedOnly
<1>8. FileHoldsAnswered'
  BY <1>3 DEF FileHoldsAnswered
<1>9. AnsweredFillsAreHeld'
  BY <1>1, <1>2 DEF AnsweredFillsAreHeld
<1> QED  BY <1>4, <1>5, <1>6, <1>7, <1>8, <1>9

\* A whole file has all of the ledger, the fill that is answered among it.
LEMMA WriteFileStep ==
  ASSUME JournalInv, NEW f \in FillIds, WriteFile(f)
  PROVE  JournalInv'
<1> USE DEF JournalInv
<1>1. /\ stage' \in [FillIds -> Stages]
      /\ stage[f] = "saving" /\ stage'[f] = "answered"
      /\ \A g \in FillIds \ {f} : stage'[g] = stage[g]
  BY GotoMoves DEF WriteFile, Stages
<1>2. /\ up /\ writer = f /\ writer' = Nobody
      /\ disk' = [state |-> "whole", account |-> ledger]
      /\ up' = up /\ ledger' = ledger /\ executed' = executed /\ closed' = closed
      /\ struck' = struck /\ crashes' = crashes
  BY DEF WriteFile
<1>3. disk'.state = "whole" /\ disk'.account = ledger
      /\ disk' \in [state : {"absent", "torn", "whole"}, account : SUBSET FillIds]
  BY <1>2 DEF TypeOK
<1>4. f \in ledger
  BY <1>1 DEF FillsAreBooked, UnderWay
<1>5. TypeOK'
  BY <1>1, <1>2, <1>3 DEF TypeOK
<1>6. WriterSaves'
  BY <1>1, <1>2, <1>3, NobodyAssumption DEF WriterSaves
<1>7. FillsAreBooked'
  BY <1>1, <1>2 DEF FillsAreBooked, UnderWay, FillIds
<1>8. ReportedOnly'
  BY <1>1, <1>2, <1>3 DEF ReportedOnly
<1>9. AnsweredFillsAreHeld'
  BY <1>1, <1>2, <1>4 DEF AnsweredFillsAreHeld
<1>10. FileHoldsAnswered'
  BY <1>2, <1>3, <1>9 DEF FileHoldsAnswered, AnsweredFillsAreHeld, Forgotten
<1> QED  BY <1>5, <1>6, <1>7, <1>8, <1>9, <1>10

LEMMA CloseStep ==
  ASSUME JournalInv, NEW f \in FillIds, Close(f)
  PROVE  JournalInv'
<1> USE DEF JournalInv
<1>1. /\ closed' = closed \cup {f} /\ f \in ManualFills
      /\ up' = up /\ ledger' = ledger /\ disk' = disk /\ executed' = executed
      /\ stage' = stage /\ writer' = writer /\ struck' = struck /\ crashes' = crashes
  BY DEF Close
<1>2. TypeOK' /\ WriterSaves' /\ FillsAreBooked' /\ ReportedOnly'
  BY <1>1 DEF TypeOK, WriterSaves, FillsAreBooked, ReportedOnly, UnderWay
<1>3. FileHoldsAnswered'
  BY <1>1 DEF FileHoldsAnswered, Forgotten, UnderWay
<1>4. AnsweredFillsAreHeld'
  BY <1>1 DEF AnsweredFillsAreHeld
<1> QED  BY <1>2, <1>3, <1>4

\* A crash strikes the file only while it is written; the log is left.
LEMMA CrashStep ==
  ASSUME JournalInv, Crash
  PROVE  JournalInv'
<1> USE DEF JournalInv
<1>1. \A g \in FillIds :
        stage'[g] = IF stage[g] \in {"new", "answered"} THEN stage[g] ELSE "lost"
  BY DEF Crash
<1>2. /\ up /\ ~up' /\ ledger' = {} /\ writer' = Nobody
      /\ struck' = (struck \/ writer # Nobody)
      /\ disk' = disk /\ executed' = executed /\ closed' = closed
      /\ crashes < MaxCrashes /\ crashes' = crashes + 1
  BY DEF Crash
<1>3. TypeOK'
  <2>1. stage' \in [FillIds -> Stages]
    BY DEF Crash, Stages, TypeOK
  <2>2. up' \in BOOLEAN /\ struck' \in BOOLEAN
    BY Zenon DEF Crash
  <2>3. crashes' \in 0..MaxCrashes
    BY <1>2, JournalAssumption DEF TypeOK
  <2> QED  BY <1>2, <2>1, <2>2, <2>3 DEF TypeOK
<1>4. WriterSaves'
  BY <1>1, <1>2 DEF WriterSaves
<1>5. FillsAreBooked'
  BY <1>1, <1>2 DEF FillsAreBooked, UnderWay, FillIds
<1>6. ReportedOnly'
  BY <1>1, <1>2 DEF ReportedOnly
<1>7. FileHoldsAnswered'
  BY <1>1, <1>2 DEF FileHoldsAnswered, Forgotten
<1>8. AnsweredFillsAreHeld'
  BY <1>2 DEF AnsweredFillsAreHeld
<1> QED  BY <1>3, <1>4, <1>5, <1>6, <1>7, <1>8

\* What the file does not give back, the log does, or nobody was promised it.
LEMMA StartStep ==
  ASSUME JournalInv, Start
  PROVE  JournalInv'
<1> USE DEF JournalInv
<1>1. /\ ~up /\ up'
      /\ ledger' = IF disk.state = "whole" THEN disk.account ELSE Rebuilt
      /\ disk' = [state |-> "whole", account |-> ledger']
      /\ executed' = executed /\ closed' = closed /\ stage' = stage
      /\ writer' = writer /\ struck' = struck /\ crashes' = crashes
  BY DEF Start
<1>2. writer = Nobody
  BY <1>1 DEF WriterSaves
<1>3. ledger' \subseteq FillIds /\ \A f \in ledger' : stage[f] # "new"
  BY <1>1 DEF TypeOK, Rebuilt, ReportedOnly, FillIds
<1>4. disk'.state = "whole" /\ disk'.account = ledger'
      /\ disk' \in [state : {"absent", "torn", "whole"}, account : SUBSET FillIds]
  BY <1>1, <1>3
<1>5. ASSUME NEW f \in FillIds, stage[f] = "answered" PROVE f \in ledger' \/ Forgotten(f)
  <2>1. CASE disk.state = "whole"
    BY <1>1, <1>5, <2>1 DEF FileHoldsAnswered
  <2>2. CASE disk.state = "torn"
    BY <1>1, <1>2, <1>5, <2>2 DEF WriterSaves, FillsAreBooked, Rebuilt, Forgotten
  <2>3. CASE disk.state = "absent"
    BY <1>5, <2>3 DEF FileHoldsAnswered
  <2> QED  BY <2>1, <2>2, <2>3 DEF TypeOK
<1>6. TypeOK'
  <2>1. up' \in BOOLEAN
    BY Zenon DEF Start
  <2> QED  BY <1>1, <1>3, <1>4, <2>1 DEF TypeOK
<1>7. WriterSaves' /\ FillsAreBooked'
  BY <1>1, <1>2, <1>4 DEF WriterSaves, FillsAreBooked, UnderWay
<1>8. ReportedOnly'
  BY <1>1, <1>3, <1>4 DEF ReportedOnly
<1>9. FileHoldsAnswered' /\ AnsweredFillsAreHeld'
  BY <1>1, <1>4, <1>5 DEF FileHoldsAnswered, AnsweredFillsAreHeld, Forgotten
<1> QED  BY <1>6, <1>7, <1>8, <1>9

LEMMA JournalStep == JournalInv /\ [Next]_vars => JournalInv'
<1>1. ASSUME JournalInv, UNCHANGED vars PROVE JournalInv'
  BY <1>1 DEF JournalInv, TypeOK, WriterSaves, FillsAreBooked, ReportedOnly,
              FileHoldsAnswered, AnsweredFillsAreHeld, UnderWay, Forgotten, vars
<1> QED
  BY <1>1, BookStep, MarkStep, OpenFileStep, WriteFileStep, CloseStep, CrashStep,
     StartStep DEF Next

\* The invariant, of any set of fills and any number of crashes.
THEOREM JournalCorrect == Spec => []JournalInv
BY JournalInit, JournalStep, PTL DEF Spec

\* A fill that was answered survives every crash that does not tear the file,
\* and as a manual fill not put away every crash (RecordManualFill, initLedger).
THEOREM AnswersAreKept == Spec => []AnsweredFillsAreHeld
<1>1. JournalInv => AnsweredFillsAreHeld
  BY DEF JournalInv
<1> QED  BY <1>1, JournalCorrect, PTL

\* Nothing is booked that nobody reported, after rebuilds neither.
THEOREM NothingIsMadeUp == Spec => []NoPhantomFill
<1>1. JournalInv => NoPhantomFill
  BY DEF JournalInv, ReportedOnly, NoPhantomFill
<1> QED  BY <1>1, JournalCorrect, PTL

\* Between requests the file is the ledger (Save under the ledger's mutex).
THEOREM FileFollowsLedger == Spec => []QuietFileIsCurrent
<1>1. JournalInv => QuietFileIsCurrent
  <2> SUFFICES ASSUME JournalInv, up,
                      \A f \in FillIds : stage[f] \in {"new", "answered", "lost"}
               PROVE  disk.state \in {"whole", "absent"} /\ disk.account = ledger
    BY DEF QuietFileIsCurrent
  <2>1. disk.state # "torn"
    BY DEF JournalInv, WriterSaves, TypeOK
  <2>2. disk.account \subseteq ledger /\ \A f \in ledger \ disk.account : UnderWay(f)
    BY <2>1 DEF JournalInv, FileHoldsAnswered
  <2>3. ledger \ disk.account = {}
    BY <2>2 DEF UnderWay, JournalInv, TypeOK
  <2> QED  BY <2>1, <2>2, <2>3 DEF JournalInv, TypeOK
<1> QED  BY <1>1, JournalCorrect, PTL
=============================================================================
