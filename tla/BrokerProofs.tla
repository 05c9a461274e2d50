---------------------------- MODULE BrokerProofs ----------------------------
(***************************************************************************)
(* Order contexts are owned, recorded and reported to as they should, for  *)
(* any number of orders, cancellations and reports; and calls to a broker  *)
(* keep the rate limit, for any rate, capacity and threads.                *)
(*                                                                         *)
(* For orders all rests on how far the caller is: a context that the       *)
(* broker side knows has been pushed, once, and one whose caller is still  *)
(* busy sending has not ended.  For the limit, every grant is paid for in  *)
(* the time of the next token.                                             *)
(***************************************************************************)
EXTENDS BrokerOrders, OrderLimit, FiniteSetTheorems, TLAPS

Queued == {queue[i] : i \in DOMAIN queue}

\* What is queued, worked on or deleted was pushed.
KnownArePushed ==
  \A c \in Queued \cup working \cup deleted : caller[c] = "done"

OwnerInv == TypeOK /\ OneOwner /\ KnownArePushed

\* A context that its caller has not handed over has no entry and no end.
UnsentAreNew ==
  \A c \in Contexts : caller[c] \in {"idle", "sent"} => c \notin registry /\ ~flag[c]

\* Until the shut-down the broker thread deletes contexts that ended; of these
\* HX has at most the one it is about to take out.
DeletedHaveEnded ==
  /\ broker # "drained" => \A c \in deleted : flag[c]
  /\ \A c \in registry : flag[c] => c \in finishing

ReportInv == OwnerInv /\ UnsentAreNew /\ DeletedHaveEnded

RecordInv ==
  OwnerInv /\ RecordedOnRetirement

-----------------------------------------------------------------------------
(* Types. *)

LEMMA TypeInit == Init => TypeOK
<1> SUFFICES ASSUME Init PROVE TypeOK
  OBVIOUS
<1>1. flag \in [Contexts -> BOOLEAN] /\ success \in [Contexts -> BOOLEAN]
  BY DEF Init
<1>2. exit \in BOOLEAN
  BY Zenon DEF Init
<1>3. reports \in [Contexts -> Seq(Reports)] /\ queue \in Seq(Contexts)
  BY DEF Init
<1> QED  BY <1>1, <1>2, <1>3 DEF Init, TypeOK

LEMMA CallerTypes ==
  ASSUME TypeOK, NEW c \in Contexts, CallerStep(c)
  PROVE  TypeOK'
<1> USE DEF TypeOK, bridge, ends, thread, Goto
<1>1. c \in Cancels \/ c \in HxOrders \/ c \in TickFlowOrders
  BY DEF Contexts, Orders
<1>2. CASE Send(c)  BY <1>2 DEF Send
<1>3. CASE Register(c)  BY <1>3 DEF Register
<1>4. CASE Refuse(c)  BY <1>4 DEF Refuse
<1>5. CASE Fill(c)
  <2>1. flag' \in [Contexts -> BOOLEAN] /\ success' \in [Contexts -> BOOLEAN]
    BY <1>5 DEF Fill
  <2> QED  BY <1>5, <2>1 DEF Fill, Notified
<1>6. CASE SendCancel(c)
  <2>1. market' \in [Contexts -> {"none", "open", "filled", "over"}]
    BY <1>6 DEF SendCancel
  <2>2. registry' \subseteq Contexts /\ finishing' \subseteq registry'
    BY <1>6 DEF SendCancel
  <2>3. /\ caller' \in [Contexts -> {"idle", "sent", "handed", "done"}]
        /\ strays' \subseteq deleted'
    BY <1>6 DEF SendCancel
  <2> QED  BY <1>6, <2>1, <2>2, <2>3 DEF SendCancel
<1>7. CASE Push(c)
  <2>1. queue' \in Seq(Contexts)
    BY <1>7 DEF Push
  <2> QED  BY <1>7, <2>1 DEF Push, Notified
<1> QED  BY <1>2, <1>3, <1>4, <1>5, <1>6, <1>7 DEF CallerStep

LEMMA ReportTypes ==
  ASSUME TypeOK, (\E c \in Contexts, r \in Reports : Report(c, r)) \/ Finish
  PROVE  TypeOK'
<1> USE DEF TypeOK, ends, thread
<1>1. ASSUME NEW c \in Contexts, NEW r \in Reports, Report(c, r) PROVE TypeOK'
  <2>1. market' \in [Contexts -> {"none", "open", "filled", "over"}]
    BY <1>1 DEF Report, Outcome
  <2>2. CASE c \in registry
    <3>1. reports' = [reports EXCEPT ![c] = Append(@, r)]
          /\ flag' = [flag EXCEPT ![c] = @ \/ Ends(r)]
          /\ finishing' = (IF Ends(r) THEN {c} ELSE {})
      BY <1>1, <2>2 DEF Report
    <3>2. reports' \in [Contexts -> Seq(Reports)]
      BY <3>1
    <3>3. flag' \in [Contexts -> BOOLEAN]
      BY <3>1, Zenon DEF Ends
    <3> QED  BY <1>1, <2>1, <2>2, <3>1, <3>2, <3>3 DEF Report, Notified
  <2>3. CASE c \notin registry
    BY <1>1, <2>1, <2>3 DEF Report, Notified
  <2> QED  BY <2>2, <2>3
<1>2. CASE Finish
  BY <1>2 DEF Finish, Notified
<1> QED  BY <1>1, <1>2

LEMMA BrokerTypes ==
  ASSUME TypeOK, BrokerStep \/ Stop
  PROVE  TypeOK'
<1> USE DEF TypeOK, bridge, ends, thread
<1>1. CASE Awaken  BY <1>1 DEF Awaken
<1>2. CASE TimeOut  BY <1>2 DEF TimeOut, AfterTimeout
<1>3. CASE Pop
  <2>1. queue' \in Seq(Contexts) /\ Head(queue) \in Contexts
    BY <1>3 DEF Pop
  <2>2. Head(queue) \in Orders \cup Cancels
    BY <2>1 DEF Contexts
  <2>3. working' \subseteq Orders /\ scan' \subseteq working'
    BY <1>3, <2>2 DEF Pop
  <2> QED  BY <1>3, <2>1, <2>3 DEF Pop
<1>4. CASE StartScan  BY <1>4 DEF StartScan
<1>5. CASE EndScan  BY <1>5 DEF EndScan
<1>6. CASE Drain
  <2>1. {queue[i] : i \in DOMAIN queue} \subseteq Contexts
    OBVIOUS
  <2>2. queue' \in Seq(Contexts)
    BY <1>6 DEF Drain
  <2> QED  BY <1>6, <2>1, <2>2 DEF Drain
<1>7. ASSUME NEW c \in Contexts, Examine(c) PROVE TypeOK'
  <2>1. BookedFills(c) \in Nat
    <3>1. reports[c] \in Seq(Reports)
      OBVIOUS
    <3> DEFINE booked == {i \in DOMAIN reports[c] : reports[c][i] = "success"}
    <3>2. IsFiniteSet(1..Len(reports[c])) /\ Len(reports[c]) \in Nat
      BY <3>1, FS_Interval
    <3>3. booked \in SUBSET (1..Len(reports[c]))
      BY <3>1
    <3>4. IsFiniteSet(booked)
      BY <3>2, <3>3, FS_Subset
    <3> QED  BY <3>4, FS_CardinalityType DEF BookedFills
  <2>2. records' \in [Contexts -> Nat] /\ fills' \in [Contexts -> Nat]
    <3>1. CASE Recordable(c)
      <4>1. records' = [records EXCEPT ![c] = @ + 1]
            /\ fills' = [fills EXCEPT ![c] = @ + BookedFills(c)]
        BY <1>7, <3>1 DEF Examine
      <4>2. records[c] + 1 \in Nat /\ fills[c] + BookedFills(c) \in Nat
        BY <2>1
      <4> QED  BY <4>1, <4>2
    <3>2. CASE ~Recordable(c)
      BY <1>7, <3>2 DEF Examine
    <3> QED  BY <3>1, <3>2
  <2>3. working' \subseteq Orders /\ scan' \subseteq working' /\ deleted' \subseteq Contexts
    BY <1>7 DEF Examine
  <2> QED  BY <1>7, <2>2, <2>3 DEF Examine
<1>8. CASE Stop
  <2>1. exit' \in BOOLEAN
    BY <1>8, Zenon DEF Stop
  <2> QED  BY <1>8, <2>1 DEF Stop, Notified
<1> QED  BY <1>1, <1>2, <1>3, <1>4, <1>5, <1>6, <1>7, <1>8 DEF BrokerStep

LEMMA TypeStep == TypeOK /\ [Next]_vars => TypeOK'
<1>1. ASSUME TypeOK, UNCHANGED vars PROVE TypeOK'
  BY <1>1 DEF vars, TypeOK, bridge, ends, thread
<1> QED  BY <1>1, CallerTypes, ReportTypes, BrokerTypes DEF Next

-----------------------------------------------------------------------------
(* Owners. *)

\* What a step does to the queue: nothing, one more at its end, one less at
\* its head, or no more at all.
LEMMA QueueGrows ==
  ASSUME TypeOK, NEW c \in Contexts, queue' = Append(queue, c)
  PROVE  /\ Queued' = Queued \cup {c}
         /\ c \notin Queued /\ (\A i, j \in DOMAIN queue : queue[i] = queue[j] => i = j)
              => \A i, j \in DOMAIN queue' : queue'[i] = queue'[j] => i = j
<1>1. /\ queue \in Seq(Contexts) /\ Len(queue) \in Nat
      /\ DOMAIN queue = 1..Len(queue) /\ DOMAIN queue' = 1..(Len(queue) + 1)
      /\ queue'[Len(queue) + 1] = c
      /\ \A i \in 1..Len(queue) : queue'[i] = queue[i]
  BY DEF TypeOK
<1>2. \A i \in DOMAIN queue' : i \in DOMAIN queue \/ i = Len(queue) + 1
  BY <1>1
<1> QED  BY <1>1, <1>2 DEF Queued

LEMMA QueueShrinks ==
  ASSUME TypeOK, queue # << >>, queue' = Tail(queue),
         \A i, j \in DOMAIN queue : queue[i] = queue[j] => i = j
  PROVE  /\ Head(queue) \in Queued /\ Queued' = Queued \ {Head(queue)}
         /\ \A i, j \in DOMAIN queue' : queue'[i] = queue'[j] => i = j
<1>1. /\ queue \in Seq(Contexts) /\ Len(queue) \in Nat \ {0}
      /\ DOMAIN queue = 1..Len(queue) /\ DOMAIN queue' = 1..(Len(queue) - 1)
      /\ Head(queue) = queue[1]
      /\ \A i \in 1..(Len(queue) - 1) : queue'[i] = queue[i + 1]
  BY DEF TypeOK
<1>2. Head(queue) \in Queued
  BY <1>1 DEF Queued
<1>3. ASSUME NEW x \in Queued' PROVE x \in Queued \ {Head(queue)}
  <2>1. PICK i \in 1..(Len(queue) - 1) : x = queue[i + 1]
    BY <1>1, <1>3 DEF Queued
  <2>2. i + 1 \in DOMAIN queue /\ i + 1 # 1 /\ 1 \in DOMAIN queue
    BY <1>1
  <2> QED  BY <1>1, <2>1, <2>2 DEF Queued
<1>4. ASSUME NEW x \in Queued, x # Head(queue) PROVE x \in Queued'
  <2>1. PICK i \in 1..Len(queue) : x = queue[i]
    BY <1>1, <1>4 DEF Queued
  <2>2. i - 1 \in 1..(Len(queue) - 1) /\ queue'[i - 1] = queue[i]
    <3>1. i # 1
      BY <1>1, <1>4, <2>1
    <3>2. i - 1 \in 1..(Len(queue) - 1) /\ (i - 1) + 1 = i
      BY <1>1, <3>1
    <3> QED  BY <1>1, <3>2
  <2> QED  BY <1>1, <2>1, <2>2 DEF Queued
<1>5. ASSUME NEW i \in DOMAIN queue', NEW j \in DOMAIN queue', queue'[i] = queue'[j]
      PROVE  i = j
  <2>1. i + 1 \in DOMAIN queue /\ j + 1 \in DOMAIN queue /\ queue[i + 1] = queue[j + 1]
    BY <1>1, <1>5
  <2>2. i + 1 = j + 1
    BY <2>1
  <2> QED  BY <1>1, <2>2
<1> QED  BY <1>2, <1>3, <1>4, <1>5

LEMMA OwnerInit == Init => OwnerInv
<1> SUFFICES ASSUME Init PROVE OneOwner /\ KnownArePushed
  BY TypeInit DEF OwnerInv
<1>1. queue = << >> /\ DOMAIN queue = {} /\ working = {} /\ deleted = {}
  BY DEF Init
<1> QED  BY <1>1 DEF OneOwner, KnownArePushed, Queued

LEMMA OwnerStep == OwnerInv /\ [Next]_vars => OwnerInv'
<1> SUFFICES ASSUME OwnerInv, [Next]_vars PROVE OneOwner' /\ KnownArePushed'
  BY TypeStep DEF OwnerInv
<1> USE DEF OwnerInv
<1>1. ASSUME UNCHANGED <<queue, working, deleted>>,
             \A c \in Contexts : caller[c] = "done" => caller'[c] = "done"
      PROVE  OneOwner' /\ KnownArePushed'
  <2>1. Queued \cup working \cup deleted \subseteq Contexts
    BY DEF Queued, TypeOK, Contexts
  <2> QED  BY <1>1, <2>1 DEF OneOwner, KnownArePushed, Queued
<1>2. ASSUME NEW c \in Contexts, Push(c) PROVE OneOwner' /\ KnownArePushed'
  <2>1. /\ caller[c] = "handed" /\ caller'[c] = "done"
        /\ \A d \in Contexts \ {c} : caller'[d] = caller[d]
        /\ queue' = Append(queue, c) /\ working' = working /\ deleted' = deleted
    BY <1>2 DEF Push, Goto, TypeOK, thread
  <2>2. c \notin Queued \cup working \cup deleted
    BY <2>1 DEF KnownArePushed
  <2>3. Queued \cup working \cup deleted \subseteq Contexts
    BY DEF Queued, TypeOK, Contexts
  <2>4. OneOwner'
    BY <2>1, <2>2, QueueGrows DEF OneOwner, Queued
  <2>5. KnownArePushed'
    BY <2>1, <2>2, <2>3, QueueGrows DEF KnownArePushed
  <2> QED  BY <2>4, <2>5
<1>3. ASSUME NEW c \in Contexts, Send(c) \/ Register(c) \/ Refuse(c) \/ Fill(c) \/ SendCancel(c)
      PROVE  OneOwner' /\ KnownArePushed'
  <2>1. UNCHANGED <<queue, working, deleted>>
    BY <1>3 DEF Send, Register, Refuse, Fill, SendCancel, thread
  <2>2. \A d \in Contexts : caller[d] = "done" => caller'[d] = "done"
    BY <1>3 DEF Send, Register, Refuse, Fill, SendCancel, Goto, TypeOK
  <2> QED  BY <1>1, <2>1, <2>2
<1>4. CASE (\E c \in Contexts, r \in Reports : Report(c, r)) \/ Finish \/ Awaken \/ TimeOut
           \/ StartScan \/ EndScan \/ Stop
  BY <1>1, <1>4 DEF Report, Finish, Awaken, TimeOut, StartScan, EndScan, Stop, thread
<1>5. CASE Pop
  <2>1. /\ queue # << >> /\ queue' = Tail(queue) /\ caller' = caller
        /\ working' = working \cup ({Head(queue)} \ Cancels) /\ deleted' = deleted
    BY <1>5 DEF Pop
  <2>2. /\ Head(queue) \in Queued /\ Queued' = Queued \ {Head(queue)}
        /\ \A i, j \in DOMAIN queue' : queue'[i] = queue'[j] => i = j
    BY <2>1, QueueShrinks DEF OneOwner
  <2>3. OneOwner'
    BY <2>1, <2>2 DEF OneOwner, Queued
  <2>4. KnownArePushed'
    BY <2>1, <2>2 DEF KnownArePushed
  <2> QED  BY <2>3, <2>4
<1>6. ASSUME NEW c \in Contexts, Examine(c) PROVE OneOwner' /\ KnownArePushed'
  <2>1. /\ c \in working /\ queue' = queue /\ caller' = caller
        /\ \/ working' = working \ {c} /\ deleted' = deleted \cup {c}
           \/ working' = working /\ deleted' = deleted
    BY <1>6 DEF Examine, TypeOK
  <2>2. Queued' = Queued
    BY <2>1 DEF Queued
  <2> QED  BY <2>1, <2>2 DEF OneOwner, KnownArePushed, Queued
<1>7. CASE Drain
  <2>1. /\ queue' = << >> /\ caller' = caller /\ working' = working
        /\ deleted' = deleted \cup Queued
    BY <1>7 DEF Drain, Queued
  <2>2. Queued' = {} /\ DOMAIN queue' = {}
    BY <2>1 DEF Queued
  <2> QED  BY <2>1, <2>2 DEF OneOwner, KnownArePushed, Queued
<1>8. CASE UNCHANGED vars
  BY <1>1, <1>8 DEF vars, thread
<1> QED
  BY <1>2, <1>3, <1>4, <1>5, <1>6, <1>7, <1>8 DEF Next, CallerStep, BrokerStep

\* A context is in one place at a time, for any orders and cancellations
\* (AddOrderBySide, run, Release).
THEOREM ContextsHaveOneOwner == Spec => []OneOwner
<1>1. OwnerInv => OneOwner
  BY DEF OwnerInv
<1> QED  BY <1>1, OwnerInit, OwnerStep, PTL DEF Spec

-----------------------------------------------------------------------------
(* Records. *)

LEMMA RecordStep == RecordInv /\ [Next]_vars => RecordInv'
<1> SUFFICES ASSUME RecordInv, [Next]_vars PROVE RecordedOnRetirement'
  BY OwnerStep DEF RecordInv
<1> USE DEF RecordInv, OwnerInv
<1>1. ASSUME UNCHANGED <<success, records, deleted>>, broker' # "drained" => broker # "drained"
      PROVE  RecordedOnRetirement'
  BY <1>1 DEF RecordedOnRetirement
<1>2. ASSUME NEW c \in Contexts, CallerStep(c) PROVE RecordedOnRetirement'
  <2>1. CASE Fill(c)
    <3>1. /\ caller[c] = "idle" /\ deleted' = deleted /\ records' = records
          /\ broker' # "drained" => broker # "drained"
          /\ \A d \in Contexts \ {c} : success'[d] = success[d]
      BY <2>1 DEF Fill, Goto, thread, Notified, TypeOK
    <3>2. c \notin deleted
      BY <3>1 DEF KnownArePushed
    <3> QED  BY <3>1, <3>2 DEF RecordedOnRetirement
  <2>2. CASE Send(c) \/ Register(c) \/ Refuse(c) \/ SendCancel(c) \/ Push(c)
    BY <1>1, <2>2 DEF Send, Register, Refuse, SendCancel, Push, ends, thread, Notified
  <2> QED  BY <1>2, <2>1, <2>2 DEF CallerStep
<1>3. CASE (\E c \in Contexts, r \in Reports : Report(c, r)) \/ Finish \/ Awaken \/ TimeOut
           \/ Pop \/ StartScan \/ EndScan \/ Stop
  BY <1>1, <1>3 DEF Report, Finish, Awaken, TimeOut, AfterTimeout, Pop, StartScan, EndScan,
                    Stop, ends, thread, Notified
<1>4. ASSUME NEW c \in Contexts, Examine(c) PROVE RecordedOnRetirement'
  <2>1. /\ c \in working /\ c \notin deleted
        /\ broker' = broker /\ success' = success
    BY <1>4 DEF Examine, TypeOK, ends, OneOwner
  <2>2. records[c] = 0
    BY <2>1 DEF RecordedOnRetirement, TypeOK
  <2>3. \A d \in Contexts \ {c} : records'[d] = records[d]
    BY <1>4 DEF Examine, TypeOK
  <2>4. \A d \in Contexts \ {c} : d \in deleted' <=> d \in deleted
    BY <1>4 DEF Examine
  <2>5. CASE flag[c] /\ success[c]
    <3>1. deleted' = deleted \cup {c} /\ records'[c] = 1
      BY <1>4, <2>2, <2>5 DEF Examine, Recordable, TypeOK
    <3> QED  BY <2>1, <2>3, <2>4, <2>5, <3>1 DEF RecordedOnRetirement
  <2>6. CASE ~(flag[c] /\ success[c])
    <3>1. records' = records
      BY <1>4, <2>6 DEF Examine, Recordable
    <3>2. c \in deleted' /\ success[c] => FALSE
      BY <1>4, <2>1, <2>6 DEF Examine
    <3> QED  BY <2>1, <2>2, <2>4, <3>1, <3>2 DEF RecordedOnRetirement
  <2> QED  BY <2>5, <2>6
<1>5. CASE Drain
  <2>1. /\ broker' = "drained" /\ records' = records /\ success' = success
        /\ deleted \subseteq deleted'
    BY <1>5 DEF Drain, ends
  <2> QED  BY <2>1 DEF RecordedOnRetirement, TypeOK
<1>6. CASE UNCHANGED vars
  BY <1>1, <1>6 DEF vars, ends, thread
<1> QED  BY <1>2, <1>3, <1>4, <1>5, <1>6 DEF Next, BrokerStep

\* A successful order is recorded once before it is deleted, any other never
\* (run, RecordTrade).
THEOREM OrdersAreRecordedOnce == Spec => []RecordedOnRetirement
<1>1. Init => RecordInv
  BY OwnerInit DEF RecordInv, Init, RecordedOnRetirement
<1>2. RecordInv => RecordedOnRetirement
  BY DEF RecordInv
<1> QED  BY <1>1, <1>2, RecordStep, PTL DEF Spec

-----------------------------------------------------------------------------
(* Reports. *)

LEMMA ReportStep == ReportInv /\ [Next]_vars => ReportInv'
<1> SUFFICES ASSUME ReportInv, [Next]_vars PROVE UnsentAreNew' /\ DeletedHaveEnded'
  BY OwnerStep DEF ReportInv
<1> USE DEF ReportInv, OwnerInv
<1>1. ASSUME UNCHANGED <<caller, registry, finishing, flag, deleted>>,
             broker' # "drained" => broker # "drained"
      PROVE  UnsentAreNew' /\ DeletedHaveEnded'
  BY <1>1 DEF UnsentAreNew, DeletedHaveEnded
<1>2. ASSUME NEW c \in Contexts, CallerStep(c) PROVE UnsentAreNew' /\ DeletedHaveEnded'
  <2>1. /\ \A d \in Contexts \ {c} : caller'[d] = caller[d] /\ flag'[d] = flag[d]
        /\ finishing' = finishing /\ deleted' = deleted
        /\ broker' # "drained" => broker # "drained"
        /\ registry \subseteq registry' /\ registry' \subseteq registry \cup {c}
    BY <1>2 DEF CallerStep, Send, Register, Refuse, Fill, SendCancel, Push, Goto, TypeOK,
                ends, thread, bridge, Notified
  <2>2. caller[c] \in {"idle", "sent", "handed"}
    BY <1>2 DEF CallerStep, Send, Register, Refuse, Fill, SendCancel, Push, Goto
  <2>3. c \notin deleted
    BY <2>2 DEF KnownArePushed
  <2>4. CASE caller[c] = "handed"
    <3>1. caller'[c] = "done" /\ flag' = flag /\ registry' = registry
      BY <1>2, <2>4 DEF CallerStep, Send, Register, Refuse, Fill, SendCancel, Push, Goto,
                        TypeOK, ends, bridge
    <3> QED  BY <2>1, <3>1 DEF UnsentAreNew, DeletedHaveEnded
  <2>5. CASE caller[c] \in {"idle", "sent"}
    <3>1. c \notin registry /\ ~flag[c]
      BY <2>5 DEF UnsentAreNew
    <3>2. CASE caller'[c] = "sent"
      <4>1. Send(c)
        BY <1>2, <2>5, <3>2 DEF CallerStep, Send, Register, Refuse, Fill, SendCancel, Push,
                                Goto, TypeOK
      <4>2. flag' = flag /\ registry' = registry
        BY <4>1 DEF Send, ends
      <4> QED  BY <2>1, <3>1, <4>2 DEF UnsentAreNew, DeletedHaveEnded
    <3>3. CASE Fill(c)
      <4>1. registry' = registry /\ caller'[c] = "handed"
        BY <3>3 DEF Fill, Goto, TypeOK
      <4>2. UnsentAreNew'
        BY <2>1, <3>1, <4>1 DEF UnsentAreNew
      <4>3. \A d \in deleted : d \in Contexts \ {c}
        BY <2>3 DEF TypeOK
      <4>4. broker' # "drained" => \A d \in deleted' : flag'[d]
        BY <2>1, <4>3 DEF DeletedHaveEnded
      <4>5. \A d \in registry' : d \in Contexts \ {c}
        BY <3>1, <4>1 DEF TypeOK
      <4>6. \A d \in registry' : flag'[d] => d \in finishing'
        BY <2>1, <4>1, <4>5 DEF DeletedHaveEnded
      <4> QED  BY <4>2, <4>4, <4>6 DEF DeletedHaveEnded
    <3>4. CASE Register(c) \/ Refuse(c) \/ SendCancel(c)
      <4>1. caller'[c] = "handed" /\ flag' = flag
        BY <3>4 DEF Register, Refuse, SendCancel, Goto, TypeOK, ends
      <4> QED  BY <2>1, <3>1, <4>1 DEF UnsentAreNew, DeletedHaveEnded
    <3> QED
      BY <1>2, <2>5, <3>2, <3>3, <3>4 DEF CallerStep, Send, Push, Goto, TypeOK
  <2> QED  BY <2>2, <2>4, <2>5
<1>3. ASSUME NEW c \in Contexts, NEW r \in Reports, Report(c, r)
      PROVE  UnsentAreNew' /\ DeletedHaveEnded'
  <2>1. /\ finishing = {} /\ caller' = caller /\ registry' = registry /\ deleted' = deleted
        /\ broker' # "drained" => broker # "drained"
    BY <1>3 DEF Report, thread, Notified
  <2>2. CASE c \in registry
    <3>1. /\ \A d \in Contexts \ {c} : flag'[d] = flag[d]
          /\ flag[c] => flag'[c]
          /\ Ends(r) => finishing' = {c}
          /\ ~Ends(r) => flag'[c] = flag[c] /\ finishing' = {}
      BY <1>3, <2>2 DEF Report, TypeOK
    <3>2. caller[c] \notin {"idle", "sent"} /\ \A d \in registry : ~flag[d]
      BY <2>1, <2>2 DEF UnsentAreNew, DeletedHaveEnded
    <3>3. UnsentAreNew'
      BY <2>1, <3>1, <3>2 DEF UnsentAreNew
    <3>4. \A d \in deleted : d \in Contexts
      BY DEF TypeOK
    <3>5. broker' # "drained" => \A d \in deleted' : flag'[d]
      BY <2>1, <3>1, <3>4 DEF DeletedHaveEnded
    <3>6. \A d \in registry' : flag'[d] => d \in finishing'
      BY <2>1, <3>1, <3>2 DEF TypeOK
    <3> QED  BY <3>3, <3>5, <3>6 DEF DeletedHaveEnded
  <2>3. CASE c \notin registry
    <3>1. flag' = flag /\ finishing' = finishing
      BY <1>3, <2>3 DEF Report
    <3> QED  BY <1>1, <2>1, <3>1
  <2> QED  BY <2>2, <2>3
<1>4. CASE Finish
  <2>1. /\ registry' = registry \ finishing /\ finishing' = {} /\ caller' = caller
        /\ flag' = flag /\ deleted' = deleted
        /\ broker' # "drained" => broker # "drained"
    BY <1>4 DEF Finish, ends, thread, Notified
  <2>2. UnsentAreNew'
    BY <2>1 DEF UnsentAreNew
  <2>3. broker' # "drained" => \A d \in deleted' : flag'[d]
    BY <2>1 DEF DeletedHaveEnded
  <2>4. \A d \in registry' : flag'[d] => d \in finishing'
    BY <2>1 DEF DeletedHaveEnded
  <2> QED  BY <2>2, <2>3, <2>4 DEF DeletedHaveEnded
<1>5. CASE Awaken \/ TimeOut \/ Pop \/ StartScan \/ EndScan \/ Stop
  BY <1>1, <1>5 DEF Awaken, TimeOut, AfterTimeout, Pop, StartScan, EndScan, Stop,
                    bridge, ends, thread, Notified
<1>6. ASSUME NEW c \in Contexts, Examine(c) PROVE UnsentAreNew' /\ DeletedHaveEnded'
  BY <1>6 DEF Examine, UnsentAreNew, DeletedHaveEnded, bridge, ends
<1>7. CASE Drain
  BY <1>7 DEF Drain, UnsentAreNew, DeletedHaveEnded, bridge, ends
<1>8. CASE UNCHANGED vars
  BY <1>1, <1>8 DEF vars, bridge, ends, thread
<1> QED  BY <1>2, <1>3, <1>4, <1>5, <1>6, <1>7, <1>8 DEF Next, BrokerStep

\* HX never writes into a context that the broker thread has deleted, and a
\* search of its contexts can meet a deleted one only until the end of that
\* context is handled (OnOrderReport and CancelStockOrder against run).
THEOREM ReportsFindLiveContexts == Spec => ReportsReachLiveContexts
<1>1. Init => ReportInv
  BY OwnerInit DEF Init, ReportInv, UnsentAreNew, DeletedHaveEnded
<1>2. ReportInv /\ [Next]_vars =>
        [\A c \in Contexts :
           /\ reports'[c] # reports[c] => c \notin deleted \/ broker = "drained"
           /\ c \in strays' \ strays => c \in finishing \/ broker = "drained"]_vars
  <2> SUFFICES ASSUME ReportInv, [Next]_vars, NEW c \in Contexts
               PROVE  /\ reports'[c] # reports[c] => c \notin deleted \/ broker = "drained"
                      /\ c \in strays' \ strays => c \in finishing \/ broker = "drained"
    OBVIOUS
  <2>1. ASSUME reports'[c] # reports[c] PROVE c \notin deleted \/ broker = "drained"
    <3>1. PICK d \in Contexts, r \in Reports : Report(d, r)
      BY <2>1 DEF Next, CallerStep, BrokerStep, Send, Register, Refuse, Fill, SendCancel,
             Push, Finish, Awaken, TimeOut, Pop, StartScan, EndScan, Drain, Examine, Stop,
             bridge, vars
    <3>2. c \in registry /\ finishing = {}
      BY <2>1, <3>1 DEF Report, ReportInv, OwnerInv, TypeOK
    <3>3. ~flag[c]
      BY <3>2 DEF ReportInv, DeletedHaveEnded
    <3> QED  BY <3>3 DEF ReportInv, DeletedHaveEnded
  <2>2. ASSUME c \in strays' \ strays PROVE c \in finishing \/ broker = "drained"
    <3>1. PICK d \in Contexts : SendCancel(d)
      BY <2>2 DEF Next, CallerStep, BrokerStep, Send, Register, Refuse, Fill,
             Push, Report, Finish, Awaken, TimeOut, Pop, StartScan, EndScan, Drain, Examine,
             Stop, bridge, vars
    <3>2. c \in registry /\ c \in deleted
      BY <2>2, <3>1 DEF SendCancel
    <3> QED  BY <3>2 DEF ReportInv, DeletedHaveEnded
  <2> QED  BY <2>1, <2>2
<1> QED  BY <1>1, <1>2, ReportStep, PTL DEF Spec, ReportsReachLiveContexts

-----------------------------------------------------------------------------
(* The rate limit keeps its bounds for every rate, capacity and number of  *)
(* threads.  A count of grants says nothing by itself; the proof carries   *)
(* along that each grant moved next on by the time of a token, and that    *)
(* next never passes the clock.                                            *)

\* The grants in the window are paid for in next.
WindowPaid ==
  window.granted > 0 =>
    window.from - TimePerBurst + window.granted * TimePerToken <= next

Clocks ==
  /\ next <= now /\ window.from <= now
  /\ \A t \in Threads : calls[t].since <= now

LimitInv == LimitTypeOK /\ Clocks /\ WindowPaid

\* The ticks of a token and of a burst are numbers.
LEMMA TimesAreNumbers == TimePerToken \in Nat /\ TimePerBurst \in Nat
<1>1. (Capacity - 1) * Second \in Nat  BY LimitAssumption
<1>2. \A m \in Nat, n \in Nat \ {0} : m \div n \in Nat  OBVIOUS
<1> QED  BY <1>1, <1>2, LimitAssumption DEF TimePerToken, TimePerBurst

\* One more token costs one time of a token more.
LEMMA OneMore ==
  \A g \in Nat : /\ g * TimePerToken \in Nat
                 /\ (g + 1) * TimePerToken = g * TimePerToken + TimePerToken
BY TimesAreNumbers

\* A token is taken at the present next or a burst before the call.
LEMMA NewNextBounds ==
  ASSUME NEW c \in [busy : BOOLEAN, since : Nat, seen : Int]
  PROVE  /\ NewNext(c) \in Int
         /\ NewNext(c) >= c.seen + TimePerToken
         /\ NewNext(c) >= c.since - TimePerBurst + TimePerToken
BY TimesAreNumbers DEF NewNext

LEMMA FirstStateFits == LimitInit => LimitInv
<1> SUFFICES ASSUME LimitInit PROVE LimitInv
  OBVIOUS
<1> QED  BY DEF LimitInit, LimitInv, LimitTypeOK, Clocks, WindowPaid, Returned

\* A grant keeps the bounds: the only step that moves next.
LEMMA GrantKeeps ==
  ASSUME LimitInv, NEW t \in Threads, Grant(t)
  PROVE  LimitInv'
<1> DEFINE c == calls[t]
           T == TimePerToken
           B == TimePerBurst
<1>1. c \in [busy : BOOLEAN, since : Nat, seen : Int] /\ c.since <= now
  BY DEF LimitInv, LimitTypeOK, Clocks
<1>2. /\ next' \in Int /\ next' <= now
      /\ next' >= next + T
      /\ next' >= c.since - B + T
  BY <1>1, NewNextBounds, TimesAreNumbers DEF Grant, LimitInv, LimitTypeOK
<1>3. LimitTypeOK'
  BY <1>2 DEF Grant, LimitInv, LimitTypeOK, Returned
<1>4. Clocks'
  BY <1>2 DEF Grant, LimitInv, LimitTypeOK, Clocks, Returned
<1>5. WindowPaid'
  <2>1. /\ window.granted \in Nat /\ window.from \in Nat /\ next \in Int
        /\ window \in [from : Nat, granted : Nat]
    BY DEF LimitInv, LimitTypeOK
  <2>2. CASE c.since < window.from
    <3>1. window' = window  BY <1>1, <2>1, <2>2 DEF Grant
    <3>2. window.granted * T \in Nat  BY <2>1, OneMore
    <3> QED  BY <1>2, <2>1, <3>1, <3>2, TimesAreNumbers DEF LimitInv, WindowPaid
  <2>3. CASE c.since >= window.from
    <3>1. window'.granted = window.granted + 1 /\ window'.from = window.from
      BY <2>1, <2>3 DEF Grant
    <3>2. /\ window.granted * T \in Nat
          /\ window'.granted * T = window.granted * T + T
      BY <2>1, <3>1, OneMore
    <3>3. CASE window.granted = 0
      <4>1. window'.granted * T = T  BY <3>1, <3>3, TimesAreNumbers
      <4> QED  BY <1>1, <1>2, <2>1, <2>3, <3>1, <4>1, TimesAreNumbers DEF WindowPaid
    <3>4. CASE window.granted > 0
      <4>1. window.from - B + window.granted * T <= next
        BY <3>4 DEF LimitInv, WindowPaid
      <4> QED  BY <1>2, <2>1, <3>1, <3>2, <4>1, TimesAreNumbers DEF WindowPaid
    <3> QED  BY <2>1, <3>3, <3>4
  <2> QED  BY <1>1, <2>1, <2>2, <2>3
<1> QED  BY <1>3, <1>4, <1>5 DEF LimitInv

LEMMA LimitStep == LimitInv /\ [LimitNext]_limitVars => LimitInv'
<1> SUFFICES ASSUME LimitInv, [LimitNext]_limitVars PROVE LimitInv'
  OBVIOUS
<1> USE DEF LimitInv, LimitTypeOK, Clocks, WindowPaid
<1>1. CASE Tick  BY <1>1 DEF Tick
<1>2. CASE Observe  BY <1>2 DEF Observe
<1>3. ASSUME NEW t \in Threads, Call(t) PROVE LimitInv'
  BY <1>3 DEF Call
<1>4. ASSUME NEW t \in Threads, Deny(t) PROVE LimitInv'
  BY <1>4 DEF Deny, Returned
<1>5. ASSUME NEW t \in Threads, Grant(t) PROVE LimitInv'
  BY <1>5, GrantKeeps
<1>6. ASSUME NEW t \in Threads, Retry(t) PROVE LimitInv'
  BY <1>6 DEF Retry
<1>7. CASE UNCHANGED limitVars  BY <1>7 DEF limitVars
<1> QED  BY <1>1, <1>2, <1>3, <1>4, <1>5, <1>6, <1>7 DEF LimitNext, ThreadStep

\* The strengthened invariant holds throughout.
THEOREM LimitCorrect == LimitSpec => []LimitInv
BY FirstStateFits, LimitStep, PTL DEF LimitSpec

\* A burst is bounded in every window, for every limit and any threads.
THEOREM BurstIsBounded == LimitSpec => []BurstBounded
<1>1. LimitInv => BurstBounded
  <2> SUFFICES ASSUME LimitInv PROVE BurstBounded
    OBVIOUS
  <2>1. /\ window.granted \in Nat /\ window.from \in Nat
        /\ now \in Nat /\ next \in Int /\ next <= now /\ window.from <= now
    BY DEF LimitInv, LimitTypeOK, Clocks
  <2>2. window.granted * TimePerToken \in Nat  BY <2>1, OneMore
  <2>3. CASE window.granted = 0
    <3>1. window.granted * TimePerToken = 0  BY <2>3, TimesAreNumbers
    <3> QED  BY <2>1, <3>1, TimesAreNumbers DEF BurstBounded
  <2>4. CASE window.granted > 0
    BY <2>1, <2>2, <2>4, TimesAreNumbers DEF LimitInv, WindowPaid, BurstBounded
  <2> QED  BY <2>1, <2>3, <2>4
<1> QED  BY <1>1, LimitCorrect, PTL
=============================================================================
