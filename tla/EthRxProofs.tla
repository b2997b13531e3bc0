---------------------------- MODULE EthRxProofs ----------------------------
(***************************************************************************)
(* Receiving, for any ring, pool and tasks: where the buffers are, the     *)
(* flag of an exhausted pool, and the order in which frames are read.      *)
(***************************************************************************)
EXTENDS EthRx, DescriptorRingProofs, FiniteSetTheorems

LEMMA TasksType ==
  /\ "EthIf" \in Tasks /\ "EthLink" \in Tasks
  /\ "EthIf" \notin Freers /\ "EthLink" \notin Freers
  /\ \A f \in Freers : f \in Tasks /\ f # "EthIf" /\ f # "EthLink"
BY RxAssumption DEF Tasks

\* Where each task may be, and what it knows there.
Control ==
  /\ pc["EthIf"] \in {"wait", "input", "loop", "failed", "tail", "deliver", "fault"}
  /\ pc["EthLink"] \in {"idle", "loop", "failed", "tail"}
  /\ \A f \in Freers : pc[f] \in {"idle", "test", "clear", "release"}
  /\ got # NoBuf => pc["EthIf"] \in {"loop", "failed", "tail", "deliver"}
  /\ gState = "BUSY" <=> pc["EthLink"] \in {"loop", "failed", "tail"}
  /\ gState = "BUSY" => pc["EthIf"] \in {"wait", "input"}
  /\ \A t \in {"EthIf", "EthLink"} :
       pc[t] = "failed" => RxBuildDescCnt > 0 /\ BackupAddr0[RxBuildDescIdx] = NoBuf
  /\ pc["EthIf"] = "failed" => pool = {}

Places == {"wait", "input", "loop", "failed", "tail", "deliver",
           "fault", "idle", "test", "clear", "release"}

LEMMA GoesType ==
  ASSUME NEW t \in Tasks, NEW from, NEW to, Goes(t, from, to), TypeOK, to \in Places
  PROVE  /\ pc[t] = from /\ pc'[t] = to
         /\ \A x \in Tasks : x # t => pc'[x] = pc[x]
         /\ pc' \in [Tasks -> Places]
BY DEF Goes, TypeOK, Places

LEMMA InitControl == Init => TypeOK /\ Control
<1> SUFFICES ASSUME Init
             PROVE  TypeOK /\ Control
  OBVIOUS
<1>1. 0 \in Desc /\ 0 \in 0 .. N
  BY RingAssumption DEF Desc
<1>2. TypeOK
  BY <1>1 DEF Init, TypeOK
<1>3. /\ pc["EthIf"] = "wait" /\ pc["EthLink"] = "idle"
      /\ \A f \in Freers : pc[f] = "idle"
  BY TasksType DEF Init
<1>4. Control
  BY <1>3 DEF Init, Control
<1> QED
  BY <1>2, <1>4

\* The type of what ETH_UpdateDescriptor leaves, for either of its callers.
LEMMA UpdateType ==
  ASSUME TypeOK, NEW t \in {"EthIf", "EthLink"}, Update(t)
  PROVE  TypeOK'
<1> USE TasksType DEF Places, ring, bufs, hw, hist
<1>1. RxBuildDescCnt > 0 /\ HandOver =>
        RxBuildDescCnt' \in 0 .. N /\ RxBuildDescIdx' \in Desc
        /\ own' \in [Desc -> BOOLEAN] /\ built' \in BOOLEAN
  BY NextType, RingAssumption DEF HandOver, TypeOK
<1>2. CASE Rebuild(t)
  BY <1>1, <1>2, GoesType DEF Rebuild, TypeOK
<1>3. CASE Allocate(t)
  <2>1. pool' \subseteq Bufs /\ BackupAddr0' \in [Desc -> Bufs \cup {NoBuf}]
    BY <1>3 DEF Allocate, TypeOK
  <2> QED
    BY <1>1, <1>3, <2>1, GoesType DEF Allocate, TypeOK
<1>4. CASE AllocateFails(t)
  BY <1>4, GoesType DEF AllocateFails, TypeOK
<1>5. CASE Mark(t)
  BY <1>5, GoesType DEF Mark, TypeOK
<1>6. CASE LoopEnds(t)
  BY <1>6, GoesType DEF LoopEnds, TypeOK
<1> QED
  BY <1>2, <1>3, <1>4, <1>5, <1>6 DEF Update

LEMMA NextKeepsType == TypeOK /\ [Next]_vars => TypeOK'
<1> SUFFICES ASSUME TypeOK, [Next]_vars
             PROVE  TypeOK'
  OBVIOUS
<1> USE TasksType DEF Places, ring, bufs, hw, hist
<1>1. CASE Wake \/ InputRefused \/ ReadNull \/ ReadNothing \/ DeliverNothing
  <2>1. CASE Wake
    BY <2>1, GoesType DEF Wake, TypeOK
  <2>2. CASE InputRefused
    BY <2>2, GoesType DEF InputRefused, TypeOK
  <2>3. CASE ReadNull
    BY <2>3, GoesType DEF ReadNull, TypeOK
  <2>4. CASE ReadNothing
    <3>1. pc' \in [Tasks -> Places]
      BY <2>4, GoesType DEF ReadNothing, Places
    <3> QED
      BY <2>4, <3>1 DEF ReadNothing, TypeOK, Places
  <2>5. CASE DeliverNothing
    BY <2>5, GoesType DEF DeliverNothing, TypeOK
  <2> QED
    BY <1>1, <2>1, <2>2, <2>3, <2>4, <2>5
<1>2. CASE ReadFrame
  <2>1. RxBuildDescCnt' \in 0 .. N
    BY <1>2, RingAssumption DEF ReadFrame, FrameReady, TypeOK
  <2>2. RxDescIdx' \in Desc
    BY <1>2, NextType DEF ReadFrame, TypeOK
  <2>3. got' \in Bufs \cup {NoBuf} /\ BackupAddr0' \in [Desc -> Bufs \cup {NoBuf}]
    BY <1>2 DEF ReadFrame, TypeOK
  <2> QED
    BY <1>2, <2>1, <2>2, <2>3, GoesType DEF ReadFrame, TypeOK
<1>3. CASE Update("EthIf") \/ Update("EthLink")
  BY <1>3, UpdateType
<1>4. CASE TailWritten
  BY <1>4, GoesType DEF TailWritten, TypeOK
<1>5. CASE Deliver \/ DeliverFails
  <2>1. CASE Deliver
    BY <2>1, GoesType DEF Deliver, TypeOK
  <2>2. CASE DeliverFails
    BY <2>2, GoesType DEF DeliverFails, TypeOK
  <2> QED
    BY <1>5, <2>1, <2>2
<1>6. CASE HardFault_Handler \/ UNCHANGED vars
  BY <1>6 DEF HardFault_Handler, vars, TypeOK
<1>7. CASE DmaReceives
  BY <1>7, NextType DEF DmaReceives, TypeOK
<1>8. CASE DmaSuspends \/ Interrupt \/ HAL_ETH_Stop_IT
  <2>1. CASE DmaSuspends
    BY <2>1 DEF DmaSuspends, TypeOK
  <2>2. CASE Interrupt
    BY <2>2 DEF Interrupt, TypeOK
  <2>3. CASE HAL_ETH_Stop_IT
    BY <2>3 DEF HAL_ETH_Stop_IT, TypeOK
  <2> QED
    BY <1>8, <2>1, <2>2, <2>3
<1>9. ASSUME NEW f \in Freers, Freer(f)
      PROVE  TypeOK'
  <2>1. ASSUME NEW b \in Bufs, FreeBuffer(f, b)
        PROVE  TypeOK'
    BY <2>1, GoesType DEF FreeBuffer, TypeOK
  <2>2. CASE TestFlag(f)
    <3>1. pc' \in [Tasks -> Places]
      BY <2>2, GoesType DEF TestFlag, Places
    <3> QED
      BY <2>2, <3>1 DEF TestFlag, TypeOK, Places
  <2>3. CASE ClearFlag(f)
    BY <2>3, GoesType DEF ClearFlag, TypeOK
  <2>4. CASE Signal(f)
    BY <2>4, GoesType DEF Signal, TypeOK
  <2> QED
    BY <1>9, <2>1, <2>2, <2>3, <2>4 DEF Freer
<1>10. CASE StartBegins
  <2>1. N \in 0 .. N
    BY RingAssumption
  <2> QED
    BY <1>10, <2>1, GoesType DEF StartBegins, TypeOK
<1>11. CASE StartEnds
  BY <1>11, GoesType DEF StartEnds, TypeOK
<1> QED
  BY <1>1, <1>2, <1>3, <1>4, <1>5, <1>6, <1>7, <1>8, <1>9, <1>10, <1>11
  DEF Next, EthIf, Starting

-----------------------------------------------------------------------------

LEMMA UpdateControl ==
  ASSUME TypeOK, Control, NEW t \in {"EthIf", "EthLink"}, Update(t)
  PROVE  Control'
<1> USE TasksType DEF Places, ring, bufs, hw, hist
<1>1. gState' = gState /\ got' = got
  BY DEF Update, Rebuild, Allocate, AllocateFails, Mark, LoopEnds
<1>2. pc[t] \in {"loop", "failed"}
  BY GoesType DEF Update, Rebuild, Allocate, AllocateFails, Mark, LoopEnds
<1>3. t = "EthIf" => pc["EthLink"] = "idle"
  BY <1>2 DEF Control
<1>4. t = "EthLink" => pc["EthIf"] \in {"wait", "input"}
  BY <1>2 DEF Control
<1>5. CASE Rebuild(t)
  <2>1. pc' = pc
    BY <1>5, GoesType DEF Rebuild, Goes, TypeOK
  <2>2. pc[t] = "loop" /\ pool' = pool
    BY <1>5, GoesType DEF Rebuild
  <2> QED
    BY <1>1, <1>3, <1>4, <2>1, <2>2 DEF Control
<1>6. CASE Allocate(t)
  <2>1. pc' = pc
    BY <1>6, GoesType DEF Allocate, Goes, TypeOK
  <2>2. pc[t] = "loop"
    BY <1>6, GoesType DEF Allocate
  <2> QED
    BY <1>1, <1>3, <1>4, <2>1, <2>2 DEF Control
<1>7. CASE AllocateFails(t)
  <2>1. pc[t] = "loop" /\ pc'[t] = "failed" /\ \A x \in Tasks : x # t => pc'[x] = pc[x]
    BY <1>7, GoesType DEF AllocateFails
  <2>2. RxBuildDescCnt' > 0 /\ BackupAddr0'[RxBuildDescIdx'] = NoBuf /\ pool' = {}
    BY <1>7 DEF AllocateFails
  <2> QED
    BY <1>1, <1>3, <1>4, <2>1, <2>2 DEF Control
<1>8. CASE Mark(t)
  <2>1. pc[t] = "failed" /\ pc'[t] = "tail" /\ \A x \in Tasks : x # t => pc'[x] = pc[x]
    BY <1>8, GoesType DEF Mark
  <2> QED
    BY <1>1, <1>3, <1>4, <2>1 DEF Control
<1>9. CASE LoopEnds(t)
  <2>1. pc[t] = "loop" /\ pc'[t] = "tail" /\ \A x \in Tasks : x # t => pc'[x] = pc[x]
    BY <1>9, GoesType DEF LoopEnds
  <2> QED
    BY <1>1, <1>3, <1>4, <2>1 DEF Control
<1> QED
  BY <1>5, <1>6, <1>7, <1>8, <1>9 DEF Update

LEMMA NextKeepsControl == TypeOK /\ Control /\ [Next]_vars => Control'
<1> SUFFICES ASSUME TypeOK, Control, [Next]_vars
             PROVE  Control'
  OBVIOUS
<1> USE TasksType DEF Places, ring, bufs, hw, hist
<1>1. ASSUME NEW from \in {"wait", "input", "tail", "deliver"},
             NEW to \in {"wait", "input", "loop", "deliver", "fault"},
             Goes("EthIf", from, to), gState' = gState,
             got' # NoBuf => to \in {"loop", "deliver"},
             gState = "BUSY" => to \in {"wait", "input"},
             gState # "BUSY" \/ UNCHANGED <<RxBuildDescCnt, RxBuildDescIdx, BackupAddr0>>
      PROVE  Control'
  <2>1. pc'["EthIf"] = to /\ \A x \in Tasks : x # "EthIf" => pc'[x] = pc[x]
    BY <1>1, GoesType
  <2> QED
    BY <1>1, <2>1 DEF Control
<1>2. CASE Wake \/ InputRefused
  <2>1. got = NoBuf
    BY <1>2, GoesType DEF Wake, InputRefused, Control
  <2> QED
    BY <1>1, <1>2, <2>1 DEF Wake, InputRefused
<1>3. CASE ReadFrame
  <2>1. gState # "BUSY"
    BY <1>3 DEF ReadFrame, MayRead
  <2> QED
    BY <1>1, <1>3, <2>1 DEF ReadFrame
<1>4. CASE ReadNull \/ ReadNothing
  <2>1. gState # "BUSY"
    BY <1>4 DEF ReadNull, ReadNothing, MayRead
  <2>2. got = NoBuf
    BY <1>4, GoesType DEF ReadNull, ReadNothing, Control
  <2> QED
    BY <1>1, <1>4, <2>1, <2>2 DEF ReadNull, ReadNothing
<1>5. CASE TailWritten
  <2>1. gState # "BUSY"
    BY <1>5, GoesType DEF TailWritten, Control
  <2> QED
    BY <1>1, <1>5, <2>1 DEF TailWritten
<1>6. CASE Deliver \/ DeliverFails \/ DeliverNothing
  <2>1. gState # "BUSY"
    BY <1>6, GoesType DEF Deliver, DeliverFails, DeliverNothing, Control
  <2> QED
    BY <1>1, <1>6, <2>1 DEF Deliver, DeliverFails, DeliverNothing
<1>7. CASE Update("EthIf") \/ Update("EthLink")
  BY <1>7, UpdateControl
<1>8. CASE HardFault_Handler \/ UNCHANGED vars
  BY <1>8 DEF HardFault_Handler, vars, Control
<1>9. CASE DmaReceives \/ DmaSuspends \/ Interrupt
  BY <1>9 DEF DmaReceives, DmaSuspends, Interrupt, Control
<1>10. ASSUME NEW f \in Freers, Freer(f)
       PROVE  Control'
  <2> DEFINE Moves ==
        /\ \A x \in Tasks : x # f => pc'[x] = pc[x]
        /\ pc'[f] \in {"idle", "test", "clear", "release"}
        /\ UNCHANGED <<gState, got, RxBuildDescCnt, RxBuildDescIdx, BackupAddr0>>
  <2>1. Moves
    <3>1. ASSUME NEW b \in Bufs, FreeBuffer(f, b)
          PROVE  Moves
      BY <3>1, GoesType DEF FreeBuffer
    <3>2. CASE TestFlag(f)
      BY <3>2, GoesType DEF TestFlag
    <3>3. CASE ClearFlag(f)
      BY <3>3, GoesType DEF ClearFlag
    <3>4. CASE Signal(f)
      BY <3>4, GoesType DEF Signal
    <3> QED
      BY <1>10, <3>1, <3>2, <3>3, <3>4 DEF Freer
  <2>2. pc["EthIf"] = "failed" => pool' = pool
    <3>1. ~ \E b \in Bufs : FreeBuffer(f, b) /\ pc["EthIf"] = "failed"
      BY DEF FreeBuffer, MayRun, Asleep
    <3> QED
      BY <1>10, <3>1 DEF Freer, TestFlag, ClearFlag, Signal
  <2> QED
    BY <2>1, <2>2 DEF Control
<1>11. CASE HAL_ETH_Stop_IT
  BY <1>11 DEF HAL_ETH_Stop_IT, Control
<1>12. CASE StartBegins
  <2>1. /\ pc["EthLink"] = "idle" /\ pc'["EthLink"] = "loop"
        /\ \A x \in Tasks : x # "EthLink" => pc'[x] = pc[x]
    BY <1>12, GoesType DEF StartBegins
  <2>2. pc["EthIf"] = "wait" /\ gState' = "BUSY" /\ got' = got
    BY <1>12 DEF StartBegins, MayRun, Asleep
  <2> QED
    BY <2>1, <2>2 DEF Control
<1>13. CASE StartEnds
  <2>1. /\ pc["EthLink"] = "tail" /\ pc'["EthLink"] = "idle"
        /\ \A x \in Tasks : x # "EthLink" => pc'[x] = pc[x]
    BY <1>13, GoesType DEF StartEnds
  <2>2. gState' = "STARTED" /\ got' = got
    BY <1>13 DEF StartEnds
  <2> QED
    BY <2>1, <2>2 DEF Control
<1> QED
  BY <1>2, <1>3, <1>4, <1>5, <1>6, <1>7, <1>8, <1>9, <1>10, <1>11, <1>12, <1>13
  DEF Next, EthIf, Starting

-----------------------------------------------------------------------------

\* Where the buffers are, element by element.
LEMMA InRingIs == \A b : b \in InRing <=> b # NoBuf /\ \E i \in Desc : BackupAddr0[i] = b
BY DEF InRing

LEMMA UpdateBuffers ==
  ASSUME TypeOK, BuffersOnce, NEW t \in {"EthIf", "EthLink"}, Update(t)
  PROVE  BuffersOnce'
<1> USE DEF ring, bufs, hw, hist
<1>1. CASE AllocateFails(t) \/ Mark(t) \/ LoopEnds(t)
  BY <1>1 DEF AllocateFails, Mark, LoopEnds, BuffersOnce, InRing
<1>2. CASE Rebuild(t)
  <2>1. /\ UNCHANGED <<BackupAddr0, pool, held, got>>
        /\ \A i \in Desc : own'[i] => own[i] \/ i = RxBuildDescIdx
        /\ BackupAddr0[RxBuildDescIdx] # NoBuf
    BY <1>2 DEF Rebuild, HandOver, TypeOK
  <2> QED
    BY <2>1 DEF BuffersOnce, InRing
<1>3. CASE Allocate(t)
  <2>1. PICK b \in pool : /\ pool' = pool \ {b}
                          /\ BackupAddr0' = [BackupAddr0 EXCEPT ![RxBuildDescIdx] = b]
    BY <1>3 DEF Allocate
  <2>2. /\ b # NoBuf /\ RxBuildDescIdx \in Desc /\ BackupAddr0[RxBuildDescIdx] = NoBuf
        /\ UNCHANGED <<held, got>>
    BY <1>3, RxAssumption DEF Allocate, TypeOK
  <2>3. \A i \in Desc : /\ BackupAddr0'[i] = IF i = RxBuildDescIdx THEN b ELSE BackupAddr0[i]
                        /\ own'[i] => own[i] \/ i = RxBuildDescIdx
    BY <1>3, <2>1 DEF Allocate, HandOver, TypeOK
  <2>4. InRing' = InRing \cup {b}
    <3>1. ASSUME NEW x \in InRing'
          PROVE  x \in InRing \cup {b}
      BY <2>3, <3>1 DEF InRing
    <3>2. ASSUME NEW x \in InRing
          PROVE  x \in InRing'
      <4>1. PICK i \in Desc : x = BackupAddr0[i] /\ x # NoBuf
        BY DEF InRing
      <4>2. BackupAddr0'[i] = x
        BY <2>2, <2>3, <4>1
      <4> QED
        BY <4>1, <4>2 DEF InRing
    <3>3. b \in InRing'
      <4>1. BackupAddr0'[RxBuildDescIdx] = b
        BY <2>2, <2>3
      <4> QED
        BY <2>2, <4>1 DEF InRing
    <3> QED
      BY <3>1, <3>2, <3>3
  <2>5. b \notin InRing /\ b \notin held /\ b # got
    BY <2>1 DEF BuffersOnce
  <2>6. \A i \in Desc : BackupAddr0[i] # b
    BY <2>2, <2>5 DEF InRing
  <2>7. pool' \cup held' \cup InRing' \cup ({got'} \ {NoBuf}) = Bufs
    BY <2>1, <2>2, <2>4 DEF BuffersOnce
  <2>8. pool' \cap held' = {} /\ pool' \cap InRing' = {} /\ held' \cap InRing' = {}
        /\ got' \notin pool' \cup held' \cup InRing'
    BY <2>1, <2>2, <2>4, <2>5 DEF BuffersOnce
  <2>9. \A i, j \in Desc : BackupAddr0'[i] = BackupAddr0'[j] /\ BackupAddr0'[i] # NoBuf => i = j
    BY <2>3, <2>6 DEF BuffersOnce
  <2>10. \A i \in Desc : own'[i] => BackupAddr0'[i] # NoBuf
    BY <2>2, <2>3 DEF BuffersOnce
  <2> QED
    BY <2>7, <2>8, <2>9, <2>10 DEF BuffersOnce
<1> QED
  BY <1>1, <1>2, <1>3 DEF Update

LEMMA NextKeepsBuffers == TypeOK /\ Control /\ BuffersOnce /\ [Next]_vars => BuffersOnce'
<1> SUFFICES ASSUME TypeOK, Control, BuffersOnce, [Next]_vars
             PROVE  BuffersOnce'
  OBVIOUS
<1> USE DEF ring, bufs, hw, hist
<1>1. ASSUME UNCHANGED <<own, BackupAddr0, pool, held, got>>
      PROVE  BuffersOnce'
  BY <1>1 DEF BuffersOnce, InRing
<1>2. CASE Wake \/ InputRefused \/ ReadNull \/ ReadNothing \/ DeliverNothing \/ TailWritten
  BY <1>1, <1>2 DEF Wake, InputRefused, ReadNull, ReadNothing, DeliverNothing, TailWritten
<1>3. CASE ReadFrame
  <2>1. /\ got = NoBuf /\ RxDescIdx \in Desc
        /\ got' = BackupAddr0[RxDescIdx] /\ got' # NoBuf
        /\ UNCHANGED <<own, pool, held>> /\ ~own[RxDescIdx]
    BY <1>3, GoesType, TasksType DEF ReadFrame, FrameReady, Control, Places, TypeOK
  <2>2. \A i \in Desc : BackupAddr0'[i] = IF i = RxDescIdx THEN NoBuf ELSE BackupAddr0[i]
    BY <1>3 DEF ReadFrame, TypeOK
  <2>3. \A i \in Desc : i # RxDescIdx => BackupAddr0[i] # got'
    BY <2>1 DEF BuffersOnce
  <2>4. got' \in InRing
    BY <2>1 DEF InRing
  <2>5. InRing' = InRing \ {got'}
    <3>1. ASSUME NEW x \in InRing'
          PROVE  x \in InRing \ {got'}
      BY <2>2, <2>3 DEF InRing
    <3>2. ASSUME NEW x \in InRing \ {got'}
          PROVE  x \in InRing'
      <4>1. PICK i \in Desc : x = BackupAddr0[i] /\ x # NoBuf
        BY DEF InRing
      <4>2. BackupAddr0'[i] = x
        BY <2>1, <2>2, <4>1
      <4> QED
        BY <4>1, <4>2 DEF InRing
    <3> QED
      BY <3>1, <3>2
  <2>6. pool' \cup held' \cup InRing' \cup ({got'} \ {NoBuf}) = Bufs
    BY <2>1, <2>4, <2>5 DEF BuffersOnce
  <2>7. pool' \cap held' = {} /\ pool' \cap InRing' = {} /\ held' \cap InRing' = {}
        /\ got' \notin pool' \cup held' \cup InRing'
    BY <2>1, <2>4, <2>5 DEF BuffersOnce
  <2>8. \A i, j \in Desc : BackupAddr0'[i] = BackupAddr0'[j] /\ BackupAddr0'[i] # NoBuf => i = j
    BY <2>2 DEF BuffersOnce
  <2>9. \A i \in Desc : own'[i] => BackupAddr0'[i] # NoBuf
    BY <2>1, <2>2 DEF BuffersOnce
  <2> QED
    BY <2>6, <2>7, <2>8, <2>9 DEF BuffersOnce
<1>4. CASE Deliver
  BY <1>4, RxAssumption DEF Deliver, BuffersOnce, InRing, TypeOK
<1>5. CASE DeliverFails
  BY <1>5, RxAssumption DEF DeliverFails, BuffersOnce, InRing, TypeOK
<1>6. CASE Update("EthIf") \/ Update("EthLink")
  BY <1>6, UpdateBuffers
<1>7. CASE HardFault_Handler \/ UNCHANGED vars
  BY <1>1, <1>7 DEF HardFault_Handler, vars
<1>8. CASE DmaReceives
  <2>1. UNCHANGED <<BackupAddr0, pool, held, got>> /\ \A i \in Desc : own'[i] => own[i]
    BY <1>8 DEF DmaReceives, TypeOK
  <2> QED
    BY <2>1 DEF BuffersOnce, InRing
<1>9. CASE DmaSuspends \/ Interrupt \/ HAL_ETH_Stop_IT \/ StartBegins \/ StartEnds
  BY <1>1, <1>9 DEF DmaSuspends, Interrupt, HAL_ETH_Stop_IT, StartBegins, StartEnds
<1>10. ASSUME NEW f \in Freers, Freer(f)
       PROVE  BuffersOnce'
  <2>1. ASSUME NEW b \in Bufs, FreeBuffer(f, b)
        PROVE  BuffersOnce'
    BY <2>1 DEF FreeBuffer, BuffersOnce, InRing
  <2>2. CASE TestFlag(f) \/ ClearFlag(f) \/ Signal(f)
    BY <1>1, <2>2 DEF TestFlag, ClearFlag, Signal
  <2> QED
    BY <1>10, <2>1, <2>2 DEF Freer
<1> QED
  BY <1>2, <1>3, <1>4, <1>5, <1>6, <1>7, <1>8, <1>9, <1>10 DEF Next, EthIf, Starting

LEMMA InitBuffers == Init => BuffersOnce
<1> SUFFICES ASSUME Init
             PROVE  BuffersOnce
  OBVIOUS
<1>1. InRing = {}
  BY DEF Init, InRing
<1> QED
  BY <1>1, RxAssumption DEF Init, BuffersOnce

\* Every variable has its type, and each task is at one of its own places, in
\* every execution of the receive path.
THEOREM TypeCorrect == Spec => [](TypeOK /\ Control)
<1>1. Init => TypeOK /\ Control
  BY InitControl
<1>2. TypeOK /\ Control /\ [Next]_vars => (TypeOK /\ Control)'
  BY NextKeepsType, NextKeepsControl
<1> QED
  BY <1>1, <1>2, PTL DEF Spec

\* No receive buffer is lost, and none is in two places: the DMA never writes to
\* a buffer that lwIP or the pool has.
THEOREM BuffersAreOnce == Spec => []BuffersOnce
BY InitBuffers, NextKeepsBuffers, TypeCorrect, PTL DEF Spec

-----------------------------------------------------------------------------

\* A descriptor without a buffer leaves a buffer out of the ring.
LEMMA RingTooSmall ==
  ASSUME TypeOK, NEW j \in Desc, BackupAddr0[j] = NoBuf
  PROVE  InRing # Bufs
<1> SUFFICES ASSUME InRing = Bufs
             PROVE  FALSE
  OBVIOUS
<1> DEFINE D == {i \in Desc : BackupAddr0[i] # NoBuf}
           f == [i \in D |-> BackupAddr0[i]]
<1>1. f \in Surjection(D, Bufs)
  <2>1. f \in [D -> Bufs]
    BY DEF TypeOK
  <2>2. \A b \in Bufs : \E i \in D : f[i] = b
    BY DEF InRing
  <2> QED
    BY <2>1, <2>2 DEF Surjection
<1>2. IsFiniteSet(Desc) /\ Cardinality(Desc) = N
  BY FS_Interval, RingAssumption DEF Desc
<1>3. IsFiniteSet(Desc \ {j}) /\ Cardinality(Desc \ {j}) = N - 1
  BY <1>2, FS_RemoveElement
<1>4. IsFiniteSet(D) /\ Cardinality(D) <= N - 1
  <2>1. D \in SUBSET (Desc \ {j})
    OBVIOUS
  <2> HIDE DEF D
  <2> QED
    BY <1>3, <2>1, FS_Subset
<1>5. Cardinality(Bufs) <= Cardinality(D)
  <2> HIDE DEF D, f
  <2> QED
    BY <1>1, <1>4, FS_Surjection
<1>6. Cardinality(D) \in Nat /\ Cardinality(Bufs) \in Nat
  BY <1>4, RxAssumption, FS_CardinalityType
<1> HIDE DEF D
<1> QED
  BY <1>4, <1>5, <1>6, RingAssumption, RxAssumption

LEMMA UpdateSignalled ==
  ASSUME TypeOK, Control, BuffersOnce, ExhaustionSignalled, NEW t \in {"EthIf", "EthLink"},
         Update(t)
  PROVE  ExhaustionSignalled'
<1> USE TasksType DEF Places, ring, bufs, hw, hist
<1>1. CASE Mark(t)
  <2>1. /\ pc[t] = "failed" /\ pc'[t] = "tail" /\ \A x \in Tasks : x # t => pc'[x] = pc[x]
        /\ UNCHANGED <<held, got>>
    BY <1>1, GoesType DEF Mark
  <2>2. CASE t = "EthLink" /\ pool # {}
    BY <1>1, <2>2 DEF Mark, ExhaustionSignalled
  <2>3. CASE pool = {}
    <3>1. BackupAddr0[RxBuildDescIdx] = NoBuf /\ RxBuildDescIdx \in Desc
      BY <2>1 DEF Control, TypeOK
    <3>2. InRing # Bufs
      BY <3>1, RingTooSmall
    <3>3. held # {} \/ got # NoBuf
      BY <2>3, <3>2 DEF BuffersOnce
    <3> QED
      BY <2>1, <3>3 DEF ExhaustionSignalled
  <2>4. t = "EthIf" => pool = {}
    BY <2>1 DEF Control
  <2> QED
    BY <2>2, <2>3, <2>4
<1>2. CASE ~Mark(t)
  <2>1. UNCHANGED <<held, got, RxAllocStatus, lostWake>>
    BY <1>2 DEF Update, Rebuild, Allocate, AllocateFails, LoopEnds
  <2>2. \A f \in Freers : pc'[f] = pc[f]
    BY <1>2 DEF Update, Rebuild, Allocate, AllocateFails, LoopEnds, Goes, TypeOK
  <2> QED
    BY <2>1, <2>2 DEF ExhaustionSignalled
<1> QED
  BY <1>1, <1>2

LEMMA NextKeepsSignalled ==
  TypeOK /\ Control /\ BuffersOnce /\ ExhaustionSignalled /\ [Next]_vars => ExhaustionSignalled'
<1> SUFFICES ASSUME TypeOK, Control, BuffersOnce, ExhaustionSignalled, [Next]_vars
             PROVE  ExhaustionSignalled'
  OBVIOUS
<1> USE TasksType DEF Places, ring, bufs, hw, hist
<1>1. ASSUME UNCHANGED <<held, RxAllocStatus, lostWake>>, got # NoBuf => got' # NoBuf,
             \A f \in Freers : pc'[f] = pc[f]
      PROVE  ExhaustionSignalled'
  BY <1>1 DEF ExhaustionSignalled
<1>2. ASSUME NEW t \in {"EthIf", "EthLink"}, NEW from, NEW to, Goes(t, from, to)
      PROVE  \A f \in Freers : pc'[f] = pc[f]
  BY <1>2 DEF Goes, TypeOK
<1>3. CASE Wake \/ InputRefused \/ ReadNull \/ ReadNothing \/ DeliverNothing \/ TailWritten
  <2>1. UNCHANGED <<held, got, RxAllocStatus, lostWake>>
    BY <1>3 DEF Wake, InputRefused, ReadNull, ReadNothing, DeliverNothing, TailWritten
  <2>2. \A f \in Freers : pc'[f] = pc[f]
    BY <1>2, <1>3 DEF Wake, InputRefused, ReadNull, ReadNothing, DeliverNothing, TailWritten
  <2> QED
    BY <1>1, <2>1, <2>2
<1>4. CASE ReadFrame
  <2>1. \A f \in Freers : pc'[f] = pc[f]
    BY <1>2, <1>4 DEF ReadFrame
  <2> QED
    BY <1>1, <1>4, <2>1 DEF ReadFrame
<1>5. CASE Deliver
  <2>1. held' # {}
    BY <1>5 DEF Deliver
  <2> QED
    BY <2>1 DEF ExhaustionSignalled
<1>6. CASE DeliverFails
  BY <1>6 DEF DeliverFails, ExhaustionSignalled
<1>7. CASE Update("EthIf") \/ Update("EthLink")
  BY <1>7, UpdateSignalled
<1>8. CASE HardFault_Handler \/ UNCHANGED vars
  BY <1>1, <1>8 DEF HardFault_Handler, vars
<1>9. CASE DmaReceives \/ DmaSuspends \/ Interrupt \/ HAL_ETH_Stop_IT
  BY <1>1, <1>9 DEF DmaReceives, DmaSuspends, Interrupt, HAL_ETH_Stop_IT
<1>10. CASE StartBegins \/ StartEnds
  <2>1. \A f \in Freers : pc'[f] = pc[f]
    BY <1>2, <1>10 DEF StartBegins, StartEnds
  <2> QED
    BY <1>1, <1>10, <2>1 DEF StartBegins, StartEnds
<1>11. ASSUME NEW f \in Freers, Freer(f)
       PROVE  ExhaustionSignalled'
  <2>1. ASSUME NEW b \in Bufs, FreeBuffer(f, b)
        PROVE  ExhaustionSignalled'
    <3>1. pc'[f] = "test"
      BY <2>1, GoesType DEF FreeBuffer
    <3> QED
      BY <3>1 DEF ExhaustionSignalled
  <2>2. CASE TestFlag(f)
    <3>1. CASE RxAllocStatus = "ERROR"
      <4>1. pc'[f] = "clear"
        BY <2>2, <3>1, GoesType DEF TestFlag
      <4> QED
        BY <4>1 DEF ExhaustionSignalled
    <3>2. CASE RxAllocStatus # "ERROR"
      BY <2>2, <3>2 DEF TestFlag, ExhaustionSignalled
    <3> QED
      BY <3>1, <3>2
  <2>3. CASE ClearFlag(f)
    BY <2>3 DEF ClearFlag, ExhaustionSignalled
  <2>4. CASE Signal(f)
    <3>1. pc[f] = "release" /\ \A x \in Tasks : x # f => pc'[x] = pc[x]
      BY <2>4, GoesType DEF Signal
    <3> QED
      BY <2>4, <3>1 DEF Signal, ExhaustionSignalled
  <2> QED
    BY <1>11, <2>1, <2>2, <2>3, <2>4 DEF Freer
<1> QED
  BY <1>3, <1>4, <1>5, <1>6, <1>7, <1>8, <1>9, <1>10, <1>11 DEF Next, EthIf, Starting

\* An exhausted pool is never forgotten, but for a start of the MAC.
THEOREM ExhaustionIsSignalled == Spec => []ExhaustionSignalled
<1>1. Init => ExhaustionSignalled
  BY DEF Init, ExhaustionSignalled
<1> QED
  BY <1>1, NextKeepsSignalled, TypeCorrect, BuffersAreOnce, PTL DEF Spec

-----------------------------------------------------------------------------

\* Descriptors from RxDescIdx on that are not waiting to be built.
Built == N - RxBuildDescCnt
Place(i) == Distance(i, RxDescIdx)

\* u frames have not been read.
Filled(u) ==
  /\ u \in 0 .. Built
  /\ dma = At(RxDescIdx, u % N)
  /\ RxBuildDescIdx = At(RxDescIdx, Built % N)
  /\ \A i \in Desc : BackupAddr0[i] # NoBuf <=> Place(i) < Built
  /\ \A i \in Desc : own[i] <=> u <= Place(i) /\ Place(i) < Built

\* Before the first start.
Empty ==
  /\ \A i \in Desc : ~own[i] /\ BackupAddr0[i] = NoBuf
  /\ RxBuildDescCnt = 0 /\ RxBuildDescIdx = RxDescIdx /\ dma = RxDescIdx

\* During a start with all descriptors filled already.
Again ==
  /\ \A i \in Desc : own[i]
  /\ dma = RxDescIdx
  /\ RxBuildDescIdx = At(RxDescIdx, Built % N)
  /\ pc["EthLink"] # "failed"
  /\ pc["EthLink"] = "tail" => RxBuildDescCnt = 0

OrderInv ==
  ~skew =>
    \/ gState = "READY" /\ Empty
    \/ gState = "BUSY" /\ Again
    \/ \E u \in 0 .. N : Filled(u) /\ (gState = "BUSY" => u = 0)

LEMMA BuiltType == TypeOK => Built \in 0 .. N /\ RxDescIdx \in Desc
BY SizeType DEF TypeOK, Built

LEMMA FilledPlaces ==
  ASSUME TypeOK
  PROVE  /\ \A i \in Desc : Place(i) \in 0 .. N - 1
         /\ Place(RxDescIdx) = 0
BY BuiltType, DistanceType DEF Place

LEMMA ReadFilled ==
  ASSUME TypeOK, NEW u \in 0 .. N, Filled(u), ReadFrame
  PROVE  u - 1 \in 0 .. N /\ Filled(u - 1)'
<1>1. /\ RxDescIdx \in Desc /\ RxBuildDescIdx \in Desc /\ dma \in Desc /\ Built \in 0 .. N
      /\ RxBuildDescCnt \in 0 .. N
  BY BuiltType DEF TypeOK
<1>2. /\ RxDescIdx' = Next_(RxDescIdx) /\ RxBuildDescCnt' = RxBuildDescCnt + 1
      /\ BackupAddr0' = [BackupAddr0 EXCEPT ![RxDescIdx] = NoBuf]
      /\ UNCHANGED <<own, RxBuildDescIdx, dma>>
      /\ ~own[RxDescIdx] /\ BackupAddr0[RxDescIdx] # NoBuf
  BY DEF ReadFrame, FrameReady, hw
<1>3. /\ \A i \in Desc : Place(i) \in 0 .. N - 1
      /\ Place(RxDescIdx) = 0
  BY FilledPlaces
<1>4. u \in 0 .. Built /\ 0 < Built /\ u >= 1
  BY <1>1, <1>2, <1>3 DEF Filled
<1>5. Built' = Built - 1 /\ Built - 1 \in 0 .. N /\ u - 1 \in 0 .. Built - 1 /\ u - 1 \in 0 .. N
      /\ u - 1 < N /\ Built - 1 < N
  BY <1>1, <1>2, <1>4, SizeType DEF Built
<1>6. \A i \in Desc : Place(i)' = IF i = RxDescIdx THEN N - 1 ELSE Place(i) - 1
  BY <1>1, <1>2, DistanceAfterNext DEF Place
<1>7. RxDescIdx' \in Desc
  BY <1>1, <1>2, NextType
<1>8. ASSUME NEW k \in 1 .. N, NEW i \in Desc, i = At(RxDescIdx, k % N)
      PROVE  Place(i)' = k - 1
  <2>0. k \in 0 .. N
    BY SizeType
  <2>1. CASE k < N
    <3>1. Place(i) = k
      BY <1>1, <1>8, <2>0, <2>1, PositionType DEF Place
    <3>2. i # RxDescIdx
      BY <1>3, <3>1
    <3> QED
      BY <1>6, <3>1, <3>2
  <2>2. CASE k = N
    <3>1. i = RxDescIdx
      BY <1>1, <1>8, <2>0, <2>2, PositionType
    <3> QED
      BY <1>6, <2>2, <3>1
  <2> QED
    BY <2>0, <2>1, <2>2, SizeType
<1>9. Distance(dma, RxDescIdx') = u - 1 /\ Distance(RxBuildDescIdx, RxDescIdx') = Built - 1
  <2>1. u \in 1 .. N /\ Built \in 1 .. N
    BY <1>1, <1>4
  <2> QED
    BY <1>1, <1>2, <1>8, <2>1 DEF Filled, Place
<1>10. dma' = At(RxDescIdx', (u - 1) % N) /\ RxBuildDescIdx' = At(RxDescIdx', Built' % N)
  BY <1>1, <1>2, <1>5, <1>7, <1>9, PositionIs
<1>11. ASSUME NEW i \in Desc
       PROVE  /\ BackupAddr0'[i] # NoBuf <=> Place(i)' < Built'
              /\ own'[i] <=> u - 1 <= Place(i)' /\ Place(i)' < Built'
  <2>1. CASE i = RxDescIdx
    <3>1. ~(N - 1 < Built - 1) /\ BackupAddr0'[i] = NoBuf /\ ~own'[i]
      BY <1>1, <1>2, <2>1, SizeType DEF TypeOK
    <3> QED
      BY <1>5, <1>6, <2>1, <3>1
  <2>2. CASE i # RxDescIdx
    <3>1. BackupAddr0'[i] = BackupAddr0[i] /\ own'[i] = own[i]
      BY <1>2, <2>2 DEF TypeOK
    <3>2. Place(i)' = Place(i) - 1 /\ Place(i) \in 0 .. N - 1
      BY <1>3, <1>6, <2>2
    <3> QED
      BY <1>1, <1>4, <1>5, <3>1, <3>2 DEF Filled
  <2> QED
    BY <2>1, <2>2
<1> QED
  BY <1>5, <1>10, <1>11 DEF Filled

LEMMA DmaFilled ==
  ASSUME TypeOK, NEW u \in 0 .. N, Filled(u), DmaReceives
  PROVE  u + 1 \in 0 .. N /\ Filled(u + 1)'
<1>1. RxDescIdx \in Desc /\ dma \in Desc /\ Built \in 0 .. N /\ u \in 0 .. Built
  BY BuiltType DEF TypeOK, Filled
<1>2. /\ dma' = Next_(dma) /\ own' = [own EXCEPT ![dma] = FALSE] /\ own[dma]
      /\ UNCHANGED <<RxDescIdx, RxBuildDescIdx, RxBuildDescCnt, BackupAddr0>>
  BY DEF DmaReceives
<1>3. u <= Place(dma) /\ Place(dma) < Built /\ Place(dma) \in 0 .. N - 1
  BY <1>1, <1>2, FilledPlaces DEF Filled
<1>4. u < N /\ u < Built /\ u \in 0 .. N - 1 /\ u + 1 \in 0 .. Built /\ u + 1 \in 0 .. N
  BY <1>1, <1>3, SizeType
<1>5. Place(dma) = u
  BY <1>1, <1>4, PositionType DEF Filled, Place
<1>6. dma' = At(RxDescIdx', (u + 1) % N)
  BY <1>1, <1>2, <1>4, PositionNext DEF Filled
<1>7. ASSUME NEW i \in Desc
      PROVE  own'[i] <=> u + 1 <= Place(i) /\ Place(i) < Built
  <2>1. Place(i) \in 0 .. N - 1
    BY FilledPlaces
  <2>2. CASE i = dma
    BY <1>2, <1>5, <2>2 DEF TypeOK
  <2>3. CASE i # dma
    <3>1. Place(i) # u
      BY <1>1, <1>5, <2>3, SameDistance DEF Place
    <3>2. own'[i] = own[i]
      BY <1>2, <2>3 DEF TypeOK
    <3> QED
      BY <2>1, <3>1, <3>2 DEF Filled
  <2> QED
    BY <2>2, <2>3
<1>8. Built' = Built /\ \A i \in Desc : Place(i)' = Place(i)
  BY <1>2 DEF Built, Place
<1> QED
  BY <1>2, <1>4, <1>6, <1>7, <1>8 DEF Filled

\* Building the next descriptor with a buffer taken from the pool.
LEMMA BuildFilled ==
  ASSUME TypeOK, NEW u \in 0 .. N, Filled(u), NEW t \in {"EthIf", "EthLink"},
         Allocate(t) \/ Rebuild(t)
  PROVE  Filled(u)'
<1>1. RxDescIdx \in Desc /\ RxBuildDescIdx \in Desc /\ Built \in 0 .. N /\ u \in 0 .. Built
      /\ RxBuildDescCnt \in 0 .. N
  BY BuiltType DEF TypeOK, Filled
<1>2. /\ RxBuildDescCnt > 0 /\ RxBuildDescCnt' = RxBuildDescCnt - 1
      /\ RxBuildDescIdx' = Next_(RxBuildDescIdx)
      /\ own' = [own EXCEPT ![RxBuildDescIdx] = TRUE]
      /\ UNCHANGED <<RxDescIdx, dma>>
  BY DEF Allocate, Rebuild, HandOver, hw
<1>3. Built < N /\ Built' = Built + 1 /\ Built \in 0 .. N - 1
  BY <1>1, <1>2, SizeType DEF Built
<1>4. Place(RxBuildDescIdx) = Built
  BY <1>1, <1>3, PositionType DEF Filled, Place
<1>5. BackupAddr0[RxBuildDescIdx] = NoBuf
  BY <1>1, <1>4 DEF Filled
<1>6. PICK b \in Bufs : BackupAddr0' = [BackupAddr0 EXCEPT ![RxBuildDescIdx] = b]
  BY <1>5 DEF Allocate, Rebuild, TypeOK
<1>7. b # NoBuf
  BY RxAssumption
<1>8. RxBuildDescIdx' = At(RxDescIdx', Built' % N)
  BY <1>1, <1>2, <1>3, PositionNext DEF Filled
<1>9. ASSUME NEW i \in Desc
      PROVE  /\ BackupAddr0'[i] # NoBuf <=> Place(i) < Built + 1
             /\ own'[i] <=> u <= Place(i) /\ Place(i) < Built + 1
  <2>1. Place(i) \in 0 .. N - 1
    BY FilledPlaces
  <2>2. CASE i = RxBuildDescIdx
    BY <1>1, <1>2, <1>4, <1>6, <1>7, <2>2 DEF TypeOK
  <2>3. CASE i # RxBuildDescIdx
    <3>1. Place(i) # Built
      BY <1>1, <1>4, <2>3, SameDistance DEF Place
    <3>2. own'[i] = own[i] /\ BackupAddr0'[i] = BackupAddr0[i]
      BY <1>2, <1>6, <2>3 DEF TypeOK
    <3>3. Place(i) < Built + 1 <=> Place(i) < Built
      BY <1>1, <2>1, <3>1
    <3> QED
      BY <3>2, <3>3 DEF Filled
  <2> QED
    BY <2>2, <2>3
<1>10. \A i \in Desc : Place(i)' = Place(i)
  BY <1>2 DEF Place
<1>11. u \in 0 .. Built'
  BY <1>1, <1>3
<1> QED
  BY <1>2, <1>3, <1>8, <1>9, <1>10, <1>11 DEF Filled

\* What a start does when every descriptor has its buffer already.
LEMMA UpdateAgain ==
  ASSUME TypeOK, Control, BuffersOnce, gState = "BUSY", Again, Update("EthLink")
  PROVE  Again'
<1> USE TasksType DEF Places, ring, bufs, hw, hist
<1>1. RxBuildDescIdx \in Desc /\ \A i \in Desc : BackupAddr0[i] # NoBuf
  BY DEF TypeOK, Again, BuffersOnce
<1>2. CASE Rebuild("EthLink")
  <2>1. RxBuildDescCnt > 0 /\ RxBuildDescCnt' = RxBuildDescCnt - 1
        /\ RxBuildDescIdx' = Next_(RxBuildDescIdx)
        /\ UNCHANGED <<RxDescIdx, dma>>
        /\ \A i \in Desc : own'[i]
    BY <1>2 DEF Rebuild, HandOver, Again, TypeOK
  <2>2. Built' = Built + 1 /\ Built \in 0 .. N - 1 /\ RxDescIdx \in Desc
    BY <2>1, BuiltType, SizeType DEF Built, TypeOK
  <2>3. RxBuildDescIdx' = At(RxDescIdx', Built' % N)
    BY <2>1, <2>2, PositionNext DEF Again
  <2>4. pc'["EthLink"] = "loop"
    BY <1>2, GoesType DEF Rebuild
  <2> QED
    BY <2>1, <2>3, <2>4 DEF Again
<1>3. CASE Allocate("EthLink") \/ AllocateFails("EthLink")
  BY <1>1, <1>3 DEF Allocate, AllocateFails
<1>4. CASE Mark("EthLink")
  <2>1. pc["EthLink"] = "failed"
    BY <1>4, GoesType DEF Mark
  <2> QED
    BY <2>1 DEF Again
<1>5. CASE LoopEnds("EthLink")
  <2>1. pc'["EthLink"] = "tail" /\ RxBuildDescCnt' = 0
        /\ UNCHANGED <<own, dma, RxDescIdx, RxBuildDescIdx, RxBuildDescCnt>>
    BY <1>5, GoesType DEF LoopEnds
  <2> QED
    BY <2>1 DEF Again, Built
<1> QED
  BY <1>2, <1>3, <1>4, <1>5 DEF Update

\* A start finds an empty ring or a full one, or is on record.
LEMMA StartOrders ==
  ASSUME TypeOK, Control, BuffersOnce, OrderInv, StartBegins
  PROVE  OrderInv'
<1> USE TasksType DEF Places, ring, bufs, hw, hist
<1> SUFFICES ASSUME ~skew'
             PROVE  gState' = "BUSY" /\ (Again' \/ Filled(0)')
  <2>1. 0 \in 0 .. N
    BY SizeType
  <2> QED
    BY <2>1 DEF OrderInv
<1>1. /\ ~skew /\ RxBuildDescCnt = 0 /\ Unread = {}
      /\ gState = "READY" /\ gState' = "BUSY"
      /\ RxBuildDescCnt' = N
      /\ UNCHANGED <<own, BackupAddr0, RxDescIdx, RxBuildDescIdx, dma>>
      /\ pc'["EthLink"] = "loop"
  BY GoesType DEF StartBegins
<1>2. Built = N /\ Built' = 0 /\ RxDescIdx \in Desc /\ RxDescIdx' = RxDescIdx
  BY <1>1, SizeType, BuiltType DEF Built
<1>3. RxDescIdx = At(RxDescIdx, 0 % N) /\ RxDescIdx = At(RxDescIdx, N % N)
  <2>1. Distance(RxDescIdx, RxDescIdx) = 0 /\ 0 \in 0 .. N /\ N \in 0 .. N /\ 0 < N
    BY <1>2, DistanceType, SizeType
  <2> QED
    BY <1>2, <2>1, PositionIs
<1>4. CASE Empty
  <2>1. \A i \in Desc : ~(Place(i)' < 0)
    BY <1>1, FilledPlaces DEF Place
  <2> QED
    BY <1>1, <1>2, <1>3, <1>4, <2>1 DEF Empty, Filled
<1>5. ASSUME NEW u \in 0 .. N, Filled(u)
      PROVE  Again'
  <2>1. \A i \in Desc : Place(i) \in 0 .. N - 1 /\ Place(i) < Built
    BY <1>2, FilledPlaces, SizeType
  <2>2. u = 0
    <3>1. RxDescIdx \notin Unread
      BY <1>1
    <3>2. BackupAddr0[RxDescIdx] # NoBuf
      BY <1>2, <1>5, <2>1 DEF Filled
    <3>3. own[RxDescIdx]
      BY <1>2, <3>1, <3>2 DEF Unread
    <3>4. u <= 0
      BY <1>2, <1>5, <3>3, FilledPlaces DEF Filled
    <3> QED
      BY <3>4
  <2>3. \A i \in Desc : own[i]
    BY <1>5, <2>1, <2>2 DEF Filled
  <2>4. dma = RxDescIdx /\ RxBuildDescIdx = RxDescIdx
    BY <1>2, <1>3, <1>5, <2>2 DEF Filled
  <2> QED
    BY <1>1, <1>2, <1>3, <2>3, <2>4 DEF Again
<1> QED
  BY <1>1, <1>4, <1>5 DEF OrderInv

LEMMA UpdateOrders ==
  ASSUME TypeOK, Control, BuffersOnce, OrderInv, NEW t \in {"EthIf", "EthLink"}, Update(t)
  PROVE  OrderInv'
<1> USE TasksType DEF Places, ring, bufs, hw, hist
<1> SUFFICES ASSUME ~skew'
             PROVE  OrderInv'
  BY DEF OrderInv
<1>1. ~skew /\ gState' = gState
  BY DEF Update, Rebuild, Allocate, AllocateFails, Mark, LoopEnds
<1>2. pc[t] \in {"loop", "failed"}
  BY GoesType DEF Update, Rebuild, Allocate, AllocateFails, Mark, LoopEnds
<1>3. gState = "READY" => t = "EthIf"
  BY <1>2 DEF Control
<1>4. CASE gState = "BUSY" /\ Again
  <2>1. t = "EthLink"
    BY <1>2, <1>4 DEF Control
  <2> QED
    BY <1>1, <1>4, <2>1, UpdateAgain DEF OrderInv
<1>5. ASSUME NEW u \in 0 .. N, Filled(u), gState = "BUSY" => u = 0
      PROVE  OrderInv'
  <2>1. CASE Allocate(t) \/ Rebuild(t)
    BY <1>1, <1>5, <2>1, BuildFilled DEF OrderInv
  <2>2. CASE AllocateFails(t) \/ Mark(t) \/ LoopEnds(t)
    <3>1. UNCHANGED <<own, BackupAddr0, RxDescIdx, RxBuildDescIdx, RxBuildDescCnt, dma>>
      BY <2>2 DEF AllocateFails, Mark, LoopEnds
    <3>2. Filled(u)'
      BY <1>5, <3>1 DEF Filled, Built, Place
    <3> QED
      BY <1>1, <1>5, <3>2 DEF OrderInv
  <2> QED
    BY <2>1, <2>2 DEF Update
<1>6. CASE gState = "READY" /\ Empty
  <2>1. CASE AllocateFails(t) \/ Mark(t) \/ LoopEnds(t)
    <3>1. UNCHANGED <<own, BackupAddr0, RxDescIdx, RxBuildDescIdx, RxBuildDescCnt, dma>>
      BY <2>1 DEF AllocateFails, Mark, LoopEnds
    <3> QED
      BY <1>1, <1>6, <3>1 DEF OrderInv, Empty
  <2>2. ~(Allocate(t) \/ Rebuild(t))
    BY <1>6 DEF Allocate, Rebuild, Empty
  <2> QED
    BY <2>1, <2>2 DEF Update
<1> QED
  BY <1>1, <1>4, <1>5, <1>6 DEF OrderInv

LEMMA NextKeepsOrder ==
  TypeOK /\ Control /\ BuffersOnce /\ OrderInv /\ [Next]_vars => OrderInv'
<1> SUFFICES ASSUME TypeOK, Control, BuffersOnce, OrderInv, [Next]_vars
             PROVE  OrderInv'
  OBVIOUS
<1> USE TasksType DEF Places, ring, bufs, hw, hist
<1> DEFINE Same ==
      UNCHANGED <<own, BackupAddr0, RxDescIdx, RxBuildDescIdx, RxBuildDescCnt, dma, skew>>
<1>1. ASSUME Same, gState' = gState, pc'["EthLink"] = pc["EthLink"]
      PROVE  OrderInv'
  <2>1. \A u \in 0 .. N : Filled(u) => Filled(u)'
    BY <1>1 DEF Filled, Built, Place
  <2> QED
    BY <1>1, <2>1 DEF OrderInv, Empty, Again, Built
<1>2. ASSUME NEW from, NEW to, Goes("EthIf", from, to)
      PROVE  pc'["EthLink"] = pc["EthLink"]
  BY <1>2 DEF Goes, TypeOK
<1>3. CASE Wake \/ InputRefused \/ ReadNull \/ ReadNothing
  <2>1. pc'["EthLink"] = pc["EthLink"]
    BY <1>2, <1>3 DEF Wake, InputRefused, ReadNull, ReadNothing
  <2>2. Same /\ gState' = gState
    BY <1>3 DEF Wake, InputRefused, ReadNull, ReadNothing
  <2> QED
    BY <1>1, <2>1, <2>2
<1>4. CASE Deliver \/ DeliverFails \/ DeliverNothing \/ TailWritten
  <2>1. pc'["EthLink"] = pc["EthLink"]
    BY <1>2, <1>4 DEF Deliver, DeliverFails, DeliverNothing, TailWritten
  <2>2. Same /\ gState' = gState
    BY <1>4 DEF Deliver, DeliverFails, DeliverNothing, TailWritten
  <2> QED
    BY <1>1, <2>1, <2>2
<1>5. CASE ReadFrame
  <2> SUFFICES ASSUME ~skew'
               PROVE  OrderInv'
    BY DEF OrderInv
  <2>1. ~skew /\ gState = "STARTED" /\ gState' = gState
    BY <1>5 DEF ReadFrame, MayRead
  <2>2. PICK u \in 0 .. N : Filled(u)
    BY <2>1 DEF OrderInv
  <2> QED
    BY <1>5, <2>1, <2>2, ReadFilled DEF OrderInv
<1>6. CASE DmaReceives
  <2> SUFFICES ASSUME ~skew'
               PROVE  OrderInv'
    BY DEF OrderInv
  <2>1. ~skew /\ gState = "STARTED" /\ gState' = gState
    BY <1>6 DEF DmaReceives
  <2>2. PICK u \in 0 .. N : Filled(u)
    BY <2>1 DEF OrderInv
  <2> QED
    BY <1>6, <2>1, <2>2, DmaFilled DEF OrderInv
<1>7. CASE Update("EthIf") \/ Update("EthLink")
  BY <1>7, UpdateOrders
<1>8. CASE HardFault_Handler \/ DmaSuspends \/ Interrupt \/ UNCHANGED vars
  <2>1. Same /\ gState' = gState /\ pc' = pc
    BY <1>8 DEF HardFault_Handler, DmaSuspends, Interrupt, vars
  <2> QED
    BY <1>1, <2>1
<1>9. CASE HAL_ETH_Stop_IT
  <2>1. Same /\ gState = "STARTED" /\ gState' = "READY"
    BY <1>9 DEF HAL_ETH_Stop_IT
  <2>2. \A u \in 0 .. N : Filled(u) => Filled(u)'
    BY <2>1 DEF Filled, Built, Place
  <2> QED
    BY <2>1, <2>2 DEF OrderInv
<1>10. ASSUME NEW f \in Freers, Freer(f)
       PROVE  OrderInv'
  <2> DEFINE Kept == Same /\ gState' = gState /\ pc'["EthLink"] = pc["EthLink"]
  <2>1. ASSUME NEW b \in Bufs, FreeBuffer(f, b)
        PROVE  Kept
    BY <2>1 DEF FreeBuffer, Goes, TypeOK
  <2>2. TestFlag(f) => Kept
    BY DEF TestFlag, Goes, TypeOK
  <2>3. ClearFlag(f) => Kept
    BY DEF ClearFlag, Goes, TypeOK
  <2>4. Signal(f) => Kept
    BY DEF Signal, Goes, TypeOK
  <2>5. Kept
    BY <1>10, <2>1, <2>2, <2>3, <2>4 DEF Freer
  <2> QED
    BY <1>1, <2>5
<1>11. CASE StartBegins
  BY <1>11, StartOrders
<1>12. CASE StartEnds
  <2> SUFFICES ASSUME ~skew'
               PROVE  \E u \in 0 .. N : Filled(u)' /\ gState' = "STARTED"
    BY DEF OrderInv
  <2>1. /\ pc["EthLink"] = "tail" /\ ~skew /\ gState' = "STARTED"
        /\ UNCHANGED <<own, BackupAddr0, RxDescIdx, RxBuildDescIdx, RxBuildDescCnt, dma>>
    BY <1>12, GoesType DEF StartEnds
  <2>2. gState = "BUSY"
    BY <2>1 DEF Control
  <2>3. CASE Again
    <3>1. RxBuildDescCnt = 0 /\ Built = N /\ RxDescIdx \in Desc
      BY <2>1, <2>3, BuiltType, SizeType DEF Again, Built
    <3>2. RxDescIdx = At(RxDescIdx, 0 % N)
      <4>1. Distance(RxDescIdx, RxDescIdx) = 0 /\ 0 \in 0 .. N /\ 0 < N
        BY <3>1, DistanceType, SizeType
      <4> QED
        BY <3>1, <4>1, PositionIs
    <3>3. \A i \in Desc : own[i] /\ BackupAddr0[i] # NoBuf /\ 0 <= Place(i) /\ Place(i) < Built
      BY <2>3, <3>1, FilledPlaces, SizeType DEF Again, BuffersOnce
    <3>4. Filled(0) /\ 0 \in 0 .. N
      BY <2>3, <3>1, <3>2, <3>3, SizeType DEF Filled, Again
    <3>5. Filled(0)'
      BY <2>1, <3>4 DEF Filled, Built, Place
    <3> QED
      BY <2>1, <3>4, <3>5
  <2>4. ASSUME NEW u \in 0 .. N, Filled(u)
        PROVE  Filled(u)'
    BY <2>1, <2>4 DEF Filled, Built, Place
  <2> QED
    BY <2>1, <2>2, <2>3, <2>4 DEF OrderInv
<1> QED
  BY <1>3, <1>4, <1>5, <1>6, <1>7, <1>8, <1>9, <1>10, <1>11, <1>12 DEF Next, EthIf, Starting

LEMMA OrderHolds == Spec => [](TypeOK /\ Control /\ BuffersOnce /\ OrderInv)
<1>1. Init => OrderInv
  BY DEF Init, OrderInv, Empty
<1> QED
  BY <1>1, NextKeepsOrder, TypeCorrect, BuffersAreOnce, PTL DEF Spec

\* Frames are read in the order they came, but for a start that is on record.
THEOREM ReadInOrder == Spec => []InOrder
<1>1. TypeOK /\ Control /\ BuffersOnce /\ OrderInv => InOrder
  <2> SUFFICES ASSUME TypeOK, OrderInv, ~skew, gState = "STARTED"
               PROVE  InOrder
    BY DEF InOrder
  <2>1. PICK u \in 0 .. N : Filled(u)
    BY DEF OrderInv
  <2>2. /\ RxDescIdx \in Desc /\ RxBuildDescIdx \in Desc /\ Built \in 0 .. N
        /\ RxBuildDescCnt \in 0 .. N /\ u \in 0 .. Built /\ Built = N - RxBuildDescCnt
    BY <2>1, BuiltType DEF TypeOK, Filled, Built
  <2>3. At(RxBuildDescIdx, RxBuildDescCnt % N) = RxDescIdx
    <3>1. CASE Built = N
      <4>1. RxBuildDescCnt = 0 /\ RxBuildDescIdx = RxDescIdx
        BY <2>1, <2>2, <3>1, PositionType, SizeType DEF Filled
      <4>2. Distance(RxDescIdx, RxBuildDescIdx) = 0 /\ 0 \in 0 .. N /\ 0 < N
        BY <2>2, <4>1, DistanceType, SizeType
      <4> QED
        BY <2>2, <4>1, <4>2, PositionIs
    <3>2. CASE Built # N
      <4>1. Distance(RxBuildDescIdx, RxDescIdx) = Built
        BY <2>1, <2>2, <3>2, PositionType, SizeType DEF Filled
      <4>2. IF Built = 0 THEN RxBuildDescIdx = RxDescIdx
            ELSE Distance(RxDescIdx, RxBuildDescIdx) = N - Built
        BY <2>2, <4>1, SizeType DEF Distance, Desc
      <4>3. /\ RxBuildDescCnt < N => Distance(RxDescIdx, RxBuildDescIdx) = RxBuildDescCnt
            /\ RxBuildDescCnt = N => RxDescIdx = RxBuildDescIdx
        BY <2>2, <3>2, <4>2, SizeType
      <4> QED
        BY <2>2, <4>3, PositionIs
    <3> QED
      BY <3>1, <3>2
  <2>4. ASSUME NEW k \in 0 .. N - 1
        PROVE  LET i == At(RxDescIdx, k)
               IN  /\ i \in Unread <=> k < u
                   /\ own[i] <=> u <= k /\ k < N - RxBuildDescCnt
    <3> DEFINE i == At(RxDescIdx, k)
    <3>1. i \in Desc /\ Place(i) = k
      BY <2>2, AtType DEF Place
    <3>2. own[i] <=> u <= k /\ k < Built
      BY <2>1, <3>1 DEF Filled
    <3>3. BackupAddr0[i] # NoBuf <=> k < Built
      BY <2>1, <3>1 DEF Filled
    <3>4. i \in Unread <=> ~own[i] /\ BackupAddr0[i] # NoBuf
      BY <3>1 DEF Unread
    <3> HIDE DEF i
    <3>5. i \in Unread <=> k < u
      BY <2>2, <3>2, <3>3, <3>4
    <3> QED
      BY <2>2, <3>2, <3>5 DEF i
  <2>5. u \in 0 .. N - RxBuildDescCnt /\ dma = At(RxDescIdx, u % N)
    BY <2>1, <2>2 DEF Filled
  <2> QED
    BY <2>3, <2>4, <2>5 DEF InOrder
<1> QED
  BY <1>1, OrderHolds, PTL

\* No descriptor is read twice, but for a start that is on record.
THEOREM NoHardFault == Spec => []NoFault
<1>1. Init => NoFault
  BY TasksType DEF Init, NoFault
<1>2. TypeOK /\ Control /\ BuffersOnce /\ OrderInv /\ NoFault /\ [Next]_vars => NoFault'
  <2> SUFFICES ASSUME TypeOK, Control, BuffersOnce, OrderInv, NoFault, [Next]_vars
               PROVE  NoFault'
    OBVIOUS
  <2> USE TasksType DEF Places, ring, bufs, hw, hist
  <2>1. ASSUME skew => skew', pc'["EthIf"] = "fault" => pc["EthIf"] = "fault"
        PROVE  NoFault'
    BY <2>1 DEF NoFault
  <2>2. CASE Wake \/ InputRefused \/ ReadNothing
    BY <2>1, <2>2, GoesType DEF Wake, InputRefused, ReadNothing
  <2>3. CASE ReadFrame \/ Deliver \/ DeliverFails \/ DeliverNothing \/ TailWritten
    BY <2>1, <2>3, GoesType DEF ReadFrame, Deliver, DeliverFails, DeliverNothing, TailWritten
  <2>4. CASE ReadNull
    <3>1. gState = "STARTED" /\ ~own[RxDescIdx] /\ RxBuildDescCnt < N
          /\ BackupAddr0[RxDescIdx] = NoBuf /\ skew' = skew /\ RxDescIdx \in Desc
      BY <2>4 DEF ReadNull, MayRead, FrameReady, TypeOK
    <3>2. ~ \E u \in 0 .. N : Filled(u)
      <4> SUFFICES ASSUME NEW u \in 0 .. N, Filled(u)
                   PROVE  FALSE
        OBVIOUS
      <4>1. 0 < Built
        BY <3>1, SizeType DEF Built, TypeOK
      <4> QED
        BY <3>1, <4>1, FilledPlaces DEF Filled
    <3>3. skew
      BY <3>1, <3>2 DEF OrderInv
    <3> QED
      BY <3>1, <3>3 DEF NoFault
  <2>5. ASSUME NEW t \in {"EthIf", "EthLink"}, Update(t)
        PROVE  NoFault'
    <3>1. skew' = skew
      BY <2>5 DEF Update, Rebuild, Allocate, AllocateFails, Mark, LoopEnds
    <3>2. pc'["EthIf"] = "fault" => pc["EthIf"] = "fault"
      BY <2>5, GoesType DEF Update, Rebuild, Allocate, AllocateFails, Mark, LoopEnds
    <3> QED
      BY <2>1, <3>1, <3>2
  <2>6. CASE HardFault_Handler \/ DmaReceives \/ DmaSuspends \/ Interrupt \/ HAL_ETH_Stop_IT
    BY <2>1, <2>6 DEF HardFault_Handler, DmaReceives, DmaSuspends, Interrupt, HAL_ETH_Stop_IT,
       vars
  <2>7. ASSUME NEW f \in Freers, Freer(f)
        PROVE  NoFault'
    <3> DEFINE Kept == skew' = skew /\ pc'["EthIf"] = pc["EthIf"]
    <3>1. ASSUME NEW b \in Bufs, FreeBuffer(f, b)
          PROVE  Kept
      BY <3>1 DEF FreeBuffer, Goes, TypeOK
    <3>2. TestFlag(f) => Kept
      BY DEF TestFlag, Goes, TypeOK
    <3>3. ClearFlag(f) => Kept
      BY DEF ClearFlag, Goes, TypeOK
    <3>4. Signal(f) => Kept
      BY DEF Signal, Goes, TypeOK
    <3>5. Kept
      BY <2>7, <3>1, <3>2, <3>3, <3>4 DEF Freer
    <3> QED
      BY <2>1, <3>5
  <2>8. CASE StartBegins \/ StartEnds
    BY <2>1, <2>8, GoesType DEF StartBegins, StartEnds
  <2>9. CASE UNCHANGED vars
    BY <2>1, <2>9 DEF vars
  <2> QED
    BY <2>2, <2>3, <2>4, <2>5, <2>6, <2>7, <2>8, <2>9 DEF Next, EthIf, Starting
<1> QED
  BY <1>1, <1>2, OrderHolds, PTL DEF Spec

-----------------------------------------------------------------------------

\* Something is on its way that makes EthIf read again: an interrupt, the
\* semaphore's token, or the flag of the exhausted pool, which is cleared only
\* with a signal.
Alert ==
  \/ irq \/ RxPktSemaphore \/ RxAllocStatus = "ERROR"
  \/ \E f \in Freers : pc[f] = "release"

\* There is something for EthIf to do: a frame to read, or a ring without a
\* descriptor for the DMA.
Due == gState = "STARTED" /\ ~skew /\ (Unread # {} \/ Starved)

\* What is due is never left to chance: EthIf is at it, or will be woken, even if
\* the flag was set too late (RxPktSemaphore, RxAllocStatus, pbuf_free_custom).
Attended ==
  \/ Alert
  \/ pc["EthIf"] \in {"input", "loop", "failed", "tail"}
  \/ pc["EthIf"] = "deliver" /\ got # NoBuf
NoLostWakeup == Due => Attended

\* At each place of the pass: having read nothing, EthIf has seen every frame.
AttendInv ==
  Due => \/ Alert
         \/ pc["EthIf"] \in {"input", "failed"}
         \/ got # NoBuf
         \/ pc["EthIf"] = "loop" /\ Unread = {}

\* The first start finds every buffer in the pool, so it cannot fail at the first
\* descriptor.
Bare == \A i \in Desc : BackupAddr0[i] = NoBuf
FirstInv ==
  ~skew /\ Bare /\ (gState = "BUSY" \/ (gState = "READY" /\ RxBuildDescCnt = 0)) =>
    held = {} /\ got = NoBuf /\ pc["EthLink"] \notin {"failed", "tail"}

\* The DMA owns the descriptor to be read next: there is nothing to do.
LEMMA NothingDue ==
  ASSUME TypeOK, NEW u \in 0 .. N, Filled(u), own[RxDescIdx] \/ (Unread = {} /\ 0 < Built)
  PROVE  Unread = {} /\ ~Starved
<1>1. RxDescIdx \in Desc /\ Place(RxDescIdx) = 0
      /\ \A i \in Desc : Place(i) \in 0 .. N - 1
  BY FilledPlaces, BuiltType
<1>2. own[RxDescIdx]
  BY <1>1 DEF Filled, Unread
<1>3. u = 0
  BY <1>1, <1>2 DEF Filled
<1>4. \A i \in Desc : own[i] <=> BackupAddr0[i] # NoBuf
  BY <1>1, <1>3 DEF Filled
<1> QED
  BY <1>1, <1>2, <1>4 DEF Unread, Starved

\* No descriptor has been built: none holds a frame.
LEMMA NothingBuilt ==
  ASSUME TypeOK, NEW u \in 0 .. N, Filled(u), Built = 0
  PROVE  Unread = {}
BY FilledPlaces DEF Filled, Unread

LEMMA BareIsUnbuilt ==
  ASSUME TypeOK, Bare, RxBuildDescCnt = 0 \/ Again
  PROVE  ~(BuffersOnce /\ Again) /\ \A u \in 0 .. N : ~Filled(u) \/ RxBuildDescCnt # 0
<1>1. RxDescIdx \in Desc /\ Place(RxDescIdx) = 0 /\ (RxBuildDescCnt = 0 => 0 < Built)
  BY FilledPlaces, BuiltType, SizeType DEF Built
<1> QED
  BY <1>1 DEF Bare, Again, Filled, BuffersOnce

LEMMA BufsNotEmpty == Bufs # {}
<1>1. Cardinality({}) = 0
  BY FS_EmptySet
<1> QED
  BY <1>1, SizeType, RxAssumption

\* What one pass of either caller of ETH_UpdateDescriptor does to a bare ring.
LEMMA UpdateFirst ==
  ASSUME TypeOK, Control, BuffersOnce, OrderInv, FirstInv,
         NEW t \in {"EthIf", "EthLink"}, Update(t)
  PROVE  FirstInv'
<1> USE TasksType DEF Places, ring, bufs, hw, hist
<1> SUFFICES ASSUME ~skew', Bare', (gState' = "BUSY" \/ (gState' = "READY" /\ RxBuildDescCnt' = 0))
             PROVE  held' = {} /\ got' = NoBuf /\ pc'["EthLink"] \notin {"failed", "tail"}
  BY DEF FirstInv
<1>1. RxBuildDescIdx \in Desc /\ gState' = gState /\ skew' = skew /\ held' = held /\ got' = got
  BY DEF TypeOK, Update, Rebuild, Allocate, AllocateFails, Mark, LoopEnds
<1>2. CASE Rebuild(t)
  BY <1>1, <1>2 DEF Rebuild, Bare
<1>3. CASE Allocate(t)
  <2>1. BackupAddr0'[RxBuildDescIdx] # NoBuf
    BY <1>1, <1>3, RxAssumption DEF Allocate, TypeOK
  <2> QED
    BY <1>1, <2>1 DEF Bare
<1>4. CASE AllocateFails(t) \/ Mark(t) \/ LoopEnds(t)
  <2>1. BackupAddr0' = BackupAddr0 /\ RxBuildDescCnt' = RxBuildDescCnt
    BY <1>4 DEF AllocateFails, Mark, LoopEnds
  <2>2. /\ Bare /\ held = {} /\ got = NoBuf
        /\ pc["EthLink"] \notin {"failed", "tail"}
    BY <1>1, <2>1 DEF FirstInv, Bare
  <2>3. CASE t = "EthIf"
    <3>1. pc'["EthLink"] = pc["EthLink"]
      BY <1>4, <2>3, GoesType DEF AllocateFails, Mark, LoopEnds
    <3> QED
      BY <1>1, <2>2, <3>1
  <2>4. CASE t = "EthLink"
    <3>1. pc["EthLink"] = "loop" /\ gState = "BUSY"
      BY <1>4, <2>2, <2>4, GoesType DEF AllocateFails, Mark, LoopEnds, Control
    <3>2. ~Mark(t)
      BY <2>2, <2>4, GoesType DEF Mark
    <3>3. ~LoopEnds(t)
      BY <1>1, <2>2, <3>1, BareIsUnbuilt DEF LoopEnds, OrderInv
    <3>4. ~AllocateFails(t)
      <4>1. InRing = {}
        BY <2>2 DEF Bare, InRing
      <4>2. pool # {}
        BY <2>2, <4>1, BufsNotEmpty DEF BuffersOnce
      <4> QED
        BY <4>2 DEF AllocateFails
    <3> QED
      BY <1>4, <3>2, <3>3, <3>4
  <2> QED
    BY <2>3, <2>4
<1> QED
  BY <1>2, <1>3, <1>4 DEF Update

LEMMA NextKeepsFirst ==
  TypeOK /\ Control /\ BuffersOnce /\ OrderInv /\ FirstInv /\ [Next]_vars => FirstInv'
<1> SUFFICES ASSUME TypeOK, Control, BuffersOnce, OrderInv, FirstInv, [Next]_vars
             PROVE  FirstInv'
  OBVIOUS
<1> USE TasksType DEF Places, ring, bufs, hw, hist
<1> DEFINE Same == UNCHANGED <<BackupAddr0, RxBuildDescCnt, gState, skew>>
<1>1. ASSUME Same, UNCHANGED <<held, got>>, pc'["EthLink"] = pc["EthLink"]
      PROVE  FirstInv'
  BY <1>1 DEF FirstInv, Bare
<1>2. ASSUME gState' = "STARTED"
      PROVE  FirstInv'
  BY <1>2 DEF FirstInv
<1>3. CASE Wake \/ InputRefused \/ ReadNull \/ ReadNothing \/ DeliverNothing \/ TailWritten
  <2>1. Same /\ UNCHANGED <<held, got>>
    BY <1>3 DEF Wake, InputRefused, ReadNull, ReadNothing, DeliverNothing, TailWritten
  <2>2. pc'["EthLink"] = pc["EthLink"]
    BY <1>3 DEF Wake, InputRefused, ReadNull, ReadNothing, DeliverNothing, TailWritten, Goes,
       TypeOK
  <2> QED
    BY <1>1, <2>1, <2>2
<1>4. CASE ReadFrame \/ DmaReceives \/ DmaSuspends \/ StartEnds
  BY <1>2, <1>4 DEF ReadFrame, MayRead, DmaReceives, DmaSuspends, StartEnds
<1>5. CASE Deliver \/ DeliverFails
  <2>1. Same /\ got # NoBuf
    BY <1>5 DEF Deliver, DeliverFails
  <2> QED
    BY <2>1 DEF FirstInv, Bare
<1>6. CASE Update("EthIf") \/ Update("EthLink")
  BY <1>6, UpdateFirst
<1>7. CASE HardFault_Handler \/ Interrupt \/ UNCHANGED vars
  BY <1>1, <1>7 DEF HardFault_Handler, Interrupt, vars
<1>8. ASSUME NEW f \in Freers, Freer(f)
      PROVE  FirstInv'
  <2>1. ASSUME NEW b \in Bufs, FreeBuffer(f, b)
        PROVE  FirstInv'
    <3>1. Same /\ held # {}
      BY <2>1 DEF FreeBuffer
    <3> QED
      BY <3>1 DEF FirstInv, Bare
  <2>2. CASE TestFlag(f) \/ ClearFlag(f) \/ Signal(f)
    <3>1. Same /\ UNCHANGED <<held, got>>
      BY <2>2 DEF TestFlag, ClearFlag, Signal
    <3>2. pc'["EthLink"] = pc["EthLink"]
      BY <2>2 DEF TestFlag, ClearFlag, Signal, Goes, TypeOK
    <3> QED
      BY <1>1, <3>1, <3>2
  <2> QED
    BY <1>8, <2>1, <2>2 DEF Freer
<1>9. CASE HAL_ETH_Stop_IT
  <2>1. UNCHANGED <<BackupAddr0, RxBuildDescCnt, skew>> /\ gState = "STARTED" /\ gState' = "READY"
    BY <1>9 DEF HAL_ETH_Stop_IT
  <2>2. ~(~skew /\ Bare /\ RxBuildDescCnt = 0)
    BY <2>1, BareIsUnbuilt DEF OrderInv
  <2> QED
    BY <2>1, <2>2 DEF FirstInv, Bare
<1>10. CASE StartBegins
  <2>1. /\ UNCHANGED <<BackupAddr0, held, got>> /\ gState = "READY"
        /\ ~skew' => ~skew /\ RxBuildDescCnt = 0
        /\ pc'["EthLink"] = "loop"
    BY <1>10, GoesType DEF StartBegins
  <2> QED
    BY <2>1 DEF FirstInv, Bare
<1> QED
  BY <1>3, <1>4, <1>5, <1>6, <1>7, <1>8, <1>9, <1>10 DEF Next, EthIf, Starting

\* A pass of ETH_UpdateDescriptor in EthIf leaves what is due in its hands.
LEMMA UpdateAttends ==
  ASSUME TypeOK, Control, OrderInv, AttendInv, Update("EthIf")
  PROVE  AttendInv'
<1> USE TasksType DEF Places, ring, bufs, hw, hist
<1> SUFFICES ASSUME Due'
             PROVE  AttendInv'
  BY DEF AttendInv
<1>1. /\ UNCHANGED <<gState, skew, got, irq, RxPktSemaphore>>
      /\ gState = "STARTED" /\ ~skew
  BY DEF Due, Update, Rebuild, Allocate, AllocateFails, Mark, LoopEnds
<1>2. PICK u \in 0 .. N : Filled(u)
  BY <1>1 DEF OrderInv
<1>3. \A f \in Freers : pc'[f] = pc[f]
  BY GoesType DEF Update, Rebuild, Allocate, AllocateFails, Mark, LoopEnds, Goes, TypeOK
<1>4. CASE Rebuild("EthIf") \/ Allocate("EthIf")
  <2>1. /\ pc["EthIf"] = "loop" /\ pc'["EthIf"] = "loop"
        /\ RxAllocStatus' = RxAllocStatus
        /\ RxBuildDescIdx \in Desc
        /\ own' = [own EXCEPT ![RxBuildDescIdx] = TRUE]
    BY <1>4, GoesType DEF Rebuild, Allocate, HandOver, TypeOK
  <2>2. \A i \in Desc : i # RxBuildDescIdx => BackupAddr0'[i] = BackupAddr0[i]
    BY <1>4 DEF Rebuild, Allocate, TypeOK
  <2>3. ~Starved' /\ Unread' \subseteq Unread
    BY <2>1, <2>2 DEF Starved, Unread, TypeOK
  <2>4. Unread # {}
    BY <2>3 DEF Due
  <2>5. Alert \/ got # NoBuf
    BY <1>1, <2>1, <2>4 DEF AttendInv, Due
  <2> QED
    BY <1>1, <1>3, <2>1, <2>5 DEF AttendInv, Alert
<1>5. CASE AllocateFails("EthIf")
  BY <1>5, GoesType DEF AllocateFails, AttendInv
<1>6. CASE Mark("EthIf")
  BY <1>6 DEF Mark, AttendInv, Alert
<1>7. CASE LoopEnds("EthIf")
  <2>1. /\ pc["EthIf"] = "loop" /\ RxBuildDescCnt = 0
        /\ UNCHANGED <<own, BackupAddr0, RxAllocStatus>>
    BY <1>7, GoesType DEF LoopEnds
  <2>2. 0 < Built
    BY <2>1, SizeType DEF Built
  <2>3. Unread # {}
    BY <1>1, <1>2, <2>1, <2>2, NothingDue DEF Due, Unread, Starved
  <2>4. Alert \/ got # NoBuf
    BY <1>1, <2>1, <2>3 DEF AttendInv, Due
  <2> QED
    BY <1>1, <1>3, <2>1, <2>4 DEF AttendInv, Alert
<1> QED
  BY <1>4, <1>5, <1>6, <1>7 DEF Update

LEMMA NextAttends ==
  /\ TypeOK /\ Control /\ BuffersOnce /\ OrderInv /\ FirstInv /\ AttendInv
  /\ [Next]_vars /\ NoFault'
  => AttendInv'
<1> SUFFICES ASSUME TypeOK, Control, BuffersOnce, OrderInv, FirstInv, AttendInv,
                    [Next]_vars, NoFault', Due'
             PROVE  AttendInv'
  BY DEF AttendInv
<1> USE TasksType DEF Places, ring, bufs, hw, hist
<1> DEFINE Same == UNCHANGED <<own, BackupAddr0, gState, skew>>
           Kept == /\ UNCHANGED <<irq, RxPktSemaphore, RxAllocStatus>>
                   /\ \A f \in Freers : pc'[f] = pc[f]
<1>1. Same => Due
  BY DEF Due, Unread, Starved
<1>2. Kept => (Alert => Alert')
  BY DEF Alert
<1>3. gState' = "STARTED" /\ ~skew'
  BY DEF Due
<1>4. CASE Wake
  BY <1>4, GoesType DEF Wake, AttendInv
<1>5. CASE InputRefused
  BY <1>3, <1>5 DEF InputRefused, MayRead, TypeOK, AttendInv, Alert
<1>6. CASE ReadFrame
  BY <1>6 DEF ReadFrame, AttendInv
<1>7. CASE ReadNull
  BY <1>3, <1>7, GoesType DEF ReadNull, NoFault
<1>8. CASE ReadNothing
  <2>1. Same /\ Due /\ RxBuildDescCnt \in 0 .. N /\ ~FrameReady
    BY <1>1, <1>8 DEF ReadNothing, TypeOK
  <2>2. PICK u \in 0 .. N : Filled(u)
    BY <2>1 DEF Due, OrderInv
  <2>3. ~own[RxDescIdx]
    BY <2>1, <2>2, NothingDue DEF Due
  <2>4. RxBuildDescCnt = N /\ RxBuildDescCnt # 0
    BY <2>1, <2>3, SizeType DEF FrameReady
  <2>5. Unread = {}
    BY <2>2, <2>4, NothingBuilt, SizeType DEF Built
  <2>6. pc'["EthIf"] = "loop"
    BY <1>8, <2>4, GoesType DEF ReadNothing
  <2>7. Unread' = {}
    BY <2>1, <2>5 DEF Unread
  <2> QED
    BY <2>6, <2>7 DEF AttendInv
<1>9. CASE Update("EthIf")
  BY <1>9, UpdateAttends
<1>10. CASE Update("EthLink")
  <2>1. gState' = gState
    BY <1>10 DEF Update, Rebuild, Allocate, AllocateFails, Mark, LoopEnds
  <2>2. pc["EthLink"] \in {"loop", "failed"}
    BY <1>10, GoesType DEF Update, Rebuild, Allocate, AllocateFails, Mark, LoopEnds
  <2> QED
    BY <1>3, <2>1, <2>2 DEF Control
<1>11. CASE TailWritten \/ DeliverNothing
  <2>1. Same /\ Kept /\ got' = got
    BY <1>11 DEF TailWritten, DeliverNothing, Goes, TypeOK
  <2>2. pc["EthIf"] \in {"tail", "deliver"}
    BY <1>11, GoesType DEF TailWritten, DeliverNothing
  <2>3. Alert \/ got # NoBuf
    BY <1>1, <2>1, <2>2 DEF AttendInv
  <2> QED
    BY <1>2, <2>1, <2>3 DEF AttendInv
<1>12. CASE Deliver \/ DeliverFails
  BY <1>12, GoesType DEF Deliver, DeliverFails, AttendInv
<1>13. CASE DmaReceives \/ DmaSuspends \/ Interrupt
  BY <1>13 DEF DmaReceives, DmaSuspends, Interrupt, AttendInv, Alert
<1>14. CASE HardFault_Handler \/ UNCHANGED vars
  <2>1. UNCHANGED vars
    BY <1>14 DEF HardFault_Handler
  <2> QED
    BY <2>1 DEF vars, AttendInv, Alert, Due, Unread, Starved
<1>15. ASSUME NEW f \in Freers, Freer(f)
       PROVE  AttendInv'
  <2>1. Same /\ got' = got /\ pc'["EthIf"] = pc["EthIf"]
    <3> DEFINE Stays == Same /\ got' = got /\ pc'["EthIf"] = pc["EthIf"]
    <3>1. \A b \in Bufs : FreeBuffer(f, b) => Stays
      BY DEF FreeBuffer, Goes, TypeOK
    <3>2. TestFlag(f) \/ ClearFlag(f) \/ Signal(f) => Stays
      BY DEF TestFlag, ClearFlag, Signal, Goes, TypeOK
    <3> QED
      BY <1>15, <3>1, <3>2 DEF Freer
  <2>2. Alert => Alert'
    <3>1. ASSUME NEW b \in Bufs, FreeBuffer(f, b)
          PROVE  Alert => Alert'
      <4>1. pc[f] = "idle" /\ \A x \in Tasks : x # f => pc'[x] = pc[x]
        BY <3>1, GoesType DEF FreeBuffer
      <4> QED
        BY <3>1, <4>1 DEF FreeBuffer, Alert
    <3>2. CASE TestFlag(f)
      <4>1. pc[f] = "test" /\ \A x \in Tasks : x # f => pc'[x] = pc[x]
        BY <3>2 DEF TestFlag, Goes, TypeOK
      <4> QED
        BY <3>2, <4>1 DEF TestFlag, Alert
    <3>3. CASE ClearFlag(f)
      BY <3>3, GoesType DEF ClearFlag, Alert
    <3>4. CASE Signal(f)
      BY <3>4 DEF Signal, Alert
    <3> QED
      BY <1>15, <3>1, <3>2, <3>3, <3>4 DEF Freer
  <2>3. Unread' = Unread
    BY <2>1 DEF Unread
  <2> QED
    BY <1>1, <2>1, <2>2, <2>3 DEF AttendInv
<1>16. CASE HAL_ETH_Stop_IT \/ StartBegins
  BY <1>3, <1>16 DEF HAL_ETH_Stop_IT, StartBegins
<1>17. CASE StartEnds
  <2>1. /\ pc["EthLink"] = "tail" /\ ~skew /\ gState = "BUSY"
        /\ UNCHANGED <<own, BackupAddr0>>
    BY <1>3, <1>17, GoesType DEF StartEnds, Control
  <2>2. \E i \in Desc : BackupAddr0[i] # NoBuf
    BY <2>1 DEF FirstInv, Bare
  <2>3. \A i \in Desc : own[i] <=> BackupAddr0[i] # NoBuf
    <3>1. CASE Again
      BY <3>1 DEF Again, BuffersOnce
    <3>2. CASE Filled(0)
      BY <3>2, FilledPlaces DEF Filled
    <3> QED
      BY <2>1, <3>1, <3>2 DEF OrderInv
  <2>4. Unread' = {} /\ ~Starved'
    BY <2>1, <2>2, <2>3 DEF Unread, Starved
  <2> QED
    BY <2>4 DEF Due
<1> QED
  BY <1>4, <1>5, <1>6, <1>7, <1>8, <1>9, <1>10, <1>11, <1>12, <1>13, <1>14, <1>15, <1>16, <1>17
  DEF Next, EthIf, Starting

\* While the MAC runs, and it was never started over frames not read, a frame in
\* the ring or a ring without descriptors always has EthIf at work on it, or an
\* interrupt, a token or the flag that will bring EthIf back: no order of
\* interrupts, passes of the loop and tasks that free buffers loses the wakeup.
THEOREM WakeupsAreKept == Spec => []NoLostWakeup
<1>1. Init => FirstInv /\ AttendInv
  BY TasksType DEF Init, FirstInv, AttendInv, Due
<1>2. Control /\ AttendInv => NoLostWakeup
  BY DEF Control, AttendInv, NoLostWakeup, Attended
<1> QED
  BY <1>1, <1>2, NextKeepsFirst, NextAttends, OrderHolds, NoHardFault, PTL DEF Spec

-----------------------------------------------------------------------------

\* The flag stands, no buffer is out, and no task that has freed one has still to
\* look at it: nothing is left that clears the flag.
Dead ==
  /\ RxAllocStatus = "ERROR" /\ held = {} /\ got = NoBuf
  /\ \A f \in Freers : pc[f] \notin {"test", "clear"}
  /\ pc["EthIf"] \in {"wait", "input"}

\* What lostWake records is for good: pbuf_free_custom alone clears the flag, and
\* with the flag up low_level_input reads no frame that could be freed.  No
\* interrupt and no restart of the MAC brings reception back.
THEOREM ReceptionEnds == Spec => [](Dead => lostWake /\ [](Dead /\ ~MayRead))
<1>1. TypeOK /\ Control /\ Dead /\ [Next]_vars => Dead'
  <2> SUFFICES ASSUME TypeOK, Control, Dead, [Next]_vars
               PROVE  Dead'
    OBVIOUS
  <2> USE TasksType DEF Places, ring, bufs, hw, hist
  <2>1. ASSUME NEW t \in {"EthIf", "EthLink"}, NEW from, NEW to, Goes(t, from, to)
        PROVE  \A x \in Tasks : x # t => pc'[x] = pc[x]
    BY <2>1 DEF Goes, TypeOK
  <2>2. CASE Wake \/ InputRefused
    BY <2>2, GoesType DEF Wake, InputRefused, Dead
  <2>3. ~(ReadFrame \/ ReadNull \/ ReadNothing)
    BY DEF ReadFrame, ReadNull, ReadNothing, MayRead, Dead
  <2>4. ~(TailWritten \/ Deliver \/ DeliverFails \/ DeliverNothing \/ Update("EthIf"))
    BY GoesType DEF TailWritten, Deliver, DeliverFails, DeliverNothing, Update, Rebuild,
       Allocate, AllocateFails, Mark, LoopEnds, Goes, Dead
  <2>5. CASE Update("EthLink")
    <3>1. \A x \in Tasks : x # "EthLink" => pc'[x] = pc[x]
      BY <2>1, <2>5 DEF Update, Rebuild, Allocate, AllocateFails, Mark, LoopEnds
    <3>2. UNCHANGED <<held, got>> /\ RxAllocStatus' \in {RxAllocStatus, "ERROR"}
      BY <2>5 DEF Update, Rebuild, Allocate, AllocateFails, Mark, LoopEnds
    <3> QED
      BY <3>1, <3>2 DEF Dead
  <2>6. CASE DmaReceives \/ DmaSuspends \/ Interrupt \/ HAL_ETH_Stop_IT
    BY <2>6 DEF DmaReceives, DmaSuspends, Interrupt, HAL_ETH_Stop_IT, Dead
  <2>7. CASE HardFault_Handler \/ UNCHANGED vars
    BY <2>7 DEF HardFault_Handler, vars, Dead
  <2>8. ASSUME NEW f \in Freers, Freer(f)
        PROVE  Dead'
    <3>1. Signal(f)
      BY <2>8 DEF Freer, FreeBuffer, TestFlag, ClearFlag, Goes, Dead
    <3>2. pc'[f] = "idle" /\ \A x \in Tasks : x # f => pc'[x] = pc[x]
      BY <3>1, GoesType DEF Signal
    <3> QED
      BY <3>1, <3>2 DEF Signal, Dead
  <2>9. CASE StartBegins \/ StartEnds
    <3>1. \A x \in Tasks : x # "EthLink" => pc'[x] = pc[x]
      BY <2>1, <2>9 DEF StartBegins, StartEnds
    <3> QED
      BY <2>9, <3>1 DEF StartBegins, StartEnds, Dead
  <2> QED
    BY <2>2, <2>3, <2>4, <2>5, <2>6, <2>7, <2>8, <2>9 DEF Next, EthIf, Starting
<1>2. Dead => ~MayRead
  BY DEF Dead, MayRead
<1>3. ExhaustionSignalled /\ Dead => lostWake
  BY DEF ExhaustionSignalled, Dead
<1> QED
  BY <1>1, <1>2, <1>3, ExhaustionIsSignalled, TypeCorrect, PTL DEF Spec
=============================================================================
