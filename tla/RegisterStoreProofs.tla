------------------------ MODULE RegisterStoreProofs ------------------------
(***************************************************************************)
(* What the register database promises for every number of workers,        *)
(* registers, requests and restarts.                                       *)
(***************************************************************************)
EXTENDS RegisterStore, TLAPS

\* The setter loop of a request that has an address left: it stores it, or
\* goes on, and stays inside the request.
LEMMA NextAddress ==
  ASSUME NEW t \in Tasks, TypeOK, pc[t] = "set"
  PROVE  req[t][ndone[t] + 1] \in Addr
<1>1. ndone[t] \in Nat /\ ndone[t] < Len(req[t]) /\ req[t] \in Seq(Addr)
  BY DEF TypeOK
<1>2. ndone[t] + 1 \in 1 .. Len(req[t])
  BY <1>1
<1> QED
  BY <1>1, <1>2

\* A request has at least one address.
LEMMA RequestShape ==
  ASSUME NEW addrs \in Requests \cup {<<TickReg>>}
  PROVE  addrs \in Seq(Addr) /\ Len(addrs) > 0
<1>1. CASE addrs = <<TickReg>>
  <2>1. TickReg \in Addr
    BY StoreAssumption DEF Addr
  <2> QED
    BY <1>1, <2>1
<1>2. CASE addrs \in Requests
  BY <1>2, StoreAssumption
<1> QED
  BY <1>1, <1>2

LEMMA ZeroType == Zero \in Image
BY DEF Zero, Image

LEMMA TypeInit == Init => TypeOK
<1> SUFFICES ASSUME Init PROVE TypeOK
  OBVIOUS
<1>1. <<>> \in Seq(Addr) /\ Zero \in Image /\ DefaultTask \in Tasks
  BY DEF Zero, Image, Tasks
<1>2. pc \in [Tasks -> Pc] /\ \A t \in Tasks : pc[t] \notin {"lock", "set"}
  BY DEF Init, PcAtReset, Pc, Booting, Serving, Saving
<1> QED
  BY <1>1, <1>2 DEF Init, TypeOK

\* SetterDone keeps the types of what it changes.
LEMMA SetterDoneType ==
  ASSUME TypeOK, NEW t \in Tasks, SetterDone(t)
  PROVE  /\ pc' \in [Tasks -> Pc]
         /\ ndone' \in [Tasks -> Nat]
         /\ reply' \in [Tasks -> {"none", "ok", "device_failure"}]
         /\ \A u \in Tasks : pc'[u] \in {"lock", "set"} => ndone'[u] < Len(req[u])
<1>1. pc' \in [Tasks -> Pc]
  BY DEF TypeOK, SetterDone, Pc, Serving
<1>2. ndone' \in [Tasks -> Nat]
  BY DEF TypeOK, SetterDone
<1>3. reply' \in [Tasks -> {"none", "ok", "device_failure"}]
  BY DEF TypeOK, SetterDone
<1>4. ASSUME NEW u \in Tasks, pc'[u] \in {"lock", "set"}
      PROVE  ndone'[u] < Len(req[u])
  <2>1. CASE u = t
    BY <1>4, <2>1 DEF TypeOK, SetterDone
  <2>2. CASE u # t
    BY <1>4, <2>2 DEF TypeOK, SetterDone
  <2> QED
    BY <2>1, <2>2
<1> QED
  BY <1>1, <1>2, <1>3, <1>4

\* Putting tasks anywhere but in the setter keeps the part of TypeOK about pc.
LEMMA ServerStartsType ==
  ASSUME TypeOK, ServerStarts
  PROVE  /\ pc' \in [Tasks -> Pc]
         /\ \A u \in Tasks : pc'[u] \notin {"lock", "set"}
BY DEF ServerStarts, Pc, Serving

LEMMA TypeNext == TypeOK /\ [Next]_vars => TypeOK'
<1> SUFFICES ASSUME TypeOK, [Next]_vars PROVE TypeOK'
  OBVIOUS
<1> USE DEF taskVars, saveVars, diskVars, bootVars, bounds
<1>1. CASE MountSucceeds
  BY <1>1 DEF MountSucceeds, TypeOK, Pc, Booting
<1>2. CASE MountFormats
  BY <1>2 DEF MountFormats, TypeOK, Pc, Booting, Zero, Image
<1>3. CASE MountFails
  <2>1. img' \in Image /\ durable' \in Image
    BY <1>3, ZeroType DEF MountFails, TypeOK
  <2>2. file' \in {"absent", "empty", "image", "garbled"}
    BY <1>3 DEF MountFails, TypeOK
  <2> QED
    BY <1>3, <2>1, <2>2, ServerStartsType DEF MountFails, TypeOK
<1>4. CASE LoadSucceeds
  <2>1. pc' \in [Tasks -> Pc] /\ \A u \in Tasks : pc'[u] \in {"lock", "set"} => pc[u] = pc'[u]
    BY <1>4 DEF LoadSucceeds, LoadThen, TypeOK, Pc
  <2>2. ram' \in Image
    <3>1. CASE file = "image"
      BY <1>4, <3>1 DEF LoadSucceeds, LoadThen, TypeOK
    <3>2. CASE file = "empty"
      BY <1>4, <3>2 DEF LoadSucceeds, LoadThen, TypeOK
    <3>3. CASE file = "garbled"
      <4>1. ram' \in [Addr -> 0 .. MaxRequests]
        BY <1>4, <3>3 DEF LoadSucceeds, LoadThen
      <4>2. 0 .. MaxRequests \subseteq Nat
        OBVIOUS
      <4> QED
        BY <4>1, <4>2 DEF Image
    <3> QED
      BY <1>4, <3>1, <3>2, <3>3 DEF LoadSucceeds, LoadThen, TypeOK
  <2> QED
    BY <1>4, <2>1, <2>2 DEF LoadSucceeds, LoadThen, TypeOK
<1>5. CASE LoadFails
  BY <1>5 DEF LoadFails, TypeOK, Pc, Zero, Image
<1>6. CASE EnableSaving
  BY <1>6, ServerStartsType DEF EnableSaving, TypeOK
<1>7. ASSUME NEW t \in Tasks, NEW addrs \in Requests \cup {<<TickReg>>}, StartRequest(t, addrs)
      PROVE  TypeOK'
  BY <1>7, RequestShape DEF StartRequest, TypeOK, Pc, Serving
<1>8. ASSUME NEW t \in Tasks, Setter(t) PROVE TypeOK'
  <2>1. CASE Acquire(t)
    BY <2>1 DEF Acquire, TypeOK, Pc, Serving
  <2>2. CASE AcquireTimeout(t)
    BY <2>2 DEF AcquireTimeout, TypeOK, Pc, Serving
  <2>3. CASE Set(t)
    <3>1. AfterSet(t) => /\ pc' \in [Tasks -> Pc]
                         /\ ndone' \in [Tasks -> Nat]
                         /\ reply' \in [Tasks -> {"none", "ok", "device_failure"}]
                         /\ \A u \in Tasks :
                              pc'[u] \in {"lock", "set"} => ndone'[u] < Len(req[u])
      BY SetterDoneType DEF AfterSet, TypeOK, Pc
    <3>2. ram' \in Image /\ wrote' \in [Tasks -> SUBSET Addr]
      <4> DEFINE a == req[t][ndone[t] + 1]
      <4>1. a \in Addr
        BY <2>3, NextAddress DEF Set
      <4>2. /\ ram' = [ram EXCEPT ![a] = @ + 1]
            /\ wrote' = [wrote EXCEPT ![t] = @ \cup {a}]
        BY <2>3 DEF Set, StoreValue
      <4>3. ram \in [Addr -> Nat] /\ wrote \in [Tasks -> SUBSET Addr]
        BY DEF TypeOK, Image
      <4> HIDE DEF a
      <4> QED
        BY <4>1, <4>2, <4>3 DEF Image
    <3>3. /\ AfterSet(t) /\ mutex' = NoTask
          /\ UNCHANGED <<req, saveVars, diskVars, bootVars, bounds>>
      BY <2>3 DEF Set
    <3>4. /\ pc' \in [Tasks -> Pc] /\ ndone' \in [Tasks -> Nat]
          /\ reply' \in [Tasks -> {"none", "ok", "device_failure"}]
          /\ \A u \in Tasks : pc'[u] \in {"lock", "set"} => ndone'[u] < Len(req'[u])
      BY <3>1, <3>3
    <3>5. /\ req' \in [Tasks -> Seq(Addr)] /\ mutex' \in Tasks \cup {NoTask}
          /\ mounted' \in BOOLEAN /\ load_err' \in BOOLEAN /\ enable_flash_save_cb' \in BOOLEAN
          /\ cache' \in [Tasks -> Image] /\ todo' \in [Tasks -> SUBSET Addr]
      BY <3>3 DEF TypeOK
    <3>6. /\ file' \in {"absent", "empty", "image", "garbled"}
          /\ img' \in Image /\ fsRace' \in BOOLEAN
          /\ requests' \in Nat /\ boots' \in Nat
          /\ overlapped' \subseteq Tasks /\ io_err' \in BOOLEAN /\ durable' \in Image
      BY <3>3 DEF TypeOK
    <3> QED
      BY <3>2, <3>4, <3>5, <3>6 DEF TypeOK
  <2> QED
    BY <1>8, <2>1, <2>2, <2>3 DEF Setter
<1>9. ASSUME NEW t \in Tasks, Save(t) PROVE TypeOK'
  <2>1. SaveReturns(t) => /\ pc' \in [Tasks -> Pc]
                          /\ ndone' \in [Tasks -> Nat]
                          /\ reply' \in [Tasks -> {"none", "ok", "device_failure"}]
                          /\ \A u \in Tasks :
                               pc'[u] \in {"lock", "set"} => ndone'[u] < Len(req[u])
    BY SetterDoneType DEF SaveReturns, TypeOK, Pc
  <2>2. LfsCall(t) => /\ fsRace' \in BOOLEAN
                      /\ file' \in {"absent", "empty", "image", "garbled"}
                      /\ img' \in Image
    BY ZeroType DEF LfsCall, TypeOK
  <2>3. CASE OpenCall(t)
    BY <2>2, <2>3 DEF OpenCall, TypeOK, Pc, Saving
  <2>4. CASE OpenReturns(t)
    BY <2>4 DEF OpenReturns, TypeOK, Pc, Saving, Zero, Image
  <2>5. CASE OpenFails(t)
    BY <2>1, <2>5 DEF OpenFails, TypeOK
  <2>6. CASE CopyReg(t)
    BY <2>6 DEF CopyReg, TypeOK, Image
  <2>7. CASE CloseCall(t)
    BY <2>2, <2>7 DEF CloseCall, TypeOK, Pc, Saving
  <2>8. CASE CloseCommits(t)
    BY <2>1, <2>8 DEF CloseCommits, TypeOK
  <2>9. CASE CloseFails(t)
    BY <2>1, <2>9 DEF CloseFails, TypeOK
  <2> QED
    BY <1>9, <2>3, <2>4, <2>5, <2>6, <2>7, <2>8, <2>9 DEF Save
<1>10. CASE Restart
  <2>1. pc' \in [Tasks -> Pc] /\ \A t \in Tasks : pc'[t] \notin {"lock", "set"}
    BY <1>10 DEF Restart, PcAtReset, Pc, Booting
  <2>2. req' \in [Tasks -> Seq(Addr)]
    BY <1>10 DEF Restart
  <2>3. /\ ndone' \in [Tasks -> Nat]
        /\ reply' \in [Tasks -> {"none", "ok", "device_failure"}]
        /\ wrote' \in [Tasks -> SUBSET Addr]
        /\ cache' \in [Tasks -> Image]
        /\ todo' \in [Tasks -> SUBSET Addr]
    BY <1>10, ZeroType DEF Restart
  <2>4. mutex' \in Tasks \cup {NoTask} /\ ram' \in Image /\ boots' \in Nat
    BY <1>10, ZeroType DEF Restart, TypeOK
  <2>5. UNCHANGED <<file, img, fsRace, durable, requests>>
    BY <1>10 DEF Restart
  <2>6. /\ mounted' \in BOOLEAN /\ load_err' \in BOOLEAN
        /\ enable_flash_save_cb' \in BOOLEAN /\ io_err' \in BOOLEAN
        /\ overlapped' \subseteq Tasks
    BY <1>10 DEF Restart
  <2> QED
    BY <2>1, <2>2, <2>3, <2>4, <2>5, <2>6 DEF TypeOK
<1>11. CASE UNCHANGED vars
  BY <1>11 DEF vars, TypeOK
<1> QED
  BY <1>1, <1>2, <1>3, <1>4, <1>5, <1>6, <1>7, <1>8, <1>9, <1>10, <1>11
  DEF Next, Boot, Tick, ClientWrite, Quiet, Tasks

\* Type correctness: in particular a task inside its setter loop always has an
\* address of its request left to store.
THEOREM TypeCorrect == Spec => []TypeOK
BY TypeInit, TypeNext, PTL DEF Spec

-----------------------------------------------------------------------------
(***************************************************************************)
(* The mutex and the boot sequence.                                        *)
(***************************************************************************)

\* Where the boot sequence stands.  Until saving is enabled either the default
\* task alone runs, in mb_init_reg, or mounting has failed and every task serves
\* without ever saving; once it is enabled no task is in the boot sequence.
BootPhase ==
  /\ \A w \in Workers : pc[w] \notin {"fs_mount_medium", "fs_load_modbus_reg", "enable"}
  /\ enable_flash_save_cb =>
       \A t \in Tasks : pc[t] \notin Booting \cup {"enable"}
  /\ ~enable_flash_save_cb =>
       \/ \A t \in Tasks : pc[t] \in Serving
       \/ /\ pc[DefaultTask] \notin Serving
          /\ \A w \in Workers : pc[w] = "off"

LockInv == BootPhase /\ LockFreeDuringSave

LEMMA LockInit == Init => LockInv
BY StoreAssumption DEF Init, LockInv, BootPhase, LockFreeDuringSave, PcAtReset, Serving, Tasks

\* While the default task is in the boot sequence nobody holds the mutex.
LEMMA BootHoldsNoLock ==
  ASSUME TypeOK, LockInv, pc[DefaultTask] \in Booting \cup {"enable"}
  PROVE  mutex = NoTask /\ ~enable_flash_save_cb
<1>1. DefaultTask \in Tasks
  BY DEF Tasks
<1>2. ~enable_flash_save_cb
  BY <1>1 DEF LockInv, BootPhase
<1>3. \A t \in Tasks : pc[t] # "set"
  BY <1>1, <1>2 DEF LockInv, BootPhase, Booting, Serving, Tasks
<1> QED
  BY <1>2, <1>3 DEF TypeOK, LockInv, LockFreeDuringSave

LEMMA LockNext == TypeOK /\ LockInv /\ [Next]_vars => LockInv'
<1> SUFFICES ASSUME TypeOK, LockInv, [Next]_vars PROVE LockInv'
  OBVIOUS
<1> USE DEF taskVars, saveVars, diskVars, bootVars, bounds
<1> DefaultTask \in Tasks /\ NoTask \notin Tasks
  BY StoreAssumption DEF Tasks
<1>1. ASSUME NEW from \in Booting, NEW to \in Booting \cup {"open", "enable"},
             pc[DefaultTask] = from, pc' = [pc EXCEPT ![DefaultTask] = to],
             UNCHANGED <<mutex, enable_flash_save_cb>>
      PROVE  LockInv'
  <2>1. mutex = NoTask /\ ~enable_flash_save_cb
    BY <1>1, BootHoldsNoLock
  <2>2. \A w \in Workers : pc'[w] = pc[w]
    BY <1>1, StoreAssumption DEF TypeOK, Tasks
  <2>3. pc'[DefaultTask] = to
    BY <1>1 DEF TypeOK
  <2>4. \A w \in Workers : pc[w] = "off"
    BY <1>1, <2>1 DEF LockInv, BootPhase, Booting, Serving
  <2>5. to \notin Serving
    BY DEF Booting, Serving
  <2> QED
    BY <1>1, <2>1, <2>2, <2>3, <2>4, <2>5
    DEF LockInv, BootPhase, LockFreeDuringSave, Tasks, Serving
<1>2. ASSUME pc[DefaultTask] \in Booting \cup {"enable"}, ServerStarts, UNCHANGED mutex
      PROVE  LockInv'
  BY <1>2, BootHoldsNoLock
  DEF ServerStarts, LockInv, BootPhase, LockFreeDuringSave, Serving, Booting, Tasks
<1>3. CASE MountSucceeds \/ MountFormats
  BY <1>1, <1>3 DEF MountSucceeds, MountFormats, Booting
<1>4. CASE MountFails
  BY <1>2, <1>4 DEF MountFails, Booting
<1>5. CASE LoadSucceeds \/ LoadFails
  BY <1>1, <1>5 DEF LoadSucceeds, LoadThen, LoadFails, Booting
<1>6. CASE EnableSaving
  BY <1>2, <1>6 DEF EnableSaving
<1>7. ASSUME NEW t \in Tasks, NEW addrs, StartRequest(t, addrs) PROVE LockInv'
  BY <1>7 DEF StartRequest, TypeOK, LockInv, BootPhase, LockFreeDuringSave, Serving, Booting, Tasks
<1>8. ASSUME NEW t \in Tasks, Setter(t) PROVE LockInv'
  <2>1. CASE Acquire(t)
    BY <1>8, <2>1 DEF Acquire, TypeOK, LockInv, BootPhase, LockFreeDuringSave, Serving, Booting, Tasks
  <2>2. CASE AcquireTimeout(t)
    BY <1>8, <2>2 DEF AcquireTimeout, TypeOK, LockInv, BootPhase, LockFreeDuringSave, Serving, Booting, Tasks
  <2>3. CASE Set(t)
    <3>1. mutex' = NoTask /\ pc[t] = "set" /\ UNCHANGED bootVars
      BY <2>3 DEF Set
    <3>2. pc'[t] \in {"open", "lock", "idle"} /\ \A u \in Tasks \ {t} : pc'[u] = pc[u]
      BY <2>3 DEF Set, AfterSet, SetterDone, TypeOK
    <3>3. \A u \in Tasks \ {t} : pc[u] # "set"
      BY <3>1 DEF LockInv, LockFreeDuringSave
    <3>4. LockFreeDuringSave'
      BY <3>1, <3>2, <3>3 DEF LockFreeDuringSave
    <3>5. CASE enable_flash_save_cb
      <4>1. \A u \in Tasks : pc'[u] \notin Booting \cup {"enable"}
        BY <3>2, <3>5 DEF LockInv, BootPhase, Booting
      <4>2. \A w \in Workers : pc'[w] \notin {"fs_mount_medium", "fs_load_modbus_reg", "enable"}
        BY <4>1 DEF Booting, Tasks
      <4> QED
        BY <3>1, <3>4, <3>5, <4>1, <4>2 DEF LockInv, BootPhase, bootVars
    <3>6. CASE ~enable_flash_save_cb
      <4>1. \A u \in Tasks : pc[u] \in Serving
        BY <3>1, <3>6 DEF LockInv, BootPhase, LockFreeDuringSave, Serving, Tasks
      <4>2. pc'[t] \in Serving
        BY <2>3, <3>6 DEF Set, AfterSet, SetterDone, TypeOK, Serving
      <4>3. \A u \in Tasks : pc'[u] \in Serving
        BY <3>2, <4>1, <4>2
      <4>4. \A w \in Workers : pc'[w] \notin {"fs_mount_medium", "fs_load_modbus_reg", "enable"}
        BY <4>3 DEF Serving, Tasks
      <4> QED
        BY <3>1, <3>4, <3>6, <4>3, <4>4 DEF LockInv, BootPhase, bootVars
    <3> QED
      BY <3>5, <3>6
  <2> QED
    BY <1>8, <2>1, <2>2, <2>3 DEF Setter
<1>9. ASSUME NEW t \in Tasks, Save(t) PROVE LockInv'
  <2>1. CASE OpenCall(t)
    BY <1>9, <2>1 DEF OpenCall, TypeOK, LockInv, BootPhase, LockFreeDuringSave, Serving, Booting, Tasks
  <2>2. CASE OpenReturns(t)
    BY <1>9, <2>2 DEF OpenReturns, TypeOK, LockInv, BootPhase, LockFreeDuringSave, Serving, Booting, Tasks
  <2>3. CASE CopyReg(t)
    BY <1>9, <2>3 DEF CopyReg, LockInv, BootPhase, LockFreeDuringSave
  <2>4. CASE CloseCall(t)
    BY <1>9, <2>4 DEF CloseCall, TypeOK, LockInv, BootPhase, LockFreeDuringSave, Serving, Booting, Tasks
  <2>5. CASE OpenFails(t) \/ CloseCommits(t) \/ CloseFails(t)
    <3>1. pc[t] \in InLfs /\ SaveReturns(t) /\ UNCHANGED <<mutex, enable_flash_save_cb>>
      BY <2>5 DEF OpenFails, CloseCommits, CloseFails, InLfs
    <3> QED
      BY <1>9, <3>1 DEF SaveReturns, SetterDone, InLfs, TypeOK, LockInv, BootPhase,
         LockFreeDuringSave, Serving, Booting, Tasks
  <2> QED
    BY <1>9, <2>1, <2>2, <2>3, <2>4, <2>5 DEF Save
<1>10. CASE Restart
  BY <1>10, StoreAssumption
  DEF Restart, PcAtReset, LockInv, BootPhase, LockFreeDuringSave, Serving, Booting, Tasks
<1>11. CASE UNCHANGED vars
  BY <1>11 DEF vars, LockInv, BootPhase, LockFreeDuringSave
<1> QED
  BY <1>3, <1>4, <1>5, <1>6, <1>7, <1>8, <1>9, <1>10, <1>11
  DEF Next, Boot, Tick, ClientWrite, Quiet, Tasks

\* The mutex is held by the task that is storing a value, and by no task that
\* erases or programs the flash.
THEOREM LockFree == Spec => []LockFreeDuringSave
<1>1. Init => TypeOK /\ LockInv
  BY TypeInit, LockInit
<1>2. TypeOK /\ LockInv /\ [Next]_vars => (TypeOK /\ LockInv)'
  BY TypeNext, LockNext
<1>3. LockInv => LockFreeDuringSave
  BY DEF LockInv
<1> QED
  BY <1>1, <1>2, <1>3, PTL DEF Spec

-----------------------------------------------------------------------------
(***************************************************************************)
(* The registers and the file.                                             *)
(***************************************************************************)

\* mb_init_reg has passed the load: the registers hold what the file held.
Loaded == enable_flash_save_cb \/ pc[DefaultTask] \in {"open", "enable"} \cup Saving

\* A save that is not marked as overlapped runs alone.
AloneInv ==
  \A t, u \in Tasks :
    t # u /\ pc[t] \in Saving /\ pc[u] \in Saving => t \in overlapped

\* A save has copied all the registers when it closes its file; until then each
\* copy is at least as new as the newest durable value, and no newer than RAM.
SaveInv ==
  \A t \in Tasks :
    /\ pc[t] = "closing" => todo[t] = {}
    /\ pc[t] \in {"copy", "closing"} =>
         \A a \in Addr \ todo[t] :
           durable[a] <= cache[t][a] /\ cache[t][a] <= ram[a]

DiskInv ==
  /\ \A a \in Addr : durable[a] <= img[a]
  /\ file # "image" => \A a \in Addr : durable[a] = 0
  /\ Loaded => \A a \in Addr : durable[a] <= ram[a]

\* The registers, the copies and the file, as long as littlefs calls have not
\* overlapped.
DataInv == ~fsRace => file # "garbled" /\ AloneInv /\ SaveInv /\ DiskInv

\* A race of two littlefs calls is never taken back.
LEMMA RaceStays ==
  ASSUME TypeOK, [Next]_vars, ~fsRace'
  PROVE  ~fsRace
<1> USE DEF taskVars, saveVars, diskVars, bootVars, bounds
<1>1. ASSUME NEW t \in Tasks, Save(t) PROVE fsRace' = TRUE \/ fsRace' = fsRace
  BY <1>1 DEF Save, OpenCall, OpenReturns, OpenFails, CopyReg, CloseCall, CloseCommits,
              CloseFails, LfsCall
<1>2. ASSUME NEW t \in Tasks, Setter(t) PROVE fsRace' = fsRace
  BY <1>2 DEF Setter, Acquire, AcquireTimeout, Set
<1>3. Boot => fsRace' = fsRace
  BY DEF Boot, MountSucceeds, MountFormats, MountFails, LoadSucceeds, LoadThen, LoadFails,
         EnableSaving
<1>4. Tick \/ ClientWrite => fsRace' = fsRace
  BY DEF Tick, ClientWrite, StartRequest
<1>5. Restart => fsRace' = fsRace
  BY DEF Restart
<1>6. UNCHANGED vars => fsRace' = fsRace
  BY DEF vars
<1> QED
  BY <1>1, <1>2, <1>3, <1>4, <1>5, <1>6 DEF Next, Quiet

\* In the boot sequence before the first save no task is saving.
LEMMA BootSavesNothing ==
  ASSUME LockInv, pc[DefaultTask] \in Booting \cup {"enable"}
  PROVE  /\ ~enable_flash_save_cb
         /\ \A w \in Workers : pc[w] = "off"
BY DEF LockInv, BootPhase, Booting, Serving, Tasks

\* A task saves only when the registers have been loaded.
LEMMA SavingIsLoaded ==
  ASSUME LockInv, NEW t \in Tasks, pc[t] \in Saving
  PROVE  Loaded
BY DEF LockInv, BootPhase, Loaded, Saving, Serving, Tasks

\* Without a save under way nothing is asked of the copies.
LEMMA NoSave ==
  ASSUME \A t \in Tasks : pc[t] \notin Saving
  PROVE  AloneInv /\ SaveInv
BY DEF AloneInv, SaveInv, Saving

\* A step of a task that is not saving after it, and makes no register older,
\* leaves the saves of the other tasks as they are.
LEMMA OtherSaves ==
  ASSUME TypeOK, TypeOK', AloneInv, SaveInv, NEW t \in Tasks,
         \A u \in Tasks \ {t} : pc'[u] = pc[u],
         pc'[t] \notin Saving,
         UNCHANGED <<cache, todo, overlapped, durable>>,
         \A a \in Addr : ram[a] <= ram'[a]
  PROVE  AloneInv' /\ SaveInv'
<1>1. AloneInv'
  BY DEF AloneInv
<1>2. ASSUME NEW u \in Tasks, pc'[u] \in {"copy", "closing"}
      PROVE  /\ pc'[u] = "closing" => todo'[u] = {}
             /\ \A a \in Addr \ todo'[u] :
                  durable'[a] <= cache'[u][a] /\ cache'[u][a] <= ram'[a]
  <2>1. u # t /\ pc[u] = pc'[u]
    BY <1>2 DEF Saving
  <2>2. \A a \in Addr : ram[a] \in Nat /\ ram'[a] \in Nat /\ cache[u][a] \in Nat
    BY DEF TypeOK, Image
  <2> QED
    BY <1>2, <2>1, <2>2 DEF SaveInv
<1> QED
  BY <1>1, <1>2 DEF SaveInv

\* What a task does outside the save and the boot sequence.
LEMMA ServingKeepsData ==
  ASSUME TypeOK, TypeOK', LockInv, DataInv, ~fsRace, NEW t \in Tasks,
         \A u \in Tasks \ {t} : pc'[u] = pc[u],
         pc[t] \in Serving \cup {"opening", "closing"},
         pc'[t] \in Serving \/ (pc'[t] = "open" /\ enable_flash_save_cb)
           \/ (pc'[t] = "enable" /\ pc[t] \in InLfs),
         UNCHANGED <<cache, todo, overlapped, file, img, durable, enable_flash_save_cb>>,
         \A a \in Addr : ram[a] <= ram'[a]
  PROVE  file' # "garbled" /\ AloneInv' /\ SaveInv' /\ DiskInv'
<1>1. AloneInv' /\ SaveInv'
  <2>1. pc'[t] \notin Saving
    BY DEF Serving, Saving
  <2> QED
    BY <2>1, OtherSaves DEF DataInv
<1>2. Loaded' => Loaded
  <2>1. pc[t] \in InLfs => Loaded
    BY SavingIsLoaded DEF InLfs, Saving
  <2>2. CASE t = DefaultTask
    BY <2>1, <2>2 DEF Loaded, Serving, Saving
  <2>3. CASE t # DefaultTask
    BY <2>3 DEF Loaded, Tasks
  <2> QED
    BY <2>2, <2>3
<1>3. \A a \in Addr : durable[a] \in Nat /\ ram[a] \in Nat /\ ram'[a] \in Nat
  BY DEF TypeOK, Image
<1>4. DiskInv'
  BY <1>2, <1>3 DEF DataInv, DiskInv
<1> QED
  BY <1>1, <1>4 DEF DataInv

LEMMA DataInit == Init => DataInv
<1> SUFFICES ASSUME Init PROVE DataInv
  OBVIOUS
<1>1. \A t \in Tasks : pc[t] \notin Saving
  BY DEF Init, PcAtReset, Saving
<1>2. AloneInv /\ SaveInv
  BY <1>1, NoSave
<1>3. DiskInv
  BY DEF Init, DiskInv, Zero
<1> QED
  BY <1>2, <1>3 DEF DataInv, Init

\* The boot sequence.
LEMMA BootKeepsData ==
  ASSUME TypeOK, TypeOK', LockInv, LockInv', DataInv, ~fsRace, ~fsRace', Boot
  PROVE  file' # "garbled" /\ AloneInv' /\ SaveInv' /\ DiskInv'
<1> USE DEF taskVars, saveVars, diskVars, bootVars, bounds
<1> DefaultTask \in Tasks
  BY DEF Tasks
<1>1. pc[DefaultTask] \in Booting \cup {"enable"}
  BY DEF Boot, MountSucceeds, MountFormats, MountFails, LoadSucceeds, LoadThen, LoadFails,
         EnableSaving, Booting
<1>2. ~enable_flash_save_cb /\ \A w \in Workers : pc[w] = "off"
  BY <1>1, BootSavesNothing
<1>3. \A t \in Tasks : pc'[t] \notin Saving
  <2>1. ServerStarts => \A t \in Tasks : pc'[t] \notin Saving
    BY DEF ServerStarts, Saving
  <2>2. ASSUME NEW to \in {"fs_load_modbus_reg", "open", "enable"},
               pc' = [pc EXCEPT ![DefaultTask] = to]
        PROVE  \A t \in Tasks : pc'[t] \notin Saving
    BY <1>2, <2>2 DEF TypeOK, Tasks, Saving
  <2> QED
    BY <2>1, <2>2
    DEF Boot, MountSucceeds, MountFormats, MountFails, LoadSucceeds, LoadThen, LoadFails,
        EnableSaving
<1>4. AloneInv' /\ SaveInv'
  BY <1>3 DEF AloneInv, SaveInv, Saving
<1>5. DiskInv /\ file # "garbled"
  BY DEF DataInv
<1>6. \A a \in Addr : /\ durable[a] \in Nat /\ img[a] \in Nat /\ ram[a] \in Nat
                      /\ ram'[a] \in Nat /\ img'[a] \in Nat
  BY DEF TypeOK, Image
<1>7. CASE MountSucceeds
  <2>1. pc'[DefaultTask] = "fs_load_modbus_reg" /\ ~enable_flash_save_cb'
    BY <1>2, <1>7 DEF MountSucceeds, TypeOK
  <2>2. ~Loaded'
    BY <2>1 DEF Loaded, Saving
  <2> QED
    BY <1>4, <1>5, <1>7, <2>2 DEF MountSucceeds, DiskInv
<1>8. CASE MountFormats
  <2>1. pc'[DefaultTask] = "fs_load_modbus_reg" /\ ~enable_flash_save_cb'
    BY <1>2, <1>8 DEF MountFormats, TypeOK
  <2>2. ~Loaded'
    BY <2>1 DEF Loaded, Saving
  <2>3. \A a \in Addr : durable'[a] = 0 /\ img'[a] = 0
    BY <1>8 DEF MountFormats, Zero
  <2> QED
    BY <1>4, <1>8, <2>2, <2>3 DEF MountFormats, DiskInv
<1>9. CASE MountFails
  <2>1. pc'[DefaultTask] = "idle" /\ ~enable_flash_save_cb'
    BY <1>2, <1>9 DEF MountFails, ServerStarts
  <2>2. ~Loaded'
    BY <2>1 DEF Loaded, Saving
  <2>3. \/ file' = "absent" /\ \A a \in Addr : durable'[a] = 0 /\ img'[a] = 0
        \/ UNCHANGED <<file, img, durable>>
    BY <1>9 DEF MountFails, Zero
  <2> QED
    BY <1>4, <1>5, <2>2, <2>3 DEF DiskInv
<1>10. CASE LoadSucceeds
  <2>1. \A a \in Addr : durable[a] <= ram'[a]
    <3>1. CASE file = "image"
      BY <1>5, <1>10, <3>1 DEF LoadSucceeds, LoadThen, DiskInv
    <3>2. CASE file = "empty"
      BY <1>5, <1>6, <1>10, <3>2 DEF LoadSucceeds, LoadThen, DiskInv
    <3> QED
      BY <1>5, <1>10, <3>1, <3>2 DEF LoadSucceeds, LoadThen, TypeOK
  <2>2. UNCHANGED <<file, img, durable>>
    BY <1>10 DEF LoadSucceeds, LoadThen
  <2> QED
    BY <1>4, <1>5, <2>1, <2>2 DEF DiskInv
<1>11. CASE LoadFails
  <2>1. \A a \in Addr : durable'[a] = 0
    BY <1>11 DEF LoadFails, Zero
  <2>2. UNCHANGED file
    BY <1>11 DEF LoadFails
  <2> QED
    BY <1>4, <1>5, <1>6, <2>1, <2>2 DEF DiskInv
<1>12. CASE EnableSaving
  <2>1. Loaded /\ UNCHANGED <<file, img, durable, ram>>
    BY <1>12 DEF EnableSaving, Loaded
  <2> QED
    BY <1>4, <1>5, <2>1 DEF DiskInv
<1> QED
  BY <1>7, <1>8, <1>9, <1>10, <1>11, <1>12 DEF Boot

\* A littlefs call that overlaps no other leaves the file alone.
LEMMA CallAlone ==
  ASSUME NEW t \in Tasks, LfsCall(t), ~fsRace'
  PROVE  UNCHANGED <<file, img>>
BY DEF LfsCall

\* The steps of fs_save_modbus_reg, the commit last.
LEMMA SaveKeepsData ==
  ASSUME TypeOK, TypeOK', LockInv, DataInv, ~fsRace, ~fsRace', NEW t \in Tasks, Save(t)
  PROVE  file' # "garbled" /\ AloneInv' /\ SaveInv' /\ DiskInv'
<1> USE DEF taskVars, saveVars, diskVars, bootVars, bounds
<1> DefaultTask \in Tasks
  BY DEF Tasks
<1>0. file # "garbled" /\ AloneInv /\ SaveInv /\ DiskInv
  BY DEF DataInv
<1>1. \A a \in Addr : /\ durable[a] \in Nat /\ img[a] \in Nat /\ ram[a] \in Nat
                      /\ \A u \in Tasks : cache[u][a] \in Nat
  BY DEF TypeOK, Image
<1>2. Save(t) => /\ \A u \in Tasks \ {t} : pc'[u] = pc[u]
                 /\ UNCHANGED <<ram, enable_flash_save_cb>>
  <2> DEFINE OnlyMoves(u) == /\ \A v \in Tasks \ {u} : pc'[v] = pc[v]
                             /\ UNCHANGED <<ram, enable_flash_save_cb>>
  <2>1. OpenCall(t) \/ CopyReg(t) => OnlyMoves(t)
    BY DEF OpenCall, CopyReg, TypeOK
  <2>2. OpenReturns(t) => OnlyMoves(t)
    BY DEF OpenReturns, SaveReturns, SetterDone, TypeOK
  <2>3. OpenFails(t) => OnlyMoves(t)
    BY DEF OpenFails, SaveReturns, SetterDone, TypeOK
  <2>4. CloseCall(t) => OnlyMoves(t)
    BY DEF CloseCall, TypeOK
  <2>5. CloseCommits(t) => OnlyMoves(t)
    BY DEF CloseCommits, SaveReturns, SetterDone, TypeOK
  <2>6. CloseFails(t) => OnlyMoves(t)
    BY DEF CloseFails, SaveReturns, SetterDone, TypeOK
  <2> QED
    BY <2>1, <2>2, <2>3, <2>4, <2>5, <2>6 DEF Save
<1>3. CASE OpenCall(t)
  <2>1. pc[t] = "open" /\ pc'[t] = "opening" /\ UNCHANGED <<file, img, cache, todo, durable>>
    BY <1>3, CallAlone DEF OpenCall, TypeOK
  <2>2. AloneInv'
    <3> SUFFICES ASSUME NEW u \in Tasks, NEW v \in Tasks, u # v,
                        pc'[u] \in Saving, pc'[v] \in Saving
                 PROVE  u \in overlapped'
      BY DEF AloneInv
    <3>1. CASE u = t
      BY <1>2, <1>3, <3>1 DEF OpenCall
    <3>2. CASE v = t
      BY <1>2, <1>3, <3>2 DEF OpenCall
    <3>3. CASE u # t /\ v # t
      BY <1>0, <1>2, <1>3, <3>3 DEF OpenCall, AloneInv
    <3> QED
      BY <3>1, <3>2, <3>3
  <2>3. SaveInv'
    BY <1>0, <1>2, <2>1 DEF SaveInv
  <2>4. Loaded' => Loaded
    <3>1. CASE t = DefaultTask
      BY <2>1, <3>1 DEF Loaded
    <3>2. CASE t # DefaultTask
      BY <1>2, <3>2 DEF Loaded
    <3> QED
      BY <3>1, <3>2
  <2> QED
    BY <1>0, <1>2, <2>1, <2>2, <2>3, <2>4 DEF DiskInv
<1>4. CASE OpenReturns(t)
  <2>1. /\ pc[t] = "opening" /\ pc'[t] = "copy" /\ todo'[t] = Addr
        /\ file' # "garbled"
        /\ file' # "image" => file # "image"
        /\ UNCHANGED <<img, durable, overlapped>>
    BY <1>0, <1>4 DEF OpenReturns, TypeOK
  <2>2. \A u \in Tasks \ {t} : cache'[u] = cache[u] /\ todo'[u] = todo[u]
    BY <1>4 DEF OpenReturns, TypeOK
  <2>3. AloneInv'
    BY <1>0, <1>2, <2>1 DEF AloneInv, Saving
  <2>4. SaveInv'
    BY <1>0, <1>2, <2>1, <2>2 DEF SaveInv
  <2>5. Loaded
    BY <2>1, SavingIsLoaded DEF Saving
  <2> QED
    BY <1>0, <1>2, <2>1, <2>3, <2>4, <2>5 DEF DiskInv
<1>5. CASE CopyReg(t)
  <2>1. PICK a \in todo[t] : /\ cache' = [cache EXCEPT ![t][a] = ram[a]]
                             /\ todo'  = [todo EXCEPT ![t] = @ \ {a}]
    BY <1>5 DEF CopyReg
  <2>2. pc[t] = "copy" /\ UNCHANGED <<pc, file, img, durable, overlapped>>
    BY <1>5 DEF CopyReg
  <2>3. a \in Addr /\ durable[a] <= ram[a]
    BY <1>0, <2>2, SavingIsLoaded DEF DiskInv, Saving, TypeOK
  <2>4. SaveInv'
    <3>1. \A u \in Tasks \ {t} : cache'[u] = cache[u] /\ todo'[u] = todo[u]
      BY <2>1 DEF TypeOK
    <3>2. /\ todo'[t] = todo[t] \ {a}
          /\ cache'[t][a] = ram[a]
          /\ \A b \in Addr \ {a} : cache'[t][b] = cache[t][b]
      BY <2>1, <2>3 DEF TypeOK, Image
    <3>3. \A b \in Addr \ todo'[t] : durable[b] <= cache'[t][b] /\ cache'[t][b] <= ram[b]
      BY <1>0, <1>1, <2>2, <2>3, <3>2 DEF SaveInv
    <3> QED
      BY <1>0, <1>2, <2>2, <3>1, <3>3 DEF SaveInv
  <2> QED
    BY <1>0, <1>2, <2>2, <2>4 DEF DiskInv, AloneInv, Loaded
<1>6. CASE CloseCall(t)
  <2>1. /\ pc[t] = "copy" /\ todo[t] = {} /\ pc'[t] = "closing"
        /\ UNCHANGED <<file, img, durable, cache, todo, overlapped>>
    BY <1>6, CallAlone DEF CloseCall, TypeOK
  <2>2. AloneInv' /\ SaveInv'
    BY <1>0, <1>2, <2>1 DEF AloneInv, SaveInv, Saving
  <2>3. Loaded
    BY <2>1, SavingIsLoaded DEF Saving
  <2> QED
    BY <1>0, <1>2, <2>1, <2>2, <2>3 DEF DiskInv
<1>7. CASE OpenFails(t) \/ CloseFails(t)
  <2>1. /\ pc[t] \in {"opening", "closing"}
        /\ SaveReturns(t)
        /\ UNCHANGED <<cache, todo, overlapped, file, img, durable>>
    BY <1>7 DEF OpenFails, CloseFails
  <2>2. pc'[t] \in Serving \/ pc'[t] = "enable"
    BY <2>1 DEF SaveReturns, SetterDone, TypeOK, Serving
  <2>3. \A a \in Addr : ram[a] <= ram'[a]
    BY <1>1, <1>2
  <2> QED
    BY <1>2, <2>1, <2>2, <2>3, ServingKeepsData DEF InLfs
<1>8. CASE CloseCommits(t)
  <2>1. /\ pc[t] = "closing" /\ SaveReturns(t)
        /\ file' = "image" /\ img' = cache[t]
        /\ durable' = IF t \in overlapped THEN durable ELSE cache[t]
        /\ UNCHANGED <<cache, todo, overlapped>>
    BY <1>8 DEF CloseCommits
  <2>2. pc'[t] \in Serving \cup {"enable"}
    BY <2>1 DEF SaveReturns, SetterDone, TypeOK, Serving
  <2>3. \A a \in Addr : durable[a] <= cache[t][a] /\ cache[t][a] <= ram[a]
    BY <1>0, <2>1 DEF SaveInv
  <2>4. Loaded
    BY <2>1, SavingIsLoaded DEF Saving
  <2>5. DiskInv'
    BY <1>0, <1>1, <1>2, <2>1, <2>3, <2>4 DEF DiskInv
  <2>6. AloneInv' /\ SaveInv'
    <3>1. CASE t \in overlapped
      <4>1. pc'[t] \notin Saving
        BY <2>2 DEF Serving, Saving
      <4>2. UNCHANGED durable /\ \A a \in Addr : ram[a] <= ram'[a]
        BY <1>1, <1>2, <2>1, <3>1
      <4> QED
        BY <1>0, <1>2, <2>1, <4>1, <4>2, OtherSaves
    <3>2. CASE t \notin overlapped
      <4>1. \A u \in Tasks : pc'[u] \notin Saving
        BY <1>0, <1>2, <2>1, <2>2, <3>2 DEF AloneInv, Saving, Serving
      <4> QED
        BY <4>1 DEF AloneInv, SaveInv, Saving
    <3> QED
      BY <3>1, <3>2
  <2> QED
    BY <2>1, <2>5, <2>6
<1> QED
  BY <1>3, <1>4, <1>5, <1>6, <1>7, <1>8 DEF Save

LEMMA DataNext ==
  ASSUME TypeOK, TypeOK', LockInv, LockInv', DataInv, [Next]_vars
  PROVE  DataInv'
<1> USE DEF taskVars, saveVars, diskVars, bootVars, bounds
<1> SUFFICES ASSUME ~fsRace' PROVE file' # "garbled" /\ AloneInv' /\ SaveInv' /\ DiskInv'
  BY DEF DataInv
<1>1. ~fsRace
  BY RaceStays
<1>2. \A a \in Addr : ram[a] \in Nat
  BY DEF TypeOK, Image
<1>3. CASE Boot
  BY <1>1, <1>3, BootKeepsData
<1>4. ASSUME NEW t \in Tasks, NEW addrs, StartRequest(t, addrs)
      PROVE  file' # "garbled" /\ AloneInv' /\ SaveInv' /\ DiskInv'
  <2>1. /\ \A u \in Tasks \ {t} : pc'[u] = pc[u]
        /\ pc[t] \in Serving /\ pc'[t] \in Serving
        /\ UNCHANGED <<cache, todo, overlapped, file, img, durable, enable_flash_save_cb, ram>>
    BY <1>4 DEF StartRequest, TypeOK, Serving
  <2> QED
    BY <1>1, <1>2, <2>1, ServingKeepsData
<1>5. ASSUME NEW t \in Tasks, Setter(t)
      PROVE  file' # "garbled" /\ AloneInv' /\ SaveInv' /\ DiskInv'
  <2>1. /\ \A u \in Tasks \ {t} : pc'[u] = pc[u]
        /\ pc[t] \in Serving
        /\ pc'[t] \in Serving \/ (pc'[t] = "open" /\ enable_flash_save_cb)
        /\ UNCHANGED <<cache, todo, overlapped, file, img, durable, enable_flash_save_cb>>
    BY <1>5 DEF Setter, Acquire, AcquireTimeout, Set, AfterSet, SetterDone, TypeOK, Serving
  <2>2. \A a \in Addr : ram[a] <= ram'[a]
    <3>1. CASE UNCHANGED ram
      BY <1>2, <3>1
    <3>2. CASE Set(t)
      <4>1. pc[t] = "set" /\ StoreValue(t)
        BY <3>2 DEF Set
      <4>2. req[t][ndone[t] + 1] \in Addr
        BY <4>1, NextAddress
      <4>3. ram' = [ram EXCEPT ![req[t][ndone[t] + 1]] = @ + 1]
        BY <4>1 DEF StoreValue
      <4>4. ram \in [Addr -> Nat]
        BY DEF TypeOK, Image
      <4>5. ASSUME NEW a \in Addr PROVE ram[a] <= ram'[a]
        BY <4>2, <4>3, <4>4
      <4> QED
        BY <4>5
    <3> QED
      BY <1>5, <3>1, <3>2 DEF Setter, Acquire, AcquireTimeout
  <2> QED
    BY <1>1, <2>1, <2>2, ServingKeepsData
<1>6. ASSUME NEW t \in Tasks, Save(t)
      PROVE  file' # "garbled" /\ AloneInv' /\ SaveInv' /\ DiskInv'
  BY <1>1, <1>6, SaveKeepsData
<1>7. CASE Restart
  <2>1. \A t \in Tasks : pc'[t] \notin Saving
    BY <1>7 DEF Restart, PcAtReset, Saving
  <2>2. AloneInv' /\ SaveInv'
    BY <2>1 DEF AloneInv, SaveInv, Saving
  <2>3. ~Loaded'
    BY <1>7 DEF Restart, PcAtReset, Loaded, Tasks, Saving
  <2> QED
    BY <1>1, <1>7, <2>2, <2>3 DEF Restart, DataInv, DiskInv
<1>8. CASE UNCHANGED vars
  BY <1>1, <1>8 DEF vars, DataInv, AloneInv, SaveInv, DiskInv, Loaded
<1> QED
  BY <1>3, <1>4, <1>5, <1>6, <1>7, <1>8
  DEF Next, Tick, ClientWrite, Quiet, Tasks

\* The inductive invariant.
StoreInv == TypeOK /\ LockInv /\ DataInv

\* StoreInv holds in every reachable state.
THEOREM StoreInvariant == Spec => []StoreInv
<1>1. Init => StoreInv
  BY TypeInit, LockInit, DataInit DEF StoreInv
<1>2. StoreInv /\ [Next]_vars => StoreInv'
  BY TypeNext, LockNext, DataNext DEF StoreInv
<1> QED
  BY <1>1, <1>2, PTL DEF Spec

\* What a save that ran alone has committed is not replaced by anything older,
\* whatever the number of later saves, commit failures and restarts.
THEOREM DurableIsKept == Spec => []DurableKept
<1>1. StoreInv => DurableKept
  BY DEF StoreInv, DataInv, DiskInv, DurableKept, TypeOK, Image
<1> QED
  BY <1>1, StoreInvariant, PTL

\* A client never reads a register older than what is durable.
THEOREM ServedIsNotOlder == Spec => []ServedNotOlderThanDurable
<1>1. StoreInv => ServedNotOlderThanDurable
  BY DEF StoreInv, DataInv, DiskInv, Loaded, ServedNotOlderThanDurable, TypeOK, Image
<1> QED
  BY <1>1, StoreInvariant, PTL

-----------------------------------------------------------------------------
(***************************************************************************)
(* The answers, and the file during boot.                                  *)
(***************************************************************************)

Stored(t, n) == {req[t][i] : i \in 1 .. n}

\* A task that is serving a request has stored the registers its loop has
\* passed, and the current one too once it is saving.
ReplyInv ==
  \A t \in Tasks :
    /\ reply[t] # "none" => pc[t] = "idle"
    /\ pc[t] \in {"lock", "set"} => wrote[t] = Stored(t, ndone[t])
    /\ enable_flash_save_cb /\ pc[t] \in {"open"} \cup Saving =>
         ndone[t] < Len(req[t]) /\ wrote[t] = Stored(t, ndone[t] + 1)

AnswerInv == ReplyInv /\ ReplyMatchesEffect

LEMMA AnswerInit == Init => AnswerInv
BY DEF Init, AnswerInv, ReplyInv, ReplyMatchesEffect, PcAtReset, Saving

\* A step of one task that leaves what the others have asked and been told.
LEMMA OtherAnswers ==
  ASSUME AnswerInv, NEW t \in Tasks, UNCHANGED enable_flash_save_cb,
         \A u \in Tasks \ {t} : UNCHANGED <<pc[u], req[u], ndone[u], reply[u], wrote[u]>>,
         reply'[t] # "none" => pc'[t] = "idle",
         pc'[t] \in {"lock", "set"} => wrote'[t] = Stored(t, ndone[t])',
         enable_flash_save_cb /\ pc'[t] \in {"open"} \cup Saving =>
           ndone'[t] < Len(req'[t]) /\ wrote'[t] = Stored(t, ndone[t] + 1)',
         reply'[t] = "ok" => wrote'[t] = Stored(t, Len(req[t]))',
         reply'[t] = "device_failure" =>
           ndone'[t] < Len(req'[t]) /\ wrote'[t] = Stored(t, ndone[t])'
  PROVE  AnswerInv'
<1>1. ReplyInv'
  <2> SUFFICES ASSUME NEW u \in Tasks
               PROVE  /\ reply'[u] # "none" => pc'[u] = "idle"
                      /\ pc'[u] \in {"lock", "set"} => wrote'[u] = Stored(u, ndone[u])'
                      /\ enable_flash_save_cb' /\ pc'[u] \in {"open"} \cup Saving =>
                           /\ ndone'[u] < Len(req'[u])
                           /\ wrote'[u] = Stored(u, ndone[u] + 1)'
    BY DEF ReplyInv
  <2>1. CASE u = t
    BY <2>1
  <2>2. CASE u # t
    BY <2>2 DEF AnswerInv, ReplyInv, Stored
  <2> QED
    BY <2>1, <2>2
<1>2. ReplyMatchesEffect'
  BY DEF AnswerInv, ReplyMatchesEffect, Stored
<1> QED
  BY <1>1, <1>2 DEF AnswerInv

\* The loop of the write handlers goes on or answers.
LEMMA SetterDoneAnswers ==
  ASSUME TypeOK, AnswerInv, NEW t \in Tasks, SetterDone(t), reply[t] = "none",
         ndone[t] < Len(req[t]),
         wrote'[t] = Stored(t, ndone[t] + 1),
         \A u \in Tasks \ {t} : wrote'[u] = wrote[u],
         UNCHANGED <<req, enable_flash_save_cb>>
  PROVE  AnswerInv'
<1>1. ndone[t] \in Nat /\ Len(req[t]) \in Nat /\ ndone'[t] = ndone[t] + 1
  BY DEF TypeOK, SetterDone
<1>2. \A u \in Tasks \ {t} : UNCHANGED <<pc[u], req[u], ndone[u], reply[u], wrote[u]>>
  BY DEF TypeOK, SetterDone
<1>3. CASE ndone[t] + 1 < Len(req[t])
  <2>1. pc'[t] = "lock" /\ reply'[t] = "none"
    BY <1>3 DEF SetterDone, TypeOK
  <2> QED
    BY <1>1, <1>2, <2>1, OtherAnswers DEF Stored, Saving
<1>4. CASE ~(ndone[t] + 1 < Len(req[t]))
  <2>1. pc'[t] = "idle" /\ reply'[t] = "ok" /\ Len(req[t]) = ndone[t] + 1
    BY <1>1, <1>4 DEF SetterDone, TypeOK
  <2> QED
    BY <1>1, <1>2, <2>1, OtherAnswers DEF Stored, Saving
<1> QED
  BY <1>3, <1>4

LEMMA AnswerNext ==
  ASSUME TypeOK, LockInv, AnswerInv, [Next]_vars
  PROVE  AnswerInv'
<1> USE DEF taskVars, saveVars, diskVars, bootVars, bounds
<1> DefaultTask \in Tasks
  BY DEF Tasks
<1>1. CASE Boot
  <2>1. UNCHANGED <<req, ndone, reply, wrote>>
    BY <1>1 DEF Boot, MountSucceeds, MountFormats, MountFails, LoadSucceeds, LoadThen,
                LoadFails, EnableSaving
  <2>2. CASE ServerStarts
    BY <2>1, <2>2 DEF ServerStarts, AnswerInv, ReplyInv, ReplyMatchesEffect, Stored, Saving
  <2>3. CASE ~ServerStarts
    <3>1. PICK to \in {"fs_load_modbus_reg", "enable", "open"} :
            /\ pc[DefaultTask] \in Booting
            /\ pc' = [pc EXCEPT ![DefaultTask] = to]
            /\ UNCHANGED enable_flash_save_cb
      BY <1>1, <2>3 DEF Boot, MountSucceeds, MountFormats, MountFails, LoadSucceeds, LoadThen,
                        LoadFails, EnableSaving, Booting
    <3>2. ~enable_flash_save_cb
      BY <3>1, BootSavesNothing
    <3>3. reply[DefaultTask] = "none"
      BY <3>1 DEF AnswerInv, ReplyInv, Booting
    <3>4. pc'[DefaultTask] = to /\ \A u \in Tasks \ {DefaultTask} : pc'[u] = pc[u]
      BY <3>1 DEF TypeOK
    <3> QED
      BY <2>1, <3>1, <3>2, <3>3, <3>4, OtherAnswers
  <2> QED
    BY <2>2, <2>3
<1>2. ASSUME NEW t \in Tasks, NEW addrs, StartRequest(t, addrs) PROVE AnswerInv'
  <2>1. /\ pc'[t] = "lock" /\ ndone'[t] = 0 /\ reply'[t] = "none" /\ wrote'[t] = {}
        /\ UNCHANGED enable_flash_save_cb
        /\ \A u \in Tasks \ {t} : UNCHANGED <<pc[u], req[u], ndone[u], reply[u], wrote[u]>>
    BY <1>2 DEF StartRequest, TypeOK
  <2>2. Stored(t, ndone[t])' = {}
    BY <2>1 DEF Stored
  <2> QED
    BY <2>1, <2>2, OtherAnswers DEF Saving
<1>3. ASSUME NEW t \in Tasks, Setter(t) PROVE AnswerInv'
  <2>1. /\ pc[t] \in {"lock", "set"} /\ reply[t] = "none"
        /\ ndone[t] < Len(req[t]) /\ ndone[t] \in Nat
        /\ wrote[t] = Stored(t, ndone[t])
        /\ UNCHANGED <<req, enable_flash_save_cb>>
    BY <1>3 DEF Setter, Acquire, AcquireTimeout, Set, AnswerInv, ReplyInv, TypeOK
  <2>2. CASE Acquire(t)
    <3>1. /\ pc'[t] = "set" /\ UNCHANGED <<ndone, reply, wrote>>
          /\ \A u \in Tasks \ {t} : pc'[u] = pc[u]
      BY <2>2 DEF Acquire, TypeOK
    <3> QED
      BY <2>1, <3>1, OtherAnswers DEF Stored, Saving
  <2>3. CASE AcquireTimeout(t)
    <3>1. /\ pc'[t] = "idle" /\ reply'[t] = "device_failure" /\ UNCHANGED <<ndone, wrote>>
          /\ \A u \in Tasks \ {t} : pc'[u] = pc[u] /\ reply'[u] = reply[u]
      BY <2>3 DEF AcquireTimeout, TypeOK
    <3> QED
      BY <2>1, <3>1, OtherAnswers DEF Stored, Saving
  <2>4. CASE Set(t)
    <3>1. /\ wrote'[t] = wrote[t] \cup {req[t][ndone[t] + 1]}
          /\ \A u \in Tasks \ {t} : wrote'[u] = wrote[u]
      BY <2>4 DEF Set, StoreValue, TypeOK
    <3>2. wrote'[t] = Stored(t, ndone[t] + 1)
      <4>1. 1 .. ndone[t] + 1 = (1 .. ndone[t]) \cup {ndone[t] + 1}
        BY <2>1
      <4> QED
        BY <2>1, <3>1, <4>1 DEF Stored
    <3>3. CASE enable_flash_save_cb
      <4>1. /\ pc'[t] = "open" /\ UNCHANGED <<ndone, reply>>
            /\ \A u \in Tasks \ {t} : pc'[u] = pc[u]
        BY <2>4, <3>3 DEF Set, AfterSet, TypeOK
      <4> QED
        BY <2>1, <3>1, <3>2, <4>1, OtherAnswers DEF Stored
    <3>4. CASE ~enable_flash_save_cb
      BY <2>1, <2>4, <3>1, <3>2, <3>4, SetterDoneAnswers DEF Set, AfterSet
    <3> QED
      BY <3>3, <3>4
  <2> QED
    BY <1>3, <2>2, <2>3, <2>4 DEF Setter
<1>4. ASSUME NEW t \in Tasks, Save(t) PROVE AnswerInv'
  <2>1. /\ pc[t] \in {"open"} \cup Saving /\ UNCHANGED <<req, wrote, enable_flash_save_cb>>
        /\ reply[t] = "none"
    BY <1>4 DEF Save, OpenCall, OpenReturns, OpenFails, CopyReg, CloseCall, CloseCommits,
                CloseFails, Saving, AnswerInv, ReplyInv
  <2>2. enable_flash_save_cb => ndone[t] < Len(req[t]) /\ wrote[t] = Stored(t, ndone[t] + 1)
    BY <2>1 DEF AnswerInv, ReplyInv
  <2>3. CASE OpenCall(t) \/ OpenReturns(t) \/ CopyReg(t) \/ CloseCall(t)
    <3>1. pc'[t] \in Saving /\ UNCHANGED <<ndone, reply>>
          /\ \A u \in Tasks \ {t} : pc'[u] = pc[u]
      BY <2>3 DEF OpenCall, OpenReturns, CopyReg, CloseCall, TypeOK, Saving
    <3> QED
      BY <2>1, <2>2, <3>1, OtherAnswers DEF Stored, Saving
  <2>4. CASE OpenFails(t) \/ CloseCommits(t) \/ CloseFails(t)
    <3>1. SaveReturns(t)
      BY <2>4 DEF OpenFails, CloseCommits, CloseFails
    <3>2. CASE t = DefaultTask /\ ~enable_flash_save_cb
      <4>1. pc'[t] = "enable" /\ UNCHANGED <<ndone, reply>>
            /\ \A u \in Tasks \ {t} : pc'[u] = pc[u]
        BY <3>1, <3>2 DEF SaveReturns, TypeOK
      <4> QED
        BY <2>1, <3>2, <4>1, OtherAnswers DEF Saving
    <3>3. CASE ~(t = DefaultTask /\ ~enable_flash_save_cb)
      <4>1. enable_flash_save_cb
        BY <2>1, <3>3 DEF LockInv, BootPhase, Saving, Serving, Tasks
      <4>2. SetterDone(t)
        BY <3>1, <3>3 DEF SaveReturns
      <4> QED
        BY <2>1, <2>2, <4>1, <4>2, SetterDoneAnswers
    <3> QED
      BY <3>2, <3>3
  <2> QED
    BY <1>4, <2>3, <2>4 DEF Save
<1>5. CASE Restart
  <2>1. \A t \in Tasks : reply'[t] = "none" /\ pc'[t] \notin {"lock", "set", "open"} \cup Saving
    BY <1>5 DEF Restart, PcAtReset, Saving
  <2> QED
    BY <2>1 DEF AnswerInv, ReplyInv, ReplyMatchesEffect
<1>6. CASE UNCHANGED vars
  BY <1>6 DEF vars, AnswerInv, ReplyInv, ReplyMatchesEffect, Stored
<1> QED
  BY <1>1, <1>2, <1>3, <1>4, <1>5, <1>6 DEF Next, Tick, ClientWrite, Quiet, Tasks

\* A normal answer means the whole request was stored, a failure that exactly
\* the registers before the failing one were.
THEOREM AnswersMatch == Spec => []ReplyMatchesEffect
<1>1. Init => TypeOK /\ LockInv /\ AnswerInv
  BY TypeInit, LockInit, AnswerInit
<1>2. TypeOK /\ LockInv /\ AnswerInv /\ [Next]_vars => (TypeOK /\ LockInv /\ AnswerInv)'
  BY TypeNext, LockNext, AnswerNext
<1>3. AnswerInv => ReplyMatchesEffect
  BY DEF AnswerInv
<1> QED
  BY <1>1, <1>2, <1>3, PTL DEF Spec

\* Before saving is enabled the default task saves only after a failed load.
FirstSaveInv ==
  ~enable_flash_save_cb /\ pc[DefaultTask] \in {"open"} \cup Saving => load_err

LEMMA FirstSaveNext ==
  ASSUME TypeOK, LockInv, FirstSaveInv, [Next]_vars
  PROVE  FirstSaveInv'
<1> USE DEF taskVars, saveVars, diskVars, bootVars, bounds
<1> DefaultTask \in Tasks
  BY DEF Tasks
<1>1. CASE Boot
  BY <1>1 DEF Boot, MountSucceeds, MountFormats, MountFails, LoadSucceeds, LoadThen, LoadFails,
              EnableSaving, ServerStarts, FirstSaveInv, TypeOK, Saving
<1>2. ASSUME NEW t \in Tasks, NEW addrs, StartRequest(t, addrs) PROVE FirstSaveInv'
  BY <1>2 DEF StartRequest, FirstSaveInv, TypeOK, Saving
<1>3. ASSUME NEW t \in Tasks, Setter(t) PROVE FirstSaveInv'
  BY <1>3 DEF Setter, Acquire, AcquireTimeout, Set, AfterSet, SetterDone, FirstSaveInv, TypeOK,
              Saving
<1>4. ASSUME NEW t \in Tasks, Save(t) PROVE FirstSaveInv'
  <2>1. UNCHANGED <<enable_flash_save_cb, load_err>>
    BY <1>4 DEF Save, OpenCall, OpenReturns, OpenFails, CopyReg, CloseCall, CloseCommits,
                CloseFails
  <2>2. t # DefaultTask => pc'[DefaultTask] = pc[DefaultTask]
    BY <1>4 DEF Save, OpenCall, OpenReturns, OpenFails, CopyReg, CloseCall, CloseCommits,
                CloseFails, SaveReturns, SetterDone, TypeOK
  <2>3. pc[t] \in {"open"} \cup Saving
    BY <1>4 DEF Save, OpenCall, OpenReturns, OpenFails, CopyReg, CloseCall, CloseCommits,
                CloseFails, Saving
  <2> QED
    BY <2>1, <2>2, <2>3 DEF FirstSaveInv
<1>5. CASE Restart
  BY <1>5 DEF Restart, PcAtReset, FirstSaveInv, Saving
<1>6. CASE UNCHANGED vars
  BY <1>6 DEF vars, FirstSaveInv
<1> QED
  BY <1>1, <1>2, <1>3, <1>4, <1>5, <1>6 DEF Next, Tick, ClientWrite, Quiet, Tasks

\* During boot a readable file is changed only by the format of the mount, or by
\* the save that follows a failed load.
THEOREM BootKeepsFile == Spec => BootKeepsReadableFile
<1> DEFINE Kept == (file' # file \/ img' # img) =>
                     \/ enable_flash_save_cb
                     \/ load_err
                     \/ pc[DefaultTask] = "fs_mount_medium"
<1>1. Init => TypeOK /\ LockInv /\ FirstSaveInv
  <2>1. Init => FirstSaveInv
    BY DEF Init, PcAtReset, FirstSaveInv, Saving, Tasks
  <2> QED
    BY <2>1, TypeInit, LockInit
<1>2. TypeOK /\ LockInv /\ FirstSaveInv /\ [Next]_vars => (TypeOK /\ LockInv /\ FirstSaveInv)'
  BY TypeNext, LockNext, FirstSaveNext
<1>3. TypeOK /\ LockInv /\ FirstSaveInv /\ [Next]_vars => [Kept]_vars
  <2> SUFFICES ASSUME TypeOK, LockInv, FirstSaveInv, Next, file' # file \/ img' # img
               PROVE  Kept
    BY DEF vars
  <2> USE DEF taskVars, saveVars, diskVars, bootVars, bounds
  <2>1. CASE Boot
    BY <2>1 DEF Boot, MountSucceeds, MountFormats, MountFails, LoadSucceeds, LoadThen,
                LoadFails, EnableSaving
  <2>2. ASSUME NEW t \in Tasks, Save(t) PROVE enable_flash_save_cb \/ load_err
    <3>1. pc[t] \in {"open"} \cup Saving
      BY <2>2 DEF Save, OpenCall, OpenReturns, OpenFails, CopyReg, CloseCall, CloseCommits,
                  CloseFails, Saving
    <3> QED
      BY <3>1 DEF FirstSaveInv, LockInv, BootPhase, Serving, Saving, Tasks
  <2>3. ASSUME NEW t \in Tasks, Setter(t) PROVE FALSE
    BY <2>3 DEF Setter, Acquire, AcquireTimeout, Set
  <2>4. ~(Tick \/ ClientWrite \/ Restart \/ Quiet)
    BY DEF Tick, ClientWrite, StartRequest, Restart, Quiet, vars
  <2> QED
    BY <2>1, <2>2, <2>3, <2>4 DEF Next
<1> QED
  BY <1>1, <1>2, <1>3, PTL DEF Spec, BootKeepsReadableFile

-----------------------------------------------------------------------------
(***************************************************************************)
(* What a lock around the save would give.  FileCurrentWhenQuiet fails for *)
(* the code as it is (run lost_save); it holds in every behaviour in which *)
(* saves come one at a time, and so do littlefs calls, so the overlap of   *)
(* saves is the only cause.                                                *)
(***************************************************************************)

\* No two tasks are inside fs_save_modbus_reg at once.
OneSaveAtATime ==
  \A t, u \in Tasks : pc[t] \in Saving /\ pc[u] \in Saving => t = u

\* Task t will commit the present value of register a, if nothing fails.
Carries(t, a) ==
  \/ pc[t] \in {"open", "opening"}
  \/ pc[t] \in {"copy", "closing"} /\ (a \in todo[t] \/ cache[t][a] = ram[a])

\* The value of a is on its way to the file, or there.
Current(a) ==
  \/ \E t \in Tasks : Carries(t, a)
  \/ /\ \A t \in Tasks : pc[t] \notin Saving \cup {"open"}
     /\ img[a] = ram[a]

SerialInv ==
  /\ ~fsRace
  /\ file # "image" => img = Zero
  /\ pc[DefaultTask] \in {"fs_mount_medium", "fs_load_modbus_reg"} => ram = Zero
  /\ Loaded /\ ~io_err => \A a \in Addr : Current(a)

LEMMA SerialInit == Init => SerialInv
<1> SUFFICES ASSUME Init PROVE SerialInv
  OBVIOUS
<1>1. DefaultTask \in Tasks
  BY DEF Tasks
<1>2. pc[DefaultTask] = "fs_mount_medium"
  BY <1>1 DEF Init, PcAtReset
<1> QED
  BY <1>2 DEF Init, SerialInv, Loaded, Saving

\* A step that moves no task into, through or out of a save, nor a register or
\* the file.
LEMMA CurrentStays ==
  ASSUME NEW a \in Addr, Current(a),
         UNCHANGED <<ram, img, cache, todo>>,
         \A u \in Tasks : pc[u] \in Saving \cup {"open"} => pc'[u] = pc[u],
         \A u \in Tasks : pc'[u] \in Saving \cup {"open"} => pc'[u] = pc[u]
  PROVE  Current(a)'
BY DEF Current, Carries, Saving

LEMMA SerialBoot ==
  ASSUME TypeOK, LockInv, DataInv, SerialInv, Boot
  PROVE  SerialInv'
<1> USE DEF taskVars, saveVars, diskVars, bootVars, bounds
<1> DefaultTask \in Tasks
  BY DEF Tasks
<1>1. pc[DefaultTask] \in Booting \cup {"enable"}
  BY DEF Boot, MountSucceeds, MountFormats, MountFails, LoadSucceeds, LoadThen, LoadFails,
         EnableSaving, Booting
<1>2. /\ ~enable_flash_save_cb /\ ~fsRace /\ file # "garbled"
      /\ \A u \in Tasks : pc[u] \notin Saving \cup {"open"}
  BY <1>1, BootSavesNothing DEF SerialInv, DataInv, Booting, Saving, Tasks
<1>3. CASE MountSucceeds \/ MountFormats
  <2>1. /\ pc'[DefaultTask] = "fs_load_modbus_reg" /\ UNCHANGED <<ram, fsRace>>
        /\ enable_flash_save_cb' = FALSE
        /\ UNCHANGED <<file, img>> \/ img' = Zero
    BY <1>2, <1>3 DEF MountSucceeds, MountFormats, TypeOK
  <2>2. ram = Zero /\ (file' # "image" => img' = Zero)
    BY <1>3, <2>1 DEF SerialInv, MountSucceeds, MountFormats
  <2> QED
    BY <1>2, <2>1, <2>2 DEF SerialInv, Loaded, Saving
<1>4. CASE MountFails
  <2>1. /\ pc'[DefaultTask] = "idle" /\ enable_flash_save_cb' = FALSE /\ UNCHANGED fsRace
        /\ UNCHANGED <<file, img>> \/ img' = Zero
    BY <1>2, <1>4 DEF MountFails, ServerStarts, TypeOK
  <2> QED
    BY <1>2, <2>1 DEF SerialInv, Loaded, Saving
<1>5. CASE LoadSucceeds
  <2>1. /\ pc' = [pc EXCEPT ![DefaultTask] = "enable"]
        /\ UNCHANGED <<file, img, fsRace>>
        /\ pc[DefaultTask] = "fs_load_modbus_reg"
    BY <1>5 DEF LoadSucceeds, LoadThen
  <2>2. ram' = img
    <3>1. CASE file = "image"
      BY <1>5, <3>1 DEF LoadSucceeds, LoadThen
    <3>2. CASE file = "empty"
      <4>1. ram' = ram /\ ram = Zero /\ img = Zero
        BY <1>5, <2>1, <3>2 DEF LoadSucceeds, LoadThen, SerialInv
      <4> QED
        BY <4>1
    <3> QED
      BY <1>2, <1>5, <3>1, <3>2 DEF LoadSucceeds, LoadThen, TypeOK
  <2>3. \A u \in Tasks : pc'[u] \notin Saving \cup {"open"}
    BY <1>2, <2>1 DEF TypeOK, Saving
  <2>4. pc'[DefaultTask] = "enable"
    BY <2>1 DEF TypeOK
  <2>5. \A a \in Addr : Current(a)'
    BY <2>1, <2>2, <2>3 DEF Current
  <2> QED
    BY <1>2, <2>1, <2>4, <2>5 DEF SerialInv
<1>6. CASE LoadFails
  <2>1. pc'[DefaultTask] = "open" /\ UNCHANGED <<file, img, fsRace>>
    BY <1>6 DEF LoadFails, TypeOK
  <2>2. \A a \in Addr : Current(a)'
    BY <2>1 DEF Current, Carries
  <2> QED
    BY <1>2, <2>1, <2>2 DEF SerialInv
<1>7. CASE EnableSaving
  <2>1. /\ pc[DefaultTask] = "enable" /\ pc' = [t \in Tasks |-> "idle"]
        /\ UNCHANGED <<ram, cache, todo, file, img, fsRace, io_err>>
    BY <1>7 DEF EnableSaving, ServerStarts
  <2>2. ~io_err => \A a \in Addr : Current(a)
    BY <2>1 DEF SerialInv, Loaded
  <2>3. ~io_err => \A a \in Addr : Current(a)'
    BY <1>2, <2>1, <2>2, CurrentStays DEF Saving
  <2> QED
    BY <2>1, <2>3 DEF SerialInv
<1> QED
  BY <1>3, <1>4, <1>5, <1>6, <1>7 DEF Boot

LEMMA SerialSetter ==
  ASSUME TypeOK, LockInv, SerialInv, NEW t \in Tasks, Setter(t)
  PROVE  SerialInv'
<1> USE DEF taskVars, saveVars, diskVars, bootVars, bounds
<1> DefaultTask \in Tasks
  BY DEF Tasks
<1>1. /\ pc[t] \in {"lock", "set"}
      /\ UNCHANGED <<cache, todo, file, img, fsRace, io_err, enable_flash_save_cb>>
      /\ \A u \in Tasks \ {t} : pc'[u] = pc[u]
      /\ pc'[t] \in {"idle", "lock", "set"} \/ (pc'[t] = "open" /\ enable_flash_save_cb)
  BY DEF Setter, Acquire, AcquireTimeout, Set, AfterSet, SetterDone, TypeOK
<1>2. pc[DefaultTask] \notin {"fs_mount_medium", "fs_load_modbus_reg"}
  BY <1>1 DEF LockInv, BootPhase, Booting, Serving, Tasks
<1>3. pc'[DefaultTask] \notin {"fs_mount_medium", "fs_load_modbus_reg"}
  BY <1>1, <1>2
<1>4. Loaded' => Loaded
  BY <1>1 DEF Loaded, Saving
<1>5. ASSUME Loaded, ~io_err, NEW a \in Addr PROVE Current(a)'
  <2>1. Current(a)
    BY <1>5 DEF SerialInv
  <2>2. CASE pc'[t] = "open"
    BY <2>2 DEF Current, Carries
  <2>3. CASE pc'[t] # "open" /\ ram' = ram
    BY <1>1, <2>1, <2>3, CurrentStays DEF Saving
  <2>4. CASE pc'[t] # "open" /\ ram' # ram
    <3>1. ~enable_flash_save_cb
      BY <2>4 DEF Setter, Acquire, AcquireTimeout, Set, AfterSet, TypeOK
    <3>2. pc[DefaultTask] \in Serving
      BY <1>1, <3>1 DEF LockInv, BootPhase, Serving, Tasks
    <3> QED
      BY <1>5, <3>1, <3>2 DEF Loaded, Serving, Saving
  <2> QED
    BY <2>2, <2>3, <2>4
<1> QED
  BY <1>1, <1>3, <1>4, <1>5 DEF SerialInv

LEMMA SerialSave ==
  ASSUME TypeOK, LockInv, DataInv, SerialInv, OneSaveAtATime, OneSaveAtATime',
         NEW t \in Tasks, Save(t)
  PROVE  SerialInv'
<1> USE DEF taskVars, saveVars, diskVars, bootVars, bounds
<1> DefaultTask \in Tasks
  BY DEF Tasks
<1>1. /\ pc[t] \in Saving \cup {"open"}
      /\ UNCHANGED <<ram, enable_flash_save_cb>>
      /\ \A u \in Tasks \ {t} : pc'[u] = pc[u]
      /\ pc'[t] \notin {"fs_mount_medium", "fs_load_modbus_reg"}
  BY DEF Save, OpenCall, OpenReturns, OpenFails, CopyReg, CloseCall, CloseCommits, CloseFails,
         SaveReturns, SetterDone, TypeOK, Saving
<1>2. pc[DefaultTask] \notin {"fs_mount_medium", "fs_load_modbus_reg"} /\ Loaded
  BY <1>1 DEF LockInv, BootPhase, Loaded, Booting, Serving, Saving, Tasks
<1>3. pc'[DefaultTask] \notin {"fs_mount_medium", "fs_load_modbus_reg"}
  BY <1>1, <1>2
<1>4. ~fsRace' /\ (file' # "image" => img' = Zero)
  <2>1. CASE OpenCall(t) \/ CloseCall(t)
    <3>1. LfsCall(t) /\ pc'[t] \in Saving
      BY <2>1 DEF OpenCall, CloseCall, TypeOK, Saving
    <3>2. \A u \in Tasks \ {t} : pc[u] \notin InLfs
      BY <1>1, <3>1 DEF OneSaveAtATime, InLfs, Saving
    <3> QED
      BY <3>1, <3>2 DEF LfsCall, SerialInv
  <2>2. CASE OpenReturns(t) \/ OpenFails(t) \/ CopyReg(t) \/ CloseCommits(t) \/ CloseFails(t)
    BY <2>2 DEF OpenReturns, OpenFails, CopyReg, CloseCommits, CloseFails, SerialInv
  <2> QED
    BY <2>1, <2>2 DEF Save
<1>5. ASSUME ~io_err', NEW a \in Addr PROVE Current(a)'
  <2>1. ~OpenFails(t) /\ ~CloseFails(t)
    BY <1>5 DEF OpenFails, CloseFails
  <2>2. CASE OpenCall(t) \/ OpenReturns(t)
    BY <2>2 DEF OpenCall, OpenReturns, TypeOK, Current, Carries
  <2>3. CASE CopyReg(t) \/ CloseCall(t)
    <3>1. Current(a) /\ pc[t] = "copy"
      BY <1>2, <1>5, <2>3 DEF SerialInv, CopyReg, CloseCall
    <3>2. PICK u \in Tasks : Carries(u, a)
      BY <3>1 DEF Current, Saving
    <3>3. CASE u # t
      <4>1. pc'[u] = pc[u] /\ cache'[u] = cache[u] /\ todo'[u] = todo[u] /\ ram' = ram
        BY <1>1, <2>3, <3>3 DEF CopyReg, CloseCall, TypeOK
      <4> QED
        BY <3>2, <4>1 DEF Current, Carries
    <3>4. CASE u = t
      <4>1. a \in todo[t] \/ cache[t][a] = ram[a]
        BY <3>1, <3>2, <3>4 DEF Carries
      <4>2. CASE CopyReg(t)
        <5>1. PICK b \in todo[t] : /\ cache' = [cache EXCEPT ![t][b] = ram[b]]
                                   /\ todo' = [todo EXCEPT ![t] = @ \ {b}]
          BY <4>2 DEF CopyReg
        <5>2. pc' = pc /\ ram' = ram
          BY <4>2 DEF CopyReg
        <5>3. /\ cache'[t] = [cache[t] EXCEPT ![b] = ram[b]]
              /\ todo'[t] = todo[t] \ {b} /\ b \in Addr
              /\ cache[t] \in [Addr -> Nat]
          BY <5>1 DEF TypeOK, Image
        <5>4. a \in todo'[t] \/ cache'[t][a] = ram'[a]
          BY <4>1, <5>2, <5>3
        <5> QED
          BY <3>1, <5>2, <5>4 DEF Current, Carries
      <4>3. CASE CloseCall(t)
        BY <4>1, <4>3 DEF CloseCall, TypeOK, Current, Carries
      <4> QED
        BY <2>3, <4>2, <4>3
    <3> QED
      BY <3>3, <3>4
  <2>4. CASE CloseCommits(t)
    <3>1. /\ pc[t] = "closing" /\ img' = cache[t]
          /\ UNCHANGED <<ram, cache, todo, io_err>>
      BY <2>4 DEF CloseCommits, SerialInv
    <3>2. todo[t] = {}
      BY <3>1 DEF DataInv, SaveInv, SerialInv
    <3>3. \A u \in Tasks \ {t} : pc[u] \notin Saving
      BY <3>1 DEF OneSaveAtATime, Saving
    <3>4. PICK u \in Tasks : Carries(u, a)
      BY <1>2, <1>5, <3>1 DEF SerialInv, Current, Saving
    <3>5. CASE u # t
      <4>1. pc'[u] = "open"
        BY <1>1, <3>3, <3>4, <3>5 DEF Carries, Saving
      <4> QED
        BY <4>1 DEF Current, Carries
    <3>6. CASE u = t
      <4>1. img'[a] = ram'[a]
        BY <3>1, <3>2, <3>4, <3>6 DEF Carries
      <4>2. pc'[t] \in {"enable", "lock", "idle"}
        BY <2>4 DEF CloseCommits, SaveReturns, SetterDone, TypeOK
      <4>3. CASE \E v \in Tasks \ {t} : pc[v] = "open"
        BY <1>1, <4>3 DEF Current, Carries
      <4>4. CASE \A v \in Tasks \ {t} : pc[v] # "open"
        BY <1>1, <3>3, <4>1, <4>2, <4>4 DEF Current, Saving
      <4> QED
        BY <4>3, <4>4
    <3> QED
      BY <3>5, <3>6
  <2> QED
    BY <2>1, <2>2, <2>3, <2>4 DEF Save
<1> QED
  BY <1>3, <1>4, <1>5 DEF SerialInv

LEMMA SerialNext ==
  ASSUME StoreInv, SerialInv, OneSaveAtATime, OneSaveAtATime', [Next]_vars
  PROVE  SerialInv'
<1> USE DEF taskVars, saveVars, diskVars, bootVars, bounds
<1> DefaultTask \in Tasks
  BY DEF Tasks
<1>1. CASE Boot
  BY <1>1, SerialBoot DEF StoreInv
<1>2. ASSUME NEW t \in Tasks, NEW addrs, StartRequest(t, addrs) PROVE SerialInv'
  <2>1. /\ UNCHANGED <<ram, cache, todo, file, img, fsRace, io_err, enable_flash_save_cb>>
        /\ pc[t] = "idle" /\ pc'[t] = "lock" /\ \A u \in Tasks \ {t} : pc'[u] = pc[u]
    BY <1>2 DEF StartRequest, StoreInv, TypeOK
  <2>2. Loaded /\ ~io_err => \A a \in Addr : Current(a)'
    BY <2>1, CurrentStays DEF SerialInv, Saving
  <2>3. Loaded' => Loaded
    BY <2>1 DEF Loaded, Saving
  <2> QED
    BY <2>1, <2>2, <2>3 DEF SerialInv
<1>3. ASSUME NEW t \in Tasks, Setter(t) PROVE SerialInv'
  BY <1>3, SerialSetter DEF StoreInv
<1>4. ASSUME NEW t \in Tasks, Save(t) PROVE SerialInv'
  BY <1>4, SerialSave DEF StoreInv
<1>5. CASE Restart
  <2>1. /\ pc'[DefaultTask] = "fs_mount_medium" /\ ram' = Zero /\ ~enable_flash_save_cb'
        /\ UNCHANGED <<file, img, fsRace>>
    BY <1>5 DEF Restart, PcAtReset
  <2> QED
    BY <2>1 DEF SerialInv, Loaded, Saving
<1>6. CASE UNCHANGED vars
  BY <1>6 DEF vars, SerialInv, Loaded, Current, Carries
<1> QED
  BY <1>1, <1>2, <1>3, <1>4, <1>5, <1>6 DEF Next, Tick, ClientWrite, Quiet, Tasks

\* In a behaviour in which saves come one at a time (as behind a mutex), no two
\* littlefs calls overlap, and the file holds the registers whenever all tasks
\* rest, saving is enabled and no save of this boot has failed.
THEOREM SerialSavesStayCurrent ==
  Spec /\ []OneSaveAtATime => [](~fsRace /\ FileCurrentWhenQuiet)
<1>1. SerialInv /\ StoreInv => ~fsRace /\ FileCurrentWhenQuiet
  <2> SUFFICES ASSUME SerialInv, StoreInv, \A t \in Tasks : pc[t] = "idle",
                      enable_flash_save_cb, ~io_err
               PROVE  img = ram
    BY DEF FileCurrentWhenQuiet, SerialInv
  <2>1. \A a \in Addr : img[a] = ram[a]
    BY DEF SerialInv, Loaded, Current, Carries
  <2>2. img \in [Addr -> Nat] /\ ram \in [Addr -> Nat]
    BY DEF StoreInv, TypeOK, Image
  <2> QED
    BY <2>1, <2>2
<1>2. StoreInv /\ SerialInv /\ OneSaveAtATime /\ OneSaveAtATime' /\ [Next]_vars => SerialInv'
  BY SerialNext
<1> QED
  BY <1>1, <1>2, SerialInit, StoreInvariant, PTL DEF Spec

=============================================================================
