--------------------------- MODULE RegisterStore ---------------------------
(***************************************************************************)
(* The Modbus register database of Com/modbus_tcp_server and its flash     *)
(* image: the setters behind the mutex (modbus_tcp_server_interface.c),    *)
(* the boot sequence and the save hook (modbus_tcp_server_database.c) and  *)
(* the littlefs file they write (board_flash_system.c).                    *)
(*                                                                         *)
(* The tasks are the default task, which boots the database and then       *)
(* writes one register every second, and one worker per TCP client, which  *)
(* writes what its client asks for.  A setter stores the value under the   *)
(* mutex, releases it, and then saves BOTH register arrays to the file     *)
(* with no lock at all: several saves can be under way at once.            *)
(*                                                                         *)
(* A register's value is abstracted to the number of times it was written  *)
(* since it was zero, so "newer" is ">".  A littlefs open or close touches *)
(* the shared lfs_t and is two steps; a write only copies registers into   *)
(* the handle's own cache (the file is 120 bytes, below inline_max), one   *)
(* register per step.  The close is what commits: littlefs keeps the old   *)
(* contents until then.                                                    *)
(***************************************************************************)
EXTENDS Naturals, Sequences, FiniteSets

CONSTANTS
  Workers,      \* the tasks that serve TCP clients
  DefaultTask,  \* StartDefaultTask of freertos.c
  Coils,        \* addresses of coil_regs_database
  Holding,      \* addresses of holding_regs_database
  TickReg,      \* the holding register the default task writes
  Requests,     \* what a client may ask: sequences of addresses to write
  MaxRequests,  \* bound: number of writing requests in a behaviour
  MaxBoots,     \* bound: number of times the board starts
  NoTask        \* the mutex has no owner

Tasks == Workers \cup {DefaultTask}
Addr  == Coils \cup Holding
Image == [Addr -> Nat]
Zero  == [a \in Addr |-> 0]

ASSUME StoreAssumption ==
  /\ DefaultTask \notin Workers
  /\ NoTask \notin Tasks
  /\ TickReg \in Holding
  /\ Requests \subseteq Seq(Addr) \ {<<>>}
  /\ MaxRequests \in Nat
  /\ MaxBoots \in Nat

VARIABLES
  pc,        \* [Tasks -> where the task is]
  req,       \* [Tasks -> the addresses of the request it serves]
  ndone,     \* [Tasks -> how many of them its setter loop has passed]
  reply,     \* [Tasks -> the answer to its last request]
  mutex,     \* owner of mb_tcp_mutex_id
  ram,       \* coil_regs_database and holding_regs_database
  mounted,   \* board_file_system # NULL
  load_err,  \* the load of this boot failed (local of mb_init_reg)
  enable_flash_save_cb,
  cache,     \* [Tasks -> what its open file handle holds]
  todo,      \* [Tasks -> registers its save has not copied yet]
  file,      \* state of modbus_regs.bin on the flash
  img,       \* its committed contents (Zero unless file = "image")
  fsRace,    \* two littlefs calls have overlapped: the file system's state is undefined
  requests,  \* requests so far
  boots,     \* boots so far
  \* History, read by the properties only.
  wrote,      \* [Tasks -> addresses its request has stored]
  io_err,     \* a save of this boot has failed
  overlapped, \* tasks whose save ran at the same time as another's
  durable     \* newest values committed by a save that ran alone

taskVars == <<pc, req, ndone, reply, wrote>>
saveVars == <<cache, todo, overlapped, io_err>>
diskVars == <<file, img, fsRace, durable>>
bootVars == <<mounted, load_err, enable_flash_save_cb>>
bounds   == <<requests, boots>>
vars == <<taskVars, mutex, ram, saveVars, diskVars, bootVars, bounds>>

Booting == {"off", "fs_mount_medium", "fs_load_modbus_reg"}
Serving == {"idle", "lock", "set"}
Saving  == {"opening", "copy", "closing"}
InLfs   == {"opening", "closing"}
Pc      == Booting \cup Serving \cup Saving \cup {"open", "enable"}

(***************************************************************************)
(* A request: the default task's tick or a client's write.                 *)
(***************************************************************************)

StartRequest(t, addrs) ==
  /\ pc[t] = "idle"
  /\ requests < MaxRequests
  /\ requests' = requests + 1
  /\ pc'    = [pc EXCEPT ![t] = "lock"]
  /\ req'   = [req EXCEPT ![t] = addrs]
  /\ ndone' = [ndone EXCEPT ![t] = 0]
  /\ reply' = [reply EXCEPT ![t] = "none"]
  /\ wrote' = [wrote EXCEPT ![t] = {}]
  /\ UNCHANGED <<mutex, ram, saveVars, diskVars, bootVars, boots>>

ClientWrite == \E w \in Workers, addrs \in Requests : StartRequest(w, addrs)
Tick == StartRequest(DefaultTask, <<TickReg>>)

\* The setter of the current address has returned MB_OK: the loop of
\* mbtcp_write_*_regs_cb goes on, or the answer is sent.
SetterDoneEarly(t) ==
  /\ ndone' = [ndone EXCEPT ![t] = @ + 1]
  /\ IF ndone[t] + 1 <= Len(req[t])
     THEN /\ pc' = [pc EXCEPT ![t] = "lock"]
          /\ UNCHANGED reply
     ELSE /\ pc' = [pc EXCEPT ![t] = "idle"]
          /\ reply' = [reply EXCEPT ![t] = "ok"]
SetterDone(t) ==
  /\ ndone' = [ndone EXCEPT ![t] = @ + 1]
  /\ IF ndone[t] + 1 < Len(req[t])
     THEN /\ pc' = [pc EXCEPT ![t] = "lock"]
          /\ UNCHANGED reply
     ELSE /\ pc' = [pc EXCEPT ![t] = "idle"]
          /\ reply' = [reply EXCEPT ![t] = "ok"]

(***************************************************************************)
(* mb_acquire_mutex: the mutex is free, or another task holds it for the   *)
(* whole timeout and the setter fails.                                     *)
(***************************************************************************)

Acquire(t) ==
  /\ pc[t] = "lock"
  /\ mutex = NoTask
  /\ mutex' = t
  /\ pc' = [pc EXCEPT ![t] = "set"]
  /\ UNCHANGED <<req, ndone, reply, wrote, ram, saveVars, diskVars, bootVars, bounds>>

\* Variant: the loop ignores the error.
AcquireTimeoutIgnored(t) ==
  /\ pc[t] = "lock"
  /\ mutex \notin {NoTask, t}
  /\ SetterDone(t)
  /\ UNCHANGED <<req, wrote, mutex, ram, saveVars, diskVars, bootVars, bounds>>
AcquireTimeout(t) ==
  /\ pc[t] = "lock"
  /\ mutex \notin {NoTask, t}
  /\ pc' = [pc EXCEPT ![t] = "idle"]
  /\ reply' = [reply EXCEPT ![t] = "device_failure"]
  /\ UNCHANGED <<req, ndone, wrote, mutex, ram, saveVars, diskVars, bootVars, bounds>>

(***************************************************************************)
(* The store under the mutex, its release, and the hook: app_flash_save_cb *)
(* returns at once while enable_flash_save_cb is false (which only the     *)
(* boot sequence changes).                                                 *)
(***************************************************************************)

AfterSet(t) ==
  IF enable_flash_save_cb
  THEN /\ pc' = [pc EXCEPT ![t] = "open"]
       /\ UNCHANGED <<ndone, reply>>
  ELSE SetterDone(t)

StoreValue(t) ==
  LET a == req[t][ndone[t] + 1]
  IN  /\ ram'   = [ram EXCEPT ![a] = @ + 1]
      /\ wrote' = [wrote EXCEPT ![t] = @ \cup {a}]

\* Variant: the mutex is released after the hook instead of before it.
SetKeepsLock(t) ==
  /\ pc[t] = "set"
  /\ StoreValue(t)
  /\ mutex' = IF enable_flash_save_cb THEN t ELSE NoTask
  /\ AfterSet(t)
  /\ UNCHANGED <<req, saveVars, diskVars, bootVars, bounds>>
Set(t) ==
  /\ pc[t] = "set"
  /\ StoreValue(t)
  /\ mutex' = NoTask
  /\ AfterSet(t)
  /\ UNCHANGED <<req, saveVars, diskVars, bootVars, bounds>>

(***************************************************************************)
(* fs_save_modbus_reg.  A call that starts while another task is inside    *)
(* littlefs leaves the lfs_t in an undefined state (LFS_THREADSAFE is not  *)
(* defined and no lock is taken): the file is then "garbled", and what is  *)
(* found in it is decided when it is read.                                 *)
(***************************************************************************)

LfsCall(t) ==
  IF \E u \in Tasks \ {t} : pc[u] \in InLfs
  THEN fsRace' = TRUE /\ file' = "garbled" /\ img' = Zero
  ELSE UNCHANGED <<fsRace, file, img>>

\* Back from the save: into mb_init_reg, or out of the setter.
SaveReturns(t) ==
  IF t = DefaultTask /\ ~enable_flash_save_cb
  THEN /\ pc' = [pc EXCEPT ![t] = "enable"]
       /\ UNCHANGED <<ndone, reply>>
  ELSE SetterDone(t)

OpenCall(t) ==
  /\ pc[t] = "open"
  /\ mounted
  /\ LfsCall(t)
  /\ pc' = [pc EXCEPT ![t] = "opening"]
  /\ LET others == {u \in Tasks \ {t} : pc[u] \in Saving}
     IN  overlapped' = IF others = {} THEN overlapped \ {t}
                                      ELSE overlapped \cup others \cup {t}
  /\ UNCHANGED <<req, ndone, reply, wrote, mutex, ram, cache, todo, io_err, durable,
                 bootVars, bounds>>

\* LFS_O_CREAT commits an empty file at once; LFS_O_TRUNC touches only the
\* handle, so the old contents stay until the close.
OpenReturns(t) ==
  /\ pc[t] = "opening"
  /\ pc' = [pc EXCEPT ![t] = "copy"]
  /\ cache' = [cache EXCEPT ![t] = Zero]
  /\ todo' = [todo EXCEPT ![t] = Addr]
  /\ file' = IF file = "absent" THEN "empty" ELSE file
  /\ UNCHANGED <<req, ndone, reply, wrote, mutex, ram, overlapped, io_err, img, fsRace,
                 durable, bootVars, bounds>>

OpenFails(t) ==
  /\ pc[t] = "opening"
  /\ io_err' = TRUE
  /\ SaveReturns(t)
  /\ UNCHANGED <<req, wrote, mutex, ram, cache, todo, overlapped, diskVars, bootVars,
                 bounds>>

\* lfs_file_write of the coils, then of the holding registers, from RAM that
\* other tasks go on changing.
CopyReg(t) ==
  /\ pc[t] = "copy"
  /\ \E a \in todo[t] :
       /\ a \in Coils \/ todo[t] \cap Coils = {}
       /\ cache' = [cache EXCEPT ![t][a] = ram[a]]
       /\ todo'  = [todo EXCEPT ![t] = @ \ {a}]
  /\ UNCHANGED <<taskVars, mutex, ram, overlapped, io_err, diskVars, bootVars, bounds>>

\* Variant: the second lfs_file_write is missing.
CloseAfterCoils(t) ==
  /\ pc[t] = "copy"
  /\ todo[t] \cap Coils = {}
  /\ LfsCall(t)
  /\ pc' = [pc EXCEPT ![t] = "closing"]
  /\ UNCHANGED <<req, ndone, reply, wrote, mutex, ram, saveVars, durable,
                 bootVars, bounds>>
CloseCall(t) ==
  /\ pc[t] = "copy"
  /\ todo[t] = {}
  /\ LfsCall(t)
  /\ pc' = [pc EXCEPT ![t] = "closing"]
  /\ UNCHANGED <<req, ndone, reply, wrote, mutex, ram, saveVars, durable,
                 bootVars, bounds>>

\* The close commits the handle's contents in one step.
CloseCommits(t) ==
  /\ pc[t] = "closing"
  /\ IF fsRace
     THEN UNCHANGED <<file, img, durable>>
     ELSE /\ file' = "image"
          /\ img' = cache[t]
          /\ durable' = IF t \in overlapped THEN durable ELSE cache[t]
  /\ SaveReturns(t)
  /\ UNCHANGED <<req, wrote, mutex, ram, saveVars, fsRace, bootVars, bounds>>

\* The commit fails: the old contents stay, and the setter answers MB_OK.
CloseFails(t) ==
  /\ pc[t] = "closing"
  /\ io_err' = TRUE
  /\ SaveReturns(t)
  /\ UNCHANGED <<req, wrote, mutex, ram, cache, todo, overlapped, diskVars, bootVars,
                 bounds>>

(***************************************************************************)
(* Boot: mb_init_reg, in the default task, before the server task exists.  *)
(* mb_api_init creates the mutex (mutex = NoTask from here on).            *)
(***************************************************************************)

ServerStarts == pc' = [t \in Tasks |-> "idle"]

MountSucceeds ==
  /\ pc[DefaultTask] = "fs_mount_medium"
  /\ file # "absent"
  /\ mounted' = TRUE
  /\ pc' = [pc EXCEPT ![DefaultTask] = "fs_load_modbus_reg"]
  /\ UNCHANGED <<req, ndone, reply, wrote, mutex, ram, saveVars, diskVars,
                 load_err, enable_flash_save_cb, bounds>>

\* Any error of lfs_mount: the medium is formatted and mounted again.
MountFormats ==
  /\ pc[DefaultTask] = "fs_mount_medium"
  /\ file' = "absent" /\ img' = Zero /\ durable' = Zero
  /\ mounted' = TRUE
  /\ pc' = [pc EXCEPT ![DefaultTask] = "fs_load_modbus_reg"]
  /\ UNCHANGED <<req, ndone, reply, wrote, mutex, ram, saveVars, fsRace,
                 load_err, enable_flash_save_cb, bounds>>

\* The format or the second mount fails: mb_init_reg returns, saving stays
\* disabled and the server starts all the same.
MountFails ==
  /\ pc[DefaultTask] = "fs_mount_medium"
  /\ \/ file' = "absent" /\ img' = Zero /\ durable' = Zero
     \/ UNCHANGED <<file, img, durable>>
  /\ ServerStarts
  /\ UNCHANGED <<req, ndone, reply, wrote, mutex, ram, saveVars, fsRace,
                 bootVars, bounds>>

\* Variant: only the coils are read back.
LoadCoilsOnly ==
  /\ pc[DefaultTask] = "fs_load_modbus_reg"
  /\ file = "image"
  /\ ram' = [a \in Addr |-> IF a \in Coils THEN img[a] ELSE ram[a]]
  /\ pc' = [pc EXCEPT ![DefaultTask] = "enable"]
  /\ UNCHANGED <<req, ndone, reply, wrote, mutex, saveVars, diskVars, bootVars,
                 bounds>>
\* The file is read and closed without error; the caller goes on at `next'.
\* An empty file reads as zero bytes: the arrays keep their initial zeroes.
LoadThen(next) ==
  /\ pc[DefaultTask] = "fs_load_modbus_reg"
  /\ file # "absent"
  /\ CASE file = "image"   -> ram' = img
       [] file = "empty"   -> ram' = ram
       [] file = "garbled" -> ram' \in [Addr -> 0 .. MaxRequests]
  /\ pc' = [pc EXCEPT ![DefaultTask] = next]
  /\ UNCHANGED <<req, ndone, reply, wrote, mutex, saveVars, diskVars, bootVars,
                 bounds>>

\* Variant: the boot sequence saves whether or not the load succeeded.
LoadThenSave == LoadThen("open")
LoadSucceeds == LoadThen("enable")

\* No file, or an error while reading it: mb_default_reg and a first save.
LoadFails ==
  /\ pc[DefaultTask] = "fs_load_modbus_reg"
  /\ load_err' = TRUE
  /\ ram' = Zero
  /\ durable' = Zero
  /\ pc' = [pc EXCEPT ![DefaultTask] = "open"]
  /\ UNCHANGED <<req, ndone, reply, wrote, mutex, saveVars, file, img, fsRace,
                 mounted, enable_flash_save_cb, bounds>>

EnableSaving ==
  /\ pc[DefaultTask] = "enable"
  /\ enable_flash_save_cb' = TRUE
  /\ ServerStarts
  /\ UNCHANGED <<req, ndone, reply, wrote, mutex, ram, saveVars, diskVars,
                 mounted, load_err, bounds>>

(***************************************************************************)
(* Power loss or reset: everything in RAM is gone.                         *)
(***************************************************************************)

PcAtReset == [t \in Tasks |-> IF t = DefaultTask THEN "fs_mount_medium" ELSE "off"]

Restart ==
  /\ boots < MaxBoots
  /\ boots' = boots + 1
  /\ pc' = PcAtReset
  /\ req' = [t \in Tasks |-> <<>>]
  /\ ndone' = [t \in Tasks |-> 0]
  /\ reply' = [t \in Tasks |-> "none"]
  /\ wrote' = [t \in Tasks |-> {}]
  /\ mutex' = NoTask
  /\ ram' = Zero
  /\ mounted' = FALSE
  /\ load_err' = FALSE
  /\ enable_flash_save_cb' = FALSE
  /\ cache' = [t \in Tasks |-> Zero]
  /\ todo' = [t \in Tasks |-> {}]
  /\ overlapped' = {}
  /\ io_err' = FALSE
  /\ UNCHANGED <<diskVars, requests>>

\* A new chip: nothing is on the flash.
Init ==
  /\ pc = PcAtReset
  /\ req = [t \in Tasks |-> <<>>]
  /\ ndone = [t \in Tasks |-> 0]
  /\ reply = [t \in Tasks |-> "none"]
  /\ wrote = [t \in Tasks |-> {}]
  /\ mutex = NoTask
  /\ ram = Zero
  /\ mounted = FALSE
  /\ load_err = FALSE
  /\ enable_flash_save_cb = FALSE
  /\ cache = [t \in Tasks |-> Zero]
  /\ todo = [t \in Tasks |-> {}]
  /\ overlapped = {}
  /\ io_err = FALSE
  /\ file = "absent"
  /\ img = Zero
  /\ durable = Zero
  /\ fsRace = FALSE
  /\ requests = 0
  /\ boots = 1

\* The bound on requests is reached and every task rests.
Quiet ==
  /\ requests = MaxRequests
  /\ \A t \in Tasks : pc[t] = "idle"
  /\ UNCHANGED vars

Boot == \/ MountSucceeds \/ MountFormats \/ MountFails
        \/ LoadSucceeds \/ LoadFails \/ EnableSaving

Setter(t) == Acquire(t) \/ AcquireTimeout(t) \/ Set(t)

Save(t) == \/ OpenCall(t) \/ OpenReturns(t) \/ OpenFails(t) \/ CopyReg(t)
           \/ CloseCall(t) \/ CloseCommits(t) \/ CloseFails(t)

Next ==
  \/ Boot
  \/ Tick
  \/ ClientWrite
  \/ \E t \in Tasks : Setter(t) \/ Save(t)
  \/ Restart
  \/ Quiet

Spec == Init /\ [][Next]_vars

-----------------------------------------------------------------------------

\* Every variable has its type, and a task inside its setter loop has an
\* address left to write.
TypeOK ==
  /\ pc \in [Tasks -> Pc]
  /\ req \in [Tasks -> Seq(Addr)]
  /\ ndone \in [Tasks -> Nat]
  /\ \A t \in Tasks : pc[t] \in {"lock", "set"} => ndone[t] < Len(req[t])
  /\ reply \in [Tasks -> {"none", "ok", "device_failure"}]
  /\ mutex \in Tasks \cup {NoTask}
  /\ ram \in Image
  /\ mounted \in BOOLEAN
  /\ load_err \in BOOLEAN
  /\ enable_flash_save_cb \in BOOLEAN
  /\ cache \in [Tasks -> Image]
  /\ todo \in [Tasks -> SUBSET Addr]
  /\ file \in {"absent", "empty", "image", "garbled"}
  /\ img \in Image
  /\ fsRace \in BOOLEAN
  /\ requests \in Nat
  /\ boots \in Nat
  /\ wrote \in [Tasks -> SUBSET Addr]
  /\ overlapped \subseteq Tasks
  /\ io_err \in BOOLEAN
  /\ durable \in Image

\* What a save that ran alone has committed stays on the flash, or is replaced
\* by something newer, through later saves (which may overlap one another),
\* failing commits and restarts, until the boot sequence formats the medium or
\* fails to read the file.  Littlefs calls that overlap void the promise.
DurableKept == ~fsRace => \A a \in Addr : img[a] >= durable[a]

\* Once the load has succeeded the registers clients see are never older than
\* what a save that ran alone has committed, before or after a restart.
ServedNotOlderThanDurable ==
  (enable_flash_save_cb /\ ~fsRace) => \A a \in Addr : ram[a] >= durable[a]

\* No task waits for the mutex while another erases and programs the flash:
\* its owner is between the acquire and the release, never in a save.
LockFreeDuringSave == \A t \in Tasks : mutex = t <=> pc[t] = "set"

\* A normal answer means every register of the request was stored; a device
\* failure means the registers before the failing one were, and stay, stored.
ReplyMatchesEffect ==
  \A t \in Tasks :
    /\ reply[t] = "ok" => wrote[t] = {req[t][i] : i \in 1 .. Len(req[t])}
    /\ reply[t] = "device_failure" =>
         /\ ndone[t] < Len(req[t])
         /\ wrote[t] = {req[t][i] : i \in 1 .. ndone[t]}

\* "Only zeroed when the load failed" (modbus_tcp_server_database.c): before
\* saving is enabled, nothing but the mount's format and the save after a
\* failed load changes the file.
BootKeepsReadableFile ==
  [][(file' # file \/ img' # img) =>
       \/ enable_flash_save_cb
       \/ load_err
       \/ pc[DefaultTask] = "fs_mount_medium"]_vars

\* When every task rests, saving is enabled, no save has failed and no littlefs
\* call has overlapped another, the file holds the registers: each setter triggers the save hook
\* after its write (modbus_tcp_server_interface.c), and the hook takes what is
\* in both arrays at that time (modbus_tcp_server_database.c).
FileCurrentWhenQuiet ==
  ( /\ \A t \in Tasks : pc[t] = "idle"
    /\ enable_flash_save_cb
    /\ ~fsRace
    /\ ~io_err )
  => img = ram
=============================================================================
