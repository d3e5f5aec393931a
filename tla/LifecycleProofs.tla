--------------------------- MODULE LifecycleProofs --------------------------
(***************************************************************************)
(* The block device and the VFS layer: proofs about module Lifecycle, for  *)
(* every number of file tasks, sectors, faults and power failures.         *)
(*                                                                         *)
(* The inductive invariant LifeInv says for every place of vfs_nand_       *)
(* register, vfs_nand_unregister and vfs_nand_format which layers are set  *)
(* up there (LayersMatch) and whose the bus is (BusMatches), that the lock *)
(* of FatFs has at most one file operation behind it (LockMatches), and    *)
(* how far the durable contents may be behind (DiskMatches).               *)
(***************************************************************************)
EXTENDS Lifecycle, FiniteSetTheorems, TLAPS

\* Where the task that registers can be.
Places == {"idle", "bus", "diskio", "nand", "resume", "no_disk", "path",
           "mount", "mount_again", "registered", "fail_path", "fail_bus",
           "mkfs", "boot", "user_mkfs", "user_boot", "sync", "nand_deinit",
           "drive", "unregistered"}

AppRecords == [pc : Places, format : BOOLEAN, init_bus : BOOLEAN,
               owns : BOOLEAN]

FileRecords == [op : {"none", "read", "write", "sync", "trim"},
                sector : Sectors, value : Values \cup {EMPTY},
                in_map : BOOLEAN]

\* The ranges of all variables, those that LifeTypeOK leaves out too.
Types ==
  /\ bus \in {"free", "ours", "theirs"}
  /\ up \subseteq Layers
  /\ vfs \in [registered : BOOLEAN, owns_bus : BOOLEAN]
  /\ app \in AppRecords
  /\ file \in [Files -> FileRecords]
  /\ fs_lock \in Files \cup {NOBODY}
  /\ dict \in Contents /\ durable \in Contents
  /\ dirty \in BOOLEAN /\ unsynced \in BOOLEAN
  /\ faults \in Nat /\ crashes \in Nat

\* The layers but the entry in FatFs, which stays from the first mount on.
taken_down == Layers \ {"volume"}

\* The layers that are set up at every place.
LayersMatch ==
  /\ app.pc \in {"bus", "diskio", "fail_bus", "unregistered"} =>
       up \ {"volume"} = {}
  /\ app.pc \in {"nand", "no_disk", "drive"} =>
       up \ {"volume"} = {"in_use", "drive"}
  /\ app.pc = "resume" => up \ {"volume"} = {"in_use", "drive", "nand"}
  /\ app.pc \in {"path", "sync", "nand_deinit"} =>
       up \ {"volume"} = taken_down \ {"path"}
  /\ app.pc = "mount" => up \ {"volume"} = taken_down
  /\ app.pc \in {"mount_again", "registered", "fail_path", "mkfs", "boot",
                 "user_mkfs", "user_boot"} => up = Layers
  /\ app.pc = "idle" =>
       IF vfs.registered THEN up = Layers ELSE up \ {"volume"} = {}

\* s_registered at every place, and whose the bus is: the flag that decides
\* whether it is freed, app.owns before registration and s_owns_bus after it,
\* is right as long as it matters.
BusMatches ==
  /\ app.pc \in {"user_mkfs", "user_boot", "unregistered"} => vfs.registered
  /\ app.pc \notin {"idle", "user_mkfs", "user_boot", "sync", "nand_deinit",
                    "drive", "unregistered"} => ~vfs.registered
  /\ vfs.registered => bus # "free" /\ vfs.owns_bus = (bus = "ours")
  /\ ~vfs.registered =>
       /\ app.pc \in {"idle", "bus"} => bus # "ours"
       /\ app.pc = "bus" => ~app.owns
       /\ app.pc \notin {"idle", "bus"} => app.owns = (bus = "ours")
  /\ app.pc \notin {"idle", "bus", "diskio", "nand", "no_disk", "drive",
                    "fail_bus", "unregistered"} => bus # "free"

\* Every file operation has the lock of FatFs, and works on the sectors of the
\* file; if the application is quiet there is none but on a registered volume
\* that nobody formats or leaves.
LockMatches ==
  /\ \A t \in Files : file[t].op # "none" =>
       fs_lock = t /\ file[t].sector \in 1 .. LastSector
  /\ \A t \in Files : file[t].in_map => file[t].op # "none"
  /\ QUIET /\ (app.pc # "idle" \/ ~vfs.registered) =>
       \A t \in Files : file[t].op = "none"

\* Contents and durable contents: they agree when the map is clean; if the
\* application is quiet, they agree when the driver is down or about to be shut
\* down, unless the synchronization failed there (which only a shutdown can
\* have found out); and on the volume itself from resume to the first mount.
DiskMatches ==
  /\ unsynced => "nand" \notin up \/ app.pc \in {"nand_deinit", "resume"}
  /\ ~RESUME_ERRORS =>
       /\ ~dirty => durable = dict
       /\ QUIET /\ ~unsynced /\ ("nand" \notin up \/ app.pc = "nand_deinit") =>
            durable = dict
       /\ app.pc \in {"path", "mount", "mkfs"} => durable[0] = dict[0]
       /\ app.pc = "mkfs" => dict[0] # FAT

LifeInv == Types /\ LayersMatch /\ BusMatches /\ LockMatches /\ DiskMatches

\* A write that is under way has written the sectors before the one it is at.
WrittenSoFar ==
  QUIET => \A t \in Files : file[t].op = "write" =>
    \A s \in 1 .. (file[t].sector - 1) : dict[s] = file[t].value

-----------------------------------------------------------------------------
(* Facts about records and contents                                        *)

\* Blank media have contents.
LEMMA BlankType == Blank \in Contents
BY DEF Blank, Contents

\* f_mkfs writes sector 0.
LEMMA BootType ==
  ASSUME NEW d \in Contents
  PROVE  /\ [d EXCEPT ![0] = FAT] \in Contents
         /\ [d EXCEPT ![0] = FAT][0] = FAT
BY LifeAssumption DEF Contents, Sectors

\* The bus has been initialized: the registration goes on and will free it.
LEMMA OwnsRecord ==
  ASSUME NEW a \in AppRecords
  PROVE  LET b == [a EXCEPT !.pc = "diskio", !.owns = TRUE]
         IN  b \in AppRecords /\ b.pc = "diskio" /\ b.owns = TRUE
BY DEF AppRecords, Places

-----------------------------------------------------------------------------
(* Initial states                                                          *)

\* The invariant holds at first: no layer is up.
LEMMA InitInv == LifeInit => LifeInv
<1> SUFFICES ASSUME LifeInit PROVE LifeInv
  OBVIOUS
<1> USE DEF LifeInit, Quiet
<1>1. Types
  <2>1. file \in [Files -> FileRecords]
    BY LifeAssumption DEF FileRecords, NoFile, Sectors
  <2>2. vfs \in [registered : BOOLEAN, owns_bus : BOOLEAN] /\ app \in AppRecords
    BY DEF AppRecords, Places
  <2>3. QED BY <2>1, <2>2, BlankType DEF Types
<1>2. LayersMatch /\ BusMatches /\ DiskMatches
  BY DEF LayersMatch, BusMatches, DiskMatches
<1>3. LockMatches
  BY DEF LockMatches, NoFile
<1>4. QED BY <1>1, <1>2, <1>3 DEF LifeInv

-----------------------------------------------------------------------------
(* Steps of the task that registers                                        *)

\* vfs_nand_register begins.
LEMMA RegisterStep ==
  ASSUME NEW format \in BOOLEAN, NEW init_bus \in BOOLEAN,
         LifeInv, Register(format, init_bus)
  PROVE  LifeInv'
<1> USE DEF LifeInv, Register, At, Quiet, disk
<1>1. Types'
  BY DEF Types, AppRecords, Places, Layers
<1>2. LayersMatch'
  BY DEF Types, LayersMatch, taken_down, BusMatches, AppRecords, Layers,
      Places
<1>3. BusMatches'
  BY DEF Types, LayersMatch, taken_down, BusMatches, AppRecords, Layers,
      Places
<1>4. LockMatches'
  BY DEF Types, BusMatches, LockMatches, AppRecords, Places
<1>5. DiskMatches'
  BY DEF Types, LayersMatch, taken_down, BusMatches, LockMatches, DiskMatches,
      AppRecords, Places, Layers
<1>6. QED BY <1>1, <1>2, <1>3, <1>4, <1>5

\* The SPI bus is initialized, or that fails.
LEMMA InitBusStep ==
  ASSUME LifeInv, InitBus
  PROVE  LifeInv'
<1> USE DEF LifeInv, At, disk
<1>1. /\ app' \in AppRecords
      /\ app.pc = "bus"
      /\ UNCHANGED <<up, vfs, disk, file, fs_lock, crashes>>
      /\ faults' \in {faults, faults + 1}
      /\ \/ app'.pc = "diskio" /\ app'.owns /\ bus = "free" /\ bus' = "ours"
         \/ app'.pc = "diskio" /\ app'.owns = app.owns /\ bus' = bus
         \/ app'.pc = "idle" /\ bus' = bus
  <2>1. CASE app' = [app EXCEPT !.pc = "diskio", !.owns = TRUE] /\ bus = "free"
             /\ bus' = "ours" /\ faults' = faults
    BY <2>1, OwnsRecord DEF InitBus, Types
  <2>2. CASE Goto("diskio") /\ bus' = bus /\ faults' = faults
    BY <2>2 DEF InitBus, Goto, Types, AppRecords, Places
  <2>3. CASE Fault /\ app' = Quiet /\ bus' = bus
    BY <2>3 DEF InitBus, Fault, Quiet, Types, AppRecords, Places
  <2>4. QED BY <2>1, <2>2, <2>3 DEF InitBus
<1>2. Types'
  BY <1>1 DEF Types
<1>3. LayersMatch'
  BY <1>1 DEF LayersMatch, BusMatches
<1>4. BusMatches'
  BY <1>1 DEF Types, AppRecords, LayersMatch, BusMatches
<1>5. LockMatches'
  BY <1>1 DEF BusMatches, LockMatches
<1>6. DiskMatches'
  BY <1>1 DEF Types, LayersMatch, DiskMatches
<1>7. QED BY <1>2, <1>3, <1>4, <1>5, <1>6

\* The disk I/O layer takes its context.
LEMMA InitDiskioStep ==
  ASSUME LifeInv, InitDiskio
  PROVE  LifeInv'
<1> USE DEF LifeInv, InitDiskio, At, Goto, disk
<1>1. Types'
  BY DEF Types, AppRecords, Places, Layers
<1>2. LayersMatch'
  BY DEF Types, LayersMatch, taken_down, BusMatches, AppRecords, Layers,
      Places
<1>3. BusMatches'
  BY DEF Types, LayersMatch, taken_down, BusMatches, AppRecords, Layers,
      Places
<1>4. LockMatches'
  BY DEF Types, BusMatches, LockMatches, AppRecords, Places
<1>5. DiskMatches'
  BY DEF Types, LayersMatch, taken_down, BusMatches, LockMatches, DiskMatches,
      AppRecords, Places, Layers
<1>6. QED BY <1>1, <1>2, <1>3, <1>4, <1>5

\* The driver is set up, or that fails.
LEMMA InitNandStep ==
  ASSUME LifeInv, InitNand
  PROVE  LifeInv'
<1> USE DEF LifeInv, InitNand, At, Fails, Goto, Fault, disk
<1>1. Types'
  BY DEF Types, AppRecords, Places, Layers
<1>2. LayersMatch'
  BY DEF Types, LayersMatch, taken_down, BusMatches, AppRecords, Layers,
      Places
<1>3. BusMatches'
  BY DEF Types, LayersMatch, taken_down, BusMatches, AppRecords, Layers,
      Places
<1>4. LockMatches'
  BY DEF Types, BusMatches, LockMatches, AppRecords, Places
<1>5. DiskMatches'
  BY DEF Types, LayersMatch, taken_down, BusMatches, LockMatches, DiskMatches,
      AppRecords, Places, Layers
<1>6. QED BY <1>1, <1>2, <1>3, <1>4, <1>5

\* The map is resumed; blank media are taken for an empty map.
LEMMA ResumeMapStep ==
  ASSUME LifeInv, ResumeMap
  PROVE  LifeInv'
<1> USE DEF LifeInv, ResumeMap, At, Goto, Fault, disk
<1>1. Types'
  <2>1. dict' \in Contents /\ durable' \in Contents
    BY BlankType DEF Types
  <2>2. dirty' \in BOOLEAN /\ unsynced' \in BOOLEAN
    BY DEF Types
  <2>3. QED BY <2>1, <2>2 DEF Types, AppRecords, Places, Layers
<1>2. LayersMatch'
  BY DEF Types, LayersMatch, taken_down, BusMatches, AppRecords, Layers,
      Places
<1>3. BusMatches'
  BY DEF Types, LayersMatch, taken_down, BusMatches, AppRecords, Layers,
      Places
<1>4. LockMatches'
  BY DEF Types, BusMatches, LockMatches, AppRecords, Places
<1>5. DiskMatches'
  BY DEF Types, LayersMatch, taken_down, BusMatches, LockMatches, DiskMatches,
      AppRecords, Places, Layers
<1>6. QED BY <1>1, <1>2, <1>3, <1>4, <1>5

\* The disk I/O layer undoes its part after a failure.
LEMMA NoDiskStep ==
  ASSUME LifeInv, NoDisk
  PROVE  LifeInv'
<1> USE DEF LifeInv, NoDisk, At, Goto, disk
<1>1. Types'
  BY DEF Types, AppRecords, Places, Layers
<1>2. LayersMatch'
  BY DEF Types, LayersMatch, taken_down, BusMatches, AppRecords, Layers,
      Places
<1>3. BusMatches'
  BY DEF Types, LayersMatch, taken_down, BusMatches, AppRecords, Layers,
      Places
<1>4. LockMatches'
  BY DEF Types, BusMatches, LockMatches, AppRecords, Places
<1>5. DiskMatches'
  BY DEF Types, LayersMatch, taken_down, BusMatches, LockMatches, DiskMatches,
      AppRecords, Places, Layers
<1>6. QED BY <1>1, <1>2, <1>3, <1>4, <1>5

\* The path is registered in the VFS.
LEMMA RegisterPathStep ==
  ASSUME LifeInv, RegisterPath
  PROVE  LifeInv'
<1> USE DEF LifeInv, RegisterPath, At, Fails, Goto, Fault, disk
<1>1. Types'
  BY DEF Types, AppRecords, Places, Layers
<1>2. LayersMatch'
  BY DEF Types, LayersMatch, taken_down, BusMatches, AppRecords, Layers,
      Places
<1>3. BusMatches'
  BY DEF Types, LayersMatch, taken_down, BusMatches, AppRecords, Layers,
      Places
<1>4. LockMatches'
  BY DEF Types, BusMatches, LockMatches, AppRecords, Places
<1>5. DiskMatches'
  BY DEF Types, LayersMatch, taken_down, BusMatches, LockMatches, DiskMatches,
      AppRecords, Places, Layers
<1>6. QED BY <1>1, <1>2, <1>3, <1>4, <1>5

\* The volume is mounted, or it has no file system.
LEMMA MountStep ==
  ASSUME LifeInv, Mount
  PROVE  LifeInv'
<1> USE DEF LifeInv, Mount, At, f_mount, no_filesystem, Goto, Fault, disk
<1>1. Types'
  BY DEF Types, AppRecords, Places, Layers
<1>2. LayersMatch'
  BY DEF Types, LayersMatch, taken_down, BusMatches, AppRecords, Layers,
      Places
<1>3. BusMatches'
  BY DEF Types, LayersMatch, taken_down, BusMatches, AppRecords, Layers,
      Places
<1>4. LockMatches'
  BY DEF Types, BusMatches, LockMatches, AppRecords, Places
<1>5. DiskMatches'
  BY DEF Types, LayersMatch, taken_down, BusMatches, LockMatches, DiskMatches,
      AppRecords, Places, Layers
<1>6. QED BY <1>1, <1>2, <1>3, <1>4, <1>5

\* The volume is mounted after it was formatted.
LEMMA MountAgainStep ==
  ASSUME LifeInv, MountAgain
  PROVE  LifeInv'
<1> USE DEF LifeInv, MountAgain, At, f_mount, Goto, Fault, disk
<1>1. Types'
  BY DEF Types, AppRecords, Places, Layers
<1>2. LayersMatch'
  BY DEF Types, LayersMatch, taken_down, BusMatches, AppRecords, Layers,
      Places
<1>3. BusMatches'
  BY DEF Types, LayersMatch, taken_down, BusMatches, AppRecords, Layers,
      Places
<1>4. LockMatches'
  BY DEF Types, BusMatches, LockMatches, AppRecords, Places
<1>5. DiskMatches'
  BY DEF Types, LayersMatch, taken_down, BusMatches, LockMatches, DiskMatches,
      AppRecords, Places, Layers
<1>6. QED BY <1>1, <1>2, <1>3, <1>4, <1>5

\* Registration ends with all layers up.
LEMMA RegisteredStep ==
  ASSUME LifeInv, Registered
  PROVE  LifeInv'
<1> USE DEF LifeInv, Registered, At, Quiet, disk
<1>1. Types'
  BY DEF Types, AppRecords, Places, Layers
<1>2. LayersMatch'
  BY DEF Types, LayersMatch, taken_down, BusMatches, AppRecords, Layers,
      Places
<1>3. BusMatches'
  BY DEF Types, LayersMatch, taken_down, BusMatches, AppRecords, Layers,
      Places
<1>4. LockMatches'
  BY DEF Types, BusMatches, LockMatches, AppRecords, Places
<1>5. DiskMatches'
  BY DEF Types, LayersMatch, taken_down, BusMatches, LockMatches, DiskMatches,
      AppRecords, Places, Layers
<1>6. QED BY <1>1, <1>2, <1>3, <1>4, <1>5

\* Registration takes the path down after a failure.
LEMMA FailPathStep ==
  ASSUME LifeInv, FailPath
  PROVE  LifeInv'
<1> USE DEF LifeInv, FailPath, At, Goto, disk
<1>1. Types'
  BY DEF Types, AppRecords, Places, Layers
<1>2. LayersMatch'
  BY DEF Types, LayersMatch, taken_down, BusMatches, AppRecords, Layers,
      Places
<1>3. BusMatches'
  BY DEF Types, LayersMatch, taken_down, BusMatches, AppRecords, Layers,
      Places
<1>4. LockMatches'
  BY DEF Types, BusMatches, LockMatches, AppRecords, Places
<1>5. DiskMatches'
  BY DEF Types, LayersMatch, taken_down, BusMatches, LockMatches, DiskMatches,
      AppRecords, Places, Layers
<1>6. QED BY <1>1, <1>2, <1>3, <1>4, <1>5

\* Registration frees the bus if it has initialized it.
LEMMA FailBusStep ==
  ASSUME LifeInv, FailBus
  PROVE  LifeInv'
<1> USE DEF LifeInv, FailBus, At, Quiet, frees_bus, disk
<1>1. Types'
  BY DEF Types, AppRecords, Places, Layers
<1>2. LayersMatch'
  BY DEF Types, LayersMatch, taken_down, BusMatches, AppRecords, Layers,
      Places
<1>3. BusMatches'
  BY DEF Types, LayersMatch, taken_down, BusMatches, AppRecords, Layers,
      Places
<1>4. LockMatches'
  BY DEF Types, BusMatches, LockMatches, AppRecords, Places
<1>5. DiskMatches'
  BY DEF Types, LayersMatch, taken_down, BusMatches, LockMatches, DiskMatches,
      AppRecords, Places, Layers
<1>6. QED BY <1>1, <1>2, <1>3, <1>4, <1>5

\* vfs_nand_format begins.
LEMMA FormatStep ==
  ASSUME LifeInv, Format
  PROVE  LifeInv'
<1> USE DEF LifeInv, Format, At, closed, Goto, disk
<1>1. Types'
  BY DEF Types, AppRecords, Places, Layers
<1>2. LayersMatch'
  BY DEF Types, LayersMatch, taken_down, BusMatches, AppRecords, Layers,
      Places
<1>3. BusMatches'
  BY DEF Types, LayersMatch, taken_down, BusMatches, AppRecords, Layers,
      Places
<1>4. LockMatches'
  BY DEF Types, BusMatches, LockMatches, AppRecords, Places
<1>5. DiskMatches'
  BY DEF Types, LayersMatch, taken_down, BusMatches, LockMatches, DiskMatches,
      AppRecords, Places, Layers
<1>6. QED BY <1>1, <1>2, <1>3, <1>4, <1>5

\* f_mkfs writes the tables.
LEMMA MakeTablesStep ==
  ASSUME LifeInv, MakeTables
  PROVE  LifeInv'
<1> USE DEF LifeInv, MakeTables, At, Changes, Fails, Goto, Fault, disk
<1>1. Types'
  <2>1. dict' \in Contents /\ durable' \in Contents
    BY BlankType DEF Types
  <2>2. dirty' \in BOOLEAN /\ unsynced' \in BOOLEAN
    BY DEF Types
  <2>3. QED BY <2>1, <2>2 DEF Types, AppRecords, Places, Layers
<1>2. LayersMatch'
  BY DEF Types, LayersMatch, taken_down, BusMatches, AppRecords, Layers,
      Places
<1>3. BusMatches'
  BY DEF Types, LayersMatch, taken_down, BusMatches, AppRecords, Layers,
      Places
<1>4. LockMatches'
  BY DEF Types, BusMatches, LockMatches, AppRecords, Places
<1>5. DiskMatches'
  BY DEF Types, LayersMatch, taken_down, BusMatches, LockMatches, DiskMatches,
      AppRecords, Places, Layers
<1>6. QED BY <1>1, <1>2, <1>3, <1>4, <1>5

\* f_mkfs writes sector 0.
LEMMA MakeBootStep ==
  ASSUME LifeInv, MakeBoot
  PROVE  LifeInv'
<1> USE DEF LifeInv, MakeBoot, At, Quiet, Fails, Goto, Fault, disk
<1>1. Types'
  <2>1. dict' \in Contents /\ durable' \in Contents
    BY BootType DEF Types
  <2>2. dirty' \in BOOLEAN /\ unsynced' \in BOOLEAN
    BY DEF Types
  <2>3. app' \in AppRecords
    <3>1. \A p \in {"mount_again", "fail_path", "idle"} :
            [app EXCEPT !.pc = p] \in AppRecords
      BY DEF Types, AppRecords, Places
    <3>2. [pc |-> "idle", format |-> FALSE, init_bus |-> FALSE, owns |-> FALSE]
            \in AppRecords
      BY DEF AppRecords, Places
    <3>3. QED BY <3>1, <3>2
  <2>4. faults' \in Nat
    BY DEF Types
  <2>5. QED BY <2>1, <2>2, <2>3, <2>4 DEF Types
<1>2. LayersMatch'
  BY DEF Types, LayersMatch, taken_down, BusMatches, AppRecords, Layers,
      Places
<1>3. BusMatches'
  BY DEF Types, LayersMatch, taken_down, BusMatches, AppRecords, Layers,
      Places
<1>4. LockMatches'
  BY DEF Types, BusMatches, LockMatches, AppRecords, Places
<1>5. DiskMatches'
  BY BootType DEF Types, LayersMatch, taken_down, BusMatches, LockMatches, DiskMatches,
      AppRecords, Places, Layers
<1>6. QED BY <1>1, <1>2, <1>3, <1>4, <1>5

\* vfs_nand_unregister begins.
LEMMA UnregisterStep ==
  ASSUME LifeInv, Unregister
  PROVE  LifeInv'
<1> USE DEF LifeInv, Unregister, At, closed, Goto, disk
<1>1. Types'
  BY DEF Types, AppRecords, Places, Layers
<1>2. LayersMatch'
  BY DEF Types, LayersMatch, taken_down, BusMatches, AppRecords, Layers,
      Places
<1>3. BusMatches'
  BY DEF Types, LayersMatch, taken_down, BusMatches, AppRecords, Layers,
      Places
<1>4. LockMatches'
  BY DEF Types, BusMatches, LockMatches, AppRecords, Places
<1>5. DiskMatches'
  BY DEF Types, LayersMatch, taken_down, BusMatches, LockMatches, DiskMatches,
      AppRecords, Places, Layers
<1>6. QED BY <1>1, <1>2, <1>3, <1>4, <1>5

\* The disk I/O layer syncs the map before it goes down.
LEMMA DeinitSyncStep ==
  ASSUME LifeInv, DeinitSync
  PROVE  LifeInv'
<1> USE DEF LifeInv, DeinitSync, At, Synced, Fails, Goto, Fault, disk
<1>1. Types'
  <2>1. dict' \in Contents /\ durable' \in Contents
    BY DEF Types
  <2>2. dirty' \in BOOLEAN /\ unsynced' \in BOOLEAN
    BY DEF Types
  <2>3. QED BY <2>1, <2>2 DEF Types, AppRecords, Places, Layers
<1>2. LayersMatch'
  BY DEF Types, LayersMatch, taken_down, BusMatches, AppRecords, Layers,
      Places
<1>3. BusMatches'
  BY DEF Types, LayersMatch, taken_down, BusMatches, AppRecords, Layers,
      Places
<1>4. LockMatches'
  BY DEF Types, BusMatches, LockMatches, AppRecords, Places
<1>5. DiskMatches'
  BY DEF Types, LayersMatch, taken_down, BusMatches, LockMatches, DiskMatches,
      AppRecords, Places, Layers
<1>6. QED BY <1>1, <1>2, <1>3, <1>4, <1>5

\* The driver goes down.
LEMMA DeinitNandStep ==
  ASSUME LifeInv, DeinitNand
  PROVE  LifeInv'
<1> USE DEF LifeInv, DeinitNand, At, deinit_layers, Goto, disk
<1>1. Types'
  BY DEF Types, AppRecords, Places, Layers
<1>2. LayersMatch'
  BY DEF Types, LayersMatch, taken_down, BusMatches, AppRecords, Layers,
      Places
<1>3. BusMatches'
  BY DEF Types, LayersMatch, taken_down, BusMatches, AppRecords, Layers,
      Places
<1>4. LockMatches'
  BY DEF Types, BusMatches, LockMatches, AppRecords, Places
<1>5. DiskMatches'
  BY DEF Types, LayersMatch, taken_down, BusMatches, LockMatches, DiskMatches,
      AppRecords, Places, Layers
<1>6. QED BY <1>1, <1>2, <1>3, <1>4, <1>5

\* The callbacks leave FatFs.
LEMMA DeinitDriveStep ==
  ASSUME LifeInv, DeinitDrive
  PROVE  LifeInv'
<1> USE DEF LifeInv, DeinitDrive, At, Goto, disk
<1>1. Types'
  BY DEF Types, AppRecords, Places, Layers
<1>2. LayersMatch'
  BY DEF Types, LayersMatch, taken_down, BusMatches, AppRecords, Layers,
      Places
<1>3. BusMatches'
  BY DEF Types, LayersMatch, taken_down, BusMatches, AppRecords, Layers,
      Places
<1>4. LockMatches'
  BY DEF Types, BusMatches, LockMatches, AppRecords, Places
<1>5. DiskMatches'
  BY DEF Types, LayersMatch, taken_down, BusMatches, LockMatches, DiskMatches,
      AppRecords, Places, Layers
<1>6. QED BY <1>1, <1>2, <1>3, <1>4, <1>5

\* Unregistration ends with no layer up.
LEMMA UnregisteredStep ==
  ASSUME LifeInv, Unregistered
  PROVE  LifeInv'
<1> USE DEF LifeInv, Unregistered, At, Quiet, frees_bus, disk
<1>1. Types'
  BY DEF Types, AppRecords, Places, Layers
<1>2. LayersMatch'
  BY DEF Types, LayersMatch, taken_down, BusMatches, AppRecords, Layers,
      Places
<1>3. BusMatches'
  BY DEF Types, LayersMatch, taken_down, BusMatches, AppRecords, Layers,
      Places
<1>4. LockMatches'
  BY DEF Types, BusMatches, LockMatches, AppRecords, Places
<1>5. DiskMatches'
  BY DEF Types, LayersMatch, taken_down, BusMatches, LockMatches, DiskMatches,
      AppRecords, Places, Layers
<1>6. QED BY <1>1, <1>2, <1>3, <1>4, <1>5

-----------------------------------------------------------------------------
(* Steps of the tasks that use files                                       *)

\* What a step of a file task leaves alone: the layers and the bus.
LEMMA FileStepLayers ==
  ASSUME LifeInv, FileStep
  PROVE  LayersMatch' /\ BusMatches'
BY DEF LifeInv, FileStep, LayersMatch, BusMatches

\* The callback is over: the lock is given back.
LEMMA EndFileStep ==
  ASSUME LifeInv, NEW t \in Files, file[t].op # "none", FileStep, EndFile(t)
  PROVE  /\ LockMatches'
         /\ file' \in [Files -> FileRecords]
         /\ fs_lock' = NOBODY
<1> USE DEF LifeInv, EndFile, FileStep
<1>1. NoFile \in FileRecords /\ NoFile.op = "none" /\ ~NoFile.in_map
  BY LifeAssumption DEF NoFile, FileRecords, Sectors
<1>2. file' \in [Files -> FileRecords]
  BY <1>1 DEF Types
<1>3. fs_lock = t
  BY DEF LockMatches
<1>4. \A u \in Files : file'[u].op = "none" /\ ~file'[u].in_map
  BY <1>1, <1>3, LifeAssumption DEF Types, LockMatches
<1>5. LockMatches'
  BY <1>4 DEF LockMatches
<1>6. QED BY <1>2, <1>3, <1>5

\* A file operation enters a block-device callback.
LEMMA BeginFileStep ==
  ASSUME LifeInv, NEW t \in Files, NEW op \in {"read", "write", "sync", "trim"},
         NEW v \in Values, BeginFile(t, op, v)
  PROVE  LifeInv'
<1> DEFINE first == IF op = "sync" THEN LastSector ELSE 1
           value == IF op = "write" THEN v ELSE EMPTY
           new == [NoFile EXCEPT !.op = op, !.sector = first, !.value = value]
<1> USE DEF LifeInv, FileStep, disk
<1>1. NoFile \in FileRecords /\ NoFile.in_map = FALSE
  BY LifeAssumption DEF NoFile, FileRecords, Sectors
<1>2. first \in 1 .. LastSector /\ value \in Values \cup {EMPTY}
  BY LifeAssumption
<1>3. file' = [file EXCEPT ![t] = new] /\ fs_lock' = t /\ fs_lock = NOBODY
      /\ "path" \in up /\ (QUIET => app.pc = "idle") /\ FileStep
      /\ UNCHANGED <<disk, faults>>
  BY DEF BeginFile, may_begin
<1> HIDE DEF first, value
<1>4. new \in FileRecords /\ new.op = op /\ new.sector \in 1 .. LastSector
      /\ new.in_map = FALSE
  <2>1. first \in Sectors /\ op \in {"none", "read", "write", "sync", "trim"}
    BY <1>2, LifeAssumption DEF Sectors
  <2>2. QED BY ONLY <1>1, <1>2, <2>1 DEF FileRecords
<1> HIDE DEF new
<1>5. Types'
  BY <1>3, <1>4 DEF Types
<1>6. LayersMatch' /\ BusMatches'
  BY <1>3, FileStepLayers
<1>7. LockMatches'
  <2>1. \A u \in Files : u # t => file'[u].op = "none" /\ ~file'[u].in_map
    BY <1>3, LifeAssumption DEF Types, LockMatches
  <2>2. QUIET => app.pc = "idle" /\ vfs.registered
    BY <1>3 DEF LayersMatch
  <2>3. QED BY <1>3, <1>4, <2>1, <2>2 DEF Types, LockMatches
<1>8. DiskMatches'
  BY <1>3 DEF DiskMatches
<1>9. QED BY <1>5, <1>6, <1>7, <1>8

\* A callback calls the map.
LEMMA CallMapStep ==
  ASSUME LifeInv, NEW t \in Files, CallMap(t)
  PROVE  LifeInv'
<1> USE DEF LifeInv
<1>1. FileStep /\ UNCHANGED <<disk, faults>> /\ file[t].op # "none"
  BY DEF CallMap
<1>2. LayersMatch' /\ BusMatches' /\ DiskMatches'
  BY <1>1, FileStepLayers DEF DiskMatches, disk, FileStep
<1>3. CASE EndFile(t)
  BY <1>1, <1>2, <1>3, EndFileStep DEF Types, disk, FileStep
<1>4. CASE file' = [file EXCEPT ![t].in_map = TRUE] /\ UNCHANGED fs_lock
  <2>1. file' \in [Files -> FileRecords]
    BY <1>4 DEF Types, FileRecords
  <2>2. \A u \in Files : file'[u].op = file[u].op /\ file'[u].sector = file[u].sector
    BY <1>4 DEF Types, FileRecords
  <2>3. LockMatches'
    BY <1>1, <1>4, <2>2 DEF Types, LockMatches, FileStep
  <2>4. QED BY <1>1, <1>2, <1>4, <2>1, <2>3 DEF Types, disk, FileStep
<1>5. QED BY <1>3, <1>4 DEF CallMap

\* The map has changed the sector of a file.
LEMMA ChangeSector ==
  ASSUME NEW t \in Files, LifeInv, file[t].op # "none"
  PROVE  LET d == [dict EXCEPT ![file[t].sector] = file[t].value]
         IN  d \in Contents /\ d[0] = dict[0]
<1>1. file[t].sector \in Sectors /\ file[t].sector # 0
      /\ file[t].value \in Values \cup {EMPTY}
  BY LifeAssumption DEF LifeInv, Types, FileRecords, LockMatches, Sectors
<1>2. dict \in Contents /\ 0 \in Sectors
  BY LifeAssumption DEF LifeInv, Types, Sectors
<1>3. QED BY <1>1, <1>2 DEF Contents

\* What the map does to its contents for a file: a change of the sector it is
\* at, nothing, or a synchronization.
LEMMA MapReturnsDisk ==
  ASSUME NEW t \in Files, LifeInv, MapReturns(t)
  PROVE  /\ FileStep
         /\ file[t].op # "none"
         /\ faults' \in {faults, faults + 1}
         /\ dict' \in Contents /\ durable' \in Contents
         /\ dirty' \in BOOLEAN /\ unsynced' \in BOOLEAN
         /\ DiskMatches'
<1> DEFINE d == [dict EXCEPT ![file[t].sector] = file[t].value]
<1>1. /\ FileStep /\ file[t].op # "none"
      /\ faults' \in {faults, faults + 1} /\ faults \in Nat
      /\ \/ Changes(d) \/ UNCHANGED disk \/ Synced
  BY DEF MapReturns, Fault, LifeInv, LockMatches, Types
<1>2. d \in Contents /\ d[0] = dict[0]
  BY <1>1, ChangeSector
<1>3. QUIET => app.pc = "idle" /\ "nand" \in up
  <2>1. QUIET => app.pc = "idle" /\ vfs.registered
    BY <1>1 DEF LifeInv, LockMatches
  <2>2. QED BY <2>1 DEF LifeInv, LayersMatch, taken_down, Layers
<1> HIDE DEF d
<1>4. CASE Changes(d)
  <2>1. /\ dict' \in Contents /\ durable' \in Contents
        /\ dirty' \in BOOLEAN /\ unsynced' \in BOOLEAN
    BY <1>2, <1>4 DEF Changes, LifeInv, Types
  <2>2. DiskMatches'
    BY <1>1, <1>2, <1>3, <1>4 DEF Changes, FileStep, LifeInv, DiskMatches
  <2>3. QED BY <1>1, <2>1, <2>2
<1>5. CASE UNCHANGED disk
  BY <1>1, <1>5 DEF disk, FileStep, LifeInv, Types, DiskMatches
<1>6. CASE Synced
  <2>1. /\ dict' \in Contents /\ durable' \in Contents
        /\ dirty' \in BOOLEAN /\ unsynced' \in BOOLEAN
    BY <1>6 DEF Synced, LifeInv, Types
  <2>2. DiskMatches'
    BY <1>1, <1>3, <1>6 DEF Synced, FileStep, LifeInv, DiskMatches
  <2>3. QED BY <1>1, <2>1, <2>2
<1>7. QED BY <1>1, <1>4, <1>5, <1>6

\* The map returns to a callback.
LEMMA MapReturnsStep ==
  ASSUME LifeInv, NEW t \in Files, MapReturns(t)
  PROVE  LifeInv'
<1>1. /\ FileStep /\ file[t].op # "none" /\ faults' \in {faults, faults + 1}
      /\ dict' \in Contents /\ durable' \in Contents
      /\ dirty' \in BOOLEAN /\ unsynced' \in BOOLEAN
      /\ DiskMatches'
  BY MapReturnsDisk
<1>2. LayersMatch' /\ BusMatches'
  BY <1>1, FileStepLayers
<1> USE DEF LifeInv
<1>3. CASE EndFile(t)
  BY <1>1, <1>2, <1>3, EndFileStep DEF Types, FileStep
<1>4. CASE /\ more(t)
           /\ file' = [file EXCEPT ![t].sector = @ + 1, ![t].in_map = FALSE]
           /\ UNCHANGED fs_lock
  <2>1. file[t].sector \in 1 .. LastSector /\ file[t].sector + 1 \in 1 .. LastSector
    BY <1>1, <1>4, LifeAssumption DEF LockMatches, more
  <2>2. file' \in [Files -> FileRecords]
    <3>1. file[t] \in FileRecords /\ file[t].sector + 1 \in Sectors
      BY <2>1, LifeAssumption DEF Types, Sectors
    <3>2. [file[t] EXCEPT !.sector = @ + 1, !.in_map = FALSE] \in FileRecords
      BY <3>1 DEF FileRecords
    <3>3. file' = [file EXCEPT ![t] =
                     [file[t] EXCEPT !.sector = @ + 1, !.in_map = FALSE]]
      BY <1>4 DEF Types
    <3>4. QED BY <3>2, <3>3 DEF Types
  <2>3. /\ file'[t].op = file[t].op /\ file'[t].sector = file[t].sector + 1
        /\ ~file'[t].in_map
        /\ \A u \in Files \ {t} : file'[u] = file[u]
    BY <1>4 DEF Types, FileRecords
  <2>4. LockMatches'
    BY <1>1, <1>4, <2>1, <2>3 DEF LockMatches, FileStep
  <2>5. QED BY <1>1, <1>2, <1>4, <2>2, <2>4 DEF Types, FileStep
<1>5. QED BY <1>3, <1>4 DEF MapReturns

\* Power fails: all layers are down, and the map is what is durable.
LEMMA CrashStep ==
  ASSUME LifeInv, Crash
  PROVE  LifeInv'
<1> USE DEF LifeInv, Crash, Quiet
<1>1. Types'
  <2>1. file' \in [Files -> FileRecords]
    BY LifeAssumption DEF FileRecords, NoFile, Sectors
  <2>2. vfs' \in [registered : BOOLEAN, owns_bus : BOOLEAN] /\ app' \in AppRecords
    BY DEF AppRecords, Places
  <2>3. crashes' \in Nat /\ bus' \in {"free", "ours", "theirs"}
    BY DEF Types
  <2>4. QED BY <2>1, <2>2, <2>3 DEF Types
<1>2. LayersMatch' /\ BusMatches'
  BY DEF Types, LayersMatch, BusMatches
<1>3. LockMatches'
  BY DEF LockMatches, NoFile
<1>4. DiskMatches'
  BY DEF DiskMatches
<1>5. QED BY <1>1, <1>2, <1>3, <1>4

-----------------------------------------------------------------------------
(* The invariant and what follows from it                                  *)

\* The invariant is inductive.
LEMMA NextInv == LifeInv /\ [LifeNext]_lifeVars => LifeInv'
<1> SUFFICES ASSUME LifeInv, [LifeNext]_lifeVars PROVE LifeInv'
  OBVIOUS
<1>1. CASE \E format, init_bus \in BOOLEAN : Register(format, init_bus)
  BY <1>1, RegisterStep
<1>2. CASE InitBus \/ InitDiskio \/ InitNand \/ ResumeMap \/ NoDisk
  BY <1>2, InitBusStep, InitDiskioStep, InitNandStep, ResumeMapStep, NoDiskStep
<1>3. CASE RegisterPath \/ Mount \/ MountAgain \/ Registered
  BY <1>3, RegisterPathStep, MountStep, MountAgainStep, RegisteredStep
<1>4. CASE FailPath \/ FailBus \/ Format \/ MakeTables \/ MakeBoot
  BY <1>4, FailPathStep, FailBusStep, FormatStep, MakeTablesStep, MakeBootStep
<1>5. CASE Unregister \/ DeinitSync \/ DeinitNand \/ DeinitDrive \/ Unregistered
  BY <1>5, UnregisterStep, DeinitSyncStep, DeinitNandStep, DeinitDriveStep,
     UnregisteredStep
<1>6. CASE \E t \in Files :
             \/ \E op \in {"read", "write", "sync", "trim"}, v \in Values :
                  BeginFile(t, op, v)
             \/ CallMap(t) \/ MapReturns(t)
  BY <1>6, BeginFileStep, CallMapStep, MapReturnsStep
<1>7. CASE Crash
  BY <1>7, CrashStep
<1>8. CASE UNCHANGED lifeVars
  BY <1>8 DEF LifeInv, Types, LayersMatch, BusMatches, LockMatches, DiskMatches,
     lifeVars, disk
<1>9. QED
  BY <1>1, <1>2, <1>3, <1>4, <1>5, <1>6, <1>7, <1>8 DEF LifeNext

\* Every step of registration, formatting, file operations and power failures
\* keeps LifeInv.
THEOREM LifeInvariance == LifeSpec => []LifeInv
BY InitInv, NextInv, PTL DEF LifeSpec

\* The variables of both layers keep their types (LifeTypeOK), whatever fails
\* in vfs_nand_register and the layers below it.
THEOREM LifeTypeCorrect == LifeSpec => []LifeTypeOK
<1>1. LifeInv => LifeTypeOK
  BY DEF LifeInv, Types, LifeTypeOK, FileRecords
<1>2. QED BY <1>1, LifeInvariance, PTL

\* A registration is all or nothing but for the entry of the volume in FatFs
\* (LayersTakenDown): every error path of vfs_nand_register, and
\* vfs_nand_unregister, takes down the other layers that are up, all of them,
\* and frees the bus if and only if it was initialized there.
THEOREM LayersAreTakenDown == LifeSpec => []LayersTakenDown
<1>1. LifeInv => LayersTakenDown
  BY DEF LifeInv, Types, LayersMatch, BusMatches, LayersTakenDown
<1>2. QED BY <1>1, LifeInvariance, PTL

\* If files are closed first, and if dhara_map_resume can read the journal, what
\* was written is durable once the driver is down, whatever has failed but the
\* synchronization of that shutdown (SyncedWhenDown): diskio_nand_dhara_deinit
\* synchronizes before it shuts down the driver, and nothing comes between.
THEOREM DownIsSynced ==
  ASSUME QUIET, ~RESUME_ERRORS
  PROVE  LifeSpec => []SyncedWhenDown
<1>1. LifeInv => SyncedWhenDown
  BY DEF LifeInv, DiskMatches, SyncedWhenDown
<1>2. QED BY <1>1, LifeInvariance, PTL

\* If dhara_map_resume can read the journal, vfs_nand_register formats only a
\* volume without a file system (FormatOnlyBlank), whatever other tasks do with
\* the volume between the mount and the format.
THEOREM FormatsOnlyBlank ==
  ASSUME ~RESUME_ERRORS
  PROVE  LifeSpec => []FormatOnlyBlank
<1>1. LifeInv => FormatOnlyBlank
  BY DEF LifeInv, DiskMatches, FormatOnlyBlank
<1>2. QED BY <1>1, LifeInvariance, PTL

\* If files are closed before the volume is formatted or left, the lock of
\* FatFs is enough for the map, which has none (MapSerialized).
THEOREM MapIsSerialized ==
  ASSUME QUIET
  PROVE  LifeSpec => []MapSerialized
<1>1. ASSUME LifeInv PROVE MapSerialized
  <2> DEFINE inside == {t \in Files : file[t].in_map}
  <2>1. \A t \in inside : file[t].op # "none" /\ fs_lock = t
    BY <1>1 DEF LifeInv, LockMatches
  <2>2. CASE app.pc \in in_map
    <3>1. inside = {}
      BY <1>1, <2>1, <2>2 DEF LifeInv, LockMatches, in_map
    <3>2. QED BY <2>2, <3>1, FS_EmptySet DEF MapSerialized
  <2>3. CASE app.pc \notin in_map
    <3>1. inside \in SUBSET {fs_lock}
      BY <2>1
    <3>2. IsFiniteSet({fs_lock}) /\ Cardinality({fs_lock}) = 1
      BY FS_Singleton
    <3>3. Cardinality(inside) <= 1 /\ Cardinality(inside) \in Nat
      BY <3>1, <3>2, FS_Subset, FS_CardinalityType
    <3>4. QED BY <2>3, <3>3 DEF MapSerialized
  <2>4. QED BY <2>2, <2>3
<1>2. QED BY <1>1, LifeInvariance, PTL

-----------------------------------------------------------------------------
(* Multi-sector writes                                                     *)

\* A step of the task that registers, and a power failure aside, ...
AppNext ==
  \/ \E format, init_bus \in BOOLEAN : Register(format, init_bus)
  \/ InitBus \/ InitDiskio \/ InitNand \/ ResumeMap \/ NoDisk
  \/ RegisterPath \/ Mount \/ MountAgain \/ Registered
  \/ FailPath \/ FailBus
  \/ Format \/ MakeTables \/ MakeBoot
  \/ Unregister \/ DeinitSync \/ DeinitNand \/ DeinitDrive \/ Unregistered

\* ... it does not change the map while a file operation is under way.
LEMMA AppNextDict ==
  ASSUME LifeInv, QUIET, AppNext
  PROVE  file' = file /\ (dict' = dict \/ \A t \in Files : file[t].op = "none")
<1>1. file' = file
  BY DEF AppNext, Register, InitBus, InitDiskio, InitNand, ResumeMap, NoDisk,
     RegisterPath, Mount, MountAgain, Registered, FailPath, FailBus, Format,
     MakeTables, MakeBoot, Unregister, DeinitSync, DeinitNand, DeinitDrive,
     Unregistered, At
<1>2. CASE app.pc # "idle"
  BY <1>1, <1>2 DEF LifeInv, LockMatches
<1>3. CASE app.pc = "idle"
  <2>1. \/ \E format, init_bus \in BOOLEAN : Register(format, init_bus)
        \/ Format \/ Unregister
    BY <1>3 DEF AppNext, InitBus, InitDiskio, InitNand, ResumeMap, NoDisk,
       RegisterPath, Mount, MountAgain, Registered, FailPath, FailBus,
       MakeTables, MakeBoot, DeinitSync, DeinitNand, DeinitDrive,
       Unregistered, At
  <2>2. QED BY <1>1, <2>1 DEF Register, Format, Unregister, disk
<1>4. QED BY <1>2, <1>3

\* The steps on which a file operation goes on or ends.
LEMMA FileSteps ==
  ASSUME LifeInv, QUIET, [LifeNext]_lifeVars
  PROVE  \/ file' = file /\ (dict' = dict \/ \A t \in Files : file[t].op = "none")
         \/ \E t \in Files : MapReturns(t)
         \/ \E t \in Files : CallMap(t) /\ dict' = dict
         \/ \E t \in Files, op \in {"read", "write", "sync", "trim"}, v \in Values :
              BeginFile(t, op, v) /\ dict' = dict
         \/ Crash
<1>1. CASE AppNext
  BY <1>1, AppNextDict
<1>2. CASE UNCHANGED lifeVars
  BY <1>2 DEF lifeVars, disk
<1>3. ASSUME NEW t \in Files, CallMap(t) PROVE dict' = dict
  BY <1>3 DEF CallMap, disk
<1>4. ASSUME NEW t \in Files, NEW op, NEW v, BeginFile(t, op, v) PROVE dict' = dict
  BY <1>4 DEF BeginFile, disk
<1>5. QED BY <1>1, <1>2, <1>3, <1>4 DEF LifeNext, AppNext

\* At first no write runs.
LEMMA InitWritten == LifeInit => WrittenSoFar
BY DEF LifeInit, WrittenSoFar, NoFile

\* At most one task is inside of an operation: the others are without.
LEMMA OneFile ==
  ASSUME LifeInv, NEW t \in Files, file[t].op # "none", NEW u \in Files \ {t}
  PROVE  file[u].op = "none"
BY DEF LifeInv, LockMatches

\* The sector that the map has just written.
LEMMA WrittenSector ==
  ASSUME LifeInv, WrittenSoFar, QUIET, NEW t \in Files, MapReturns(t),
         file[t].op = "write", faults' = faults
  PROVE  \A s \in 1 .. file[t].sector : dict'[s] = file[t].value
<1>1. file[t].sector \in 1 .. LastSector /\ dict \in Contents
  BY DEF LifeInv, Types, LockMatches
<1>2. dict' = [dict EXCEPT ![file[t].sector] = file[t].value]
  BY DEF MapReturns, Changes, Fault, LifeInv, Types
<1>3. \A s \in 1 .. file[t].sector : s \in Sectors
  BY <1>1, LifeAssumption DEF Sectors
<1>4. \A s \in 1 .. (file[t].sector - 1) : dict[s] = file[t].value
  BY DEF WrittenSoFar
<1>5. QED BY <1>1, <1>2, <1>3, <1>4, LifeAssumption DEF Contents

\* A write has always written the sectors before the one it is at.
LEMMA NextWritten ==
  LifeInv /\ WrittenSoFar /\ [LifeNext]_lifeVars => WrittenSoFar'
<1> SUFFICES ASSUME LifeInv, WrittenSoFar, [LifeNext]_lifeVars, QUIET
             PROVE  WrittenSoFar'
  BY DEF WrittenSoFar
<1>1. CASE file' = file /\ (dict' = dict \/ \A t \in Files : file[t].op = "none")
  BY <1>1 DEF WrittenSoFar
<1>2. ASSUME NEW t \in Files, MapReturns(t) PROVE WrittenSoFar'
  <2>1. /\ file[t].op # "none" /\ LifeInv'
        /\ \A u \in Files \ {t} : file'[u].op = "none"
    <3>1. file[t].op # "none"
      BY <1>2 DEF MapReturns, LifeInv, LockMatches
    <3>2. \A u \in Files \ {t} : file'[u] = file[u]
      BY <1>2 DEF MapReturns, EndFile, LifeInv, Types
    <3>3. QED BY <1>2, <3>1, <3>2, OneFile, NextInv
  <2>2. CASE file'[t].op = "none"
    BY <2>1, <2>2 DEF WrittenSoFar
  <2>3. CASE file'[t].op # "none"
    <3>1. /\ file' = [file EXCEPT ![t].sector = @ + 1, ![t].in_map = FALSE]
          /\ faults' = faults
      BY <1>2, <2>3 DEF MapReturns, EndFile, NoFile, LifeInv, Types
    <3>2. /\ file'[t].op = file[t].op /\ file'[t].value = file[t].value
          /\ file'[t].sector = file[t].sector + 1 /\ file[t].sector \in Nat
      BY <3>1 DEF LifeInv, Types, FileRecords, Sectors
    <3>3. CASE file[t].op = "write"
      <4>1. \A s \in 1 .. file[t].sector : dict'[s] = file[t].value
        BY <1>2, <3>1, <3>3, WrittenSector
      <4>2. \A s \in 1 .. (file'[t].sector - 1) : dict'[s] = file'[t].value
        BY <3>2, <4>1
      <4>3. QED BY <2>1, <4>2 DEF WrittenSoFar
    <3>4. CASE file[t].op # "write"
      BY <2>1, <3>2, <3>4 DEF WrittenSoFar
    <3>5. QED BY <3>3, <3>4
  <2>4. QED BY <2>2, <2>3
<1>3. ASSUME NEW t \in Files, CallMap(t), dict' = dict PROVE WrittenSoFar'
  <2>1. \A u \in Files : file'[u].op # "none" =>
          /\ file'[u].op = file[u].op /\ file'[u].value = file[u].value
          /\ file'[u].sector = file[u].sector
    BY <1>3 DEF CallMap, EndFile, NoFile, LifeInv, Types, FileRecords
  <2>2. QED BY <1>3, <2>1 DEF WrittenSoFar
<1>4. ASSUME NEW t \in Files, NEW op \in {"read", "write", "sync", "trim"},
             NEW v \in Values, BeginFile(t, op, v), dict' = dict
      PROVE  WrittenSoFar'
  <2>1. \A u \in Files \ {t} : file'[u] = file[u]
    BY <1>4 DEF BeginFile, LifeInv, Types
  <2>2. file'[t].op = "write" => file'[t].sector = 1
    BY <1>4 DEF BeginFile, LifeInv, Types, NoFile
  <2>3. QED BY <1>4, <2>1, <2>2 DEF WrittenSoFar
<1>5. CASE Crash
  BY <1>5 DEF Crash, NoFile, WrittenSoFar
<1>6. QED BY <1>1, <1>2, <1>3, <1>4, <1>5, FileSteps

\* A write over several sectors that reports success has written every one of
\* them, and no other operation has touched them since (WriteIsComplete):
\* disk_write calls the map sector by sector.
THEOREM WritesAreComplete ==
  ASSUME QUIET
  PROVE  LifeSpec => WriteIsComplete
<1> DEFINE Completes ==
      \A t \in Files :
        (file[t].op = "write" /\ file[t].in_map /\ file'[t].op = "none"
         /\ faults' = faults /\ crashes' = crashes) =>
           \A s \in Sectors \ {0} : dict'[s] = file[t].value
<1>1. LifeInv /\ WrittenSoFar /\ [LifeNext]_lifeVars => [Completes]_lifeVars
  <2> SUFFICES ASSUME LifeInv, WrittenSoFar, [LifeNext]_lifeVars,
                      NEW t \in Files, file[t].op = "write", file[t].in_map,
                      file'[t].op = "none", faults' = faults, crashes' = crashes,
                      NEW s \in Sectors \ {0}
               PROVE  dict'[s] = file[t].value
    OBVIOUS
  <2>1. MapReturns(t)
    <3>1. file' # file
      OBVIOUS
    <3>2. ~Crash
      BY DEF Crash, LifeInv, Types
    <3>3. \A u \in Files \ {t} : file[u].op = "none"
      BY OneFile
    <3>4. ASSUME NEW u \in Files, MapReturns(u) PROVE u = t
      BY <3>3, <3>4 DEF MapReturns, LifeInv, LockMatches
    <3>5. ASSUME NEW u \in Files, CallMap(u) PROVE FALSE
      BY <3>3, <3>5 DEF CallMap
    <3>6. ASSUME NEW u \in Files, NEW op, NEW v, BeginFile(u, op, v) PROVE FALSE
      BY <3>6, LifeAssumption DEF BeginFile, may_begin, LifeInv, LockMatches
    <3>7. QED BY <3>1, <3>2, <3>4, <3>5, <3>6, FileSteps
  <2>2. ~more(t)
    <3>1. faults' = faults /\ faults # faults + 1
      BY DEF LifeInv, Types
    <3>2. CASE file' = [file EXCEPT ![t].sector = @ + 1, ![t].in_map = FALSE]
      BY <3>2 DEF LifeInv, Types, FileRecords
    <3>3. QED BY <2>1, <3>1, <3>2 DEF MapReturns, Fault
  <2>3. file[t].sector = LastSector
    BY <2>2, LifeAssumption DEF more, LifeInv, LockMatches
  <2>4. QED BY <2>1, <2>3, WrittenSector, LifeAssumption DEF Sectors
<1>2. QED
  BY <1>1, LifeInvariance, InitWritten, NextWritten, PTL DEF LifeSpec, WriteIsComplete

=============================================================================
