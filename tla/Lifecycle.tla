----------------------------- MODULE Lifecycle ------------------------------
(***************************************************************************)
(* The block device and the VFS layer (nand_diskio.c, nand_vfs.c): setting *)
(* up and taking down the layers from the SPI bus to the FAT volume, and   *)
(* the block-device callbacks that file operations end in.                 *)
(*                                                                         *)
(* One task registers, unregisters and formats; others use files.  FatFs,  *)
(* the VFS and the SPI bus are external; FatFs serializes the operations   *)
(* on files with a lock that register and unregister do not take.  The map *)
(* is the dictionary it implements (module Dictionary): contents, and the  *)
(* contents a restart returns to, which follow at any time and at the      *)
(* latest when dhara_map_sync succeeds.                                    *)
(***************************************************************************)
EXTENDS Naturals, FiniteSets, TLC

CONSTANTS
  Files,          \* tasks that use files
  LastSector,     \* sectors 1 .. LastSector hold the file, sector 0 the volume
  Values,         \* contents of a file
  FAT,            \* contents of sector 0 of a formatted volume
  EMPTY,          \* contents of a sector that is not mapped
  NOBODY,         \* no task
  RESUME_ERRORS,  \* also the reads of dhara_map_resume may fail
  QUIET,          \* files are closed before the volume is formatted or left
  MaxFaults,      \* bound: failing calls of lower layers
  MaxCrashes      \* bound: power failures

ASSUME LifeAssumption ==
  /\ LastSector \in Nat \ {0}
  /\ FAT # EMPTY /\ EMPTY \notin Values
  /\ NOBODY \notin Files
  /\ {RESUME_ERRORS, QUIET} \subseteq BOOLEAN

VARIABLES
  bus,       \* the SPI bus: "free", "ours" or "theirs"
  up,        \* the layers that are set up, see Layers
  vfs,       \* s_registered and s_owns_bus
  app,       \* the task that registers: where it is, its arguments, its result
  file,      \* the tasks that use files: callback, sector, value, in the map
  fs_lock,   \* the lock of FatFs
  dict,      \* what the map holds
  durable,   \* what the map holds after a restart
  dirty,     \* the map has changed since the last synchronization
  unsynced,  \* history: the last diskio_nand_dhara_deinit failed to synchronize
  faults,    \* failing calls so far
  crashes    \* power failures so far

disk == <<dict, durable, dirty, unsynced>>
lifeVars == <<bus, up, vfs, app, file, fs_lock, disk, faults, crashes>>

Sectors == 0 .. LastSector
Contents == [Sectors -> Values \cup {FAT, EMPTY}]
Blank == [s \in Sectors |-> EMPTY]

\* ctx->in_use, the drive's callbacks in FatFs, the driver, ctx->ready, the
\* path in the VFS with the FATFS object that is allocated for it, and the
\* entry of that object in FatFs, made by f_mount.
Layers == {"in_use", "drive", "nand", "ready", "path", "volume"}

Quiet == [pc |-> "idle", format |-> FALSE, init_bus |-> FALSE,
          owns |-> FALSE]
NoFile == [op |-> "none", sector |-> 0, value |-> EMPTY, in_map |-> FALSE]

LifeInit ==
  /\ bus \in {"free", "theirs"}
  /\ up = {}
  /\ vfs = [registered |-> FALSE, owns_bus |-> FALSE]
  /\ app = Quiet
  /\ file = [t \in Files |-> NoFile]
  /\ fs_lock = NOBODY
  /\ dict = Blank
  /\ durable = Blank
  /\ dirty = FALSE
  /\ unsynced = FALSE
  /\ faults = 0
  /\ crashes = 0

Fault == faults < MaxFaults /\ faults' = faults + 1

Goto(pc) == app' = [app EXCEPT !.pc = pc]

\* A step of the task: it succeeds, and goes on at one place, or fails, and
\* goes on at another.
At(pc) == app.pc = pc /\ UNCHANGED <<file, fs_lock, crashes>>
Fails(pc) == Fault /\ Goto(pc) /\ UNCHANGED <<bus, up, vfs, disk>>

\* The map changes; the journal may have reached a checkpoint.
Changes(d) ==
  dict' = d /\ durable' \in {durable, d} /\ dirty' = TRUE /\ UNCHANGED unsynced

\* dhara_map_sync does nothing to a journal that is clean.
Synced ==
  /\ durable' = IF dirty THEN dict ELSE durable
  /\ dirty' = FALSE
  /\ UNCHANGED <<dict, unsynced>>

-----------------------------------------------------------------------------
(* vfs_nand_register                                                       *)

\* The arguments are valid, and the volume is not registered.
Register(format, init_bus) ==
  /\ At("idle")
  /\ ~vfs.registered
  /\ app' = [Quiet EXCEPT !.pc = "bus", !.format = format, !.init_bus = init_bus]
  /\ UNCHANGED <<bus, up, vfs, disk, faults>>

\* spi_bus_initialize: the bus may be somebody else's.
InitBus ==
  /\ At("bus")
  /\ \/ /\ bus = "free" /\ app.init_bus
        /\ bus' = "ours"
        /\ app' = [app EXCEPT !.pc = "diskio", !.owns = TRUE]
        /\ UNCHANGED <<up, vfs, disk, faults>>
     \/ /\ bus = "theirs" \/ ~app.init_bus
        /\ Goto("diskio") /\ UNCHANGED <<bus, up, vfs, disk, faults>>
     \/ /\ app.init_bus /\ bus = "free"
        /\ Fault /\ app' = Quiet /\ UNCHANGED <<bus, up, vfs, disk>>

\* diskio_nand_dhara_init
InitDiskio ==
  /\ At("diskio")
  /\ \/ "in_use" \in up /\ Goto("fail_bus") /\ UNCHANGED up
     \/ /\ "in_use" \notin up
        /\ up' = (up \ {"ready"}) \cup {"in_use", "drive"}
        /\ Goto("nand")
  /\ UNCHANGED <<bus, vfs, disk, faults>>

\* disk_initialize_dhara: the driver, which needs a bus ...
InitNand ==
  /\ At("nand")
  /\ \/ /\ bus # "free" /\ "nand" \notin up
        /\ up' = up \cup {"nand"} /\ Goto("resume")
        /\ UNCHANGED <<bus, vfs, disk, faults>>
     \/ bus # "free" /\ "nand" \notin up /\ Fails("no_disk")
     \/ /\ bus = "free" \/ "nand" \in up
        /\ Goto("no_disk") /\ UNCHANGED <<bus, up, vfs, disk, faults>>

\* ... and the map.  A journal that cannot be read looks like blank media:
\* dhara_map_resume gives up with DHARA_E_TOO_BAD, the only error it has.
ResumeMap ==
  /\ At("resume")
  /\ up' = up \cup {"ready"}
  /\ Goto("path")
  /\ \/ dict' = durable /\ UNCHANGED faults
     \/ RESUME_ERRORS /\ Fault /\ dict' = Blank
  /\ dirty' = FALSE /\ unsynced' = FALSE
  /\ UNCHANGED <<bus, vfs, durable>>

NoDisk ==
  /\ At("no_disk")
  /\ up' = up \ {"drive", "in_use"}
  /\ Goto("fail_bus")
  /\ UNCHANGED <<bus, vfs, disk, faults>>

\* esp_vfs_fat_register_cfg
RegisterPath ==
  /\ At("path")
  /\ \/ /\ up' = up \cup {"path"} /\ Goto("mount")
        /\ UNCHANGED <<bus, vfs, disk, faults>>
     \/ Fails("sync")

\* Mutant: any mount error is taken for a missing file system.
no_filesystem_any(fr) == fr # "OK"

\* The volume may be formatted.
no_filesystem(fr) == fr = "NO_FILESYSTEM"

\* f_mount enters the FATFS object in FatFs, and then looks at the volume.
f_mount(fr) ==
  /\ up' = up \cup {"volume"}
  /\ \/ fr = "OK" /\ dict[0] = FAT /\ UNCHANGED faults
     \/ fr = "NO_FILESYSTEM" /\ dict[0] # FAT /\ UNCHANGED faults
     \/ fr = "DISK_ERR" /\ Fault

Mount ==
  /\ At("mount")
  /\ \E fr \in {"OK", "NO_FILESYSTEM", "DISK_ERR"} :
       /\ f_mount(fr)
       /\ \/ fr = "OK" /\ Goto("registered")
          \/ fr # "OK" /\ no_filesystem(fr) /\ app.format /\ Goto("mkfs")
          \/ fr # "OK" /\ ~(no_filesystem(fr) /\ app.format) /\ Goto("fail_path")
  /\ UNCHANGED <<bus, vfs, disk>>

MountAgain ==
  /\ At("mount_again")
  /\ \E fr \in {"OK", "NO_FILESYSTEM", "DISK_ERR"} :
       /\ f_mount(fr)
       /\ Goto(IF fr = "OK" THEN "registered" ELSE "fail_path")
  /\ UNCHANGED <<bus, vfs, disk>>

Registered ==
  /\ At("registered")
  /\ vfs' = [registered |-> TRUE, owns_bus |-> app.owns]
  /\ app' = Quiet
  /\ UNCHANGED <<bus, up, disk, faults>>

\* esp_vfs_fat_unregister_path frees the FATFS object with the path; nobody
\* calls f_mount to take the object out of FatFs.
FailPath ==
  /\ At("fail_path")
  /\ up' = up \ {"path"}
  /\ Goto("sync")
  /\ UNCHANGED <<bus, vfs, disk, faults>>

\* The bus is freed by whom it belongs to; spi_bus_free refuses while a device
\* is on the bus.
frees_bus == IF vfs.registered THEN vfs.owns_bus ELSE app.owns

FailBus ==
  /\ At("fail_bus")
  /\ bus' = IF frees_bus /\ "nand" \notin up THEN "free" ELSE bus
  /\ app' = Quiet
  /\ UNCHANGED <<up, vfs, disk, faults>>

-----------------------------------------------------------------------------
(* Formatting                                                              *)

\* The application has closed its files: what nand_vfs.h asks for before
\* vfs_nand_format, and this model before vfs_nand_unregister as well.
closed == QUIET => \A t \in Files : file[t].op = "none"

\* vfs_nand_format, by the user
Format ==
  /\ At("idle") /\ closed
  /\ "nand" \in up
  /\ Goto("user_mkfs")
  /\ UNCHANGED <<bus, up, vfs, disk, faults>>

\* f_mkfs writes the tables first (or there is no memory for its buffer) ...
MakeTables ==
  /\ At(app.pc) /\ app.pc \in {"mkfs", "user_mkfs"}
  /\ \/ /\ Changes(Blank)
        /\ Goto(IF app.pc = "mkfs" THEN "boot" ELSE "user_boot")
        /\ UNCHANGED <<bus, up, vfs, faults>>
     \/ Fails(IF app.pc = "mkfs" THEN "fail_path" ELSE "idle")

\* ... and then sector 0, with a CTRL_SYNC.
MakeBoot ==
  /\ At(app.pc) /\ app.pc \in {"boot", "user_boot"}
  /\ \/ /\ dict' = [dict EXCEPT ![0] = FAT] /\ durable' = dict'
        /\ dirty' = FALSE /\ UNCHANGED unsynced
        /\ app' = IF app.pc = "boot" THEN [app EXCEPT !.pc = "mount_again"]
                  ELSE Quiet
        /\ UNCHANGED <<bus, up, vfs, faults>>
     \/ Fails(IF app.pc = "boot" THEN "fail_path" ELSE "idle")

-----------------------------------------------------------------------------
(* vfs_nand_unregister, and the undo of a registration                     *)

Unregister ==
  /\ At("idle") /\ closed
  /\ vfs.registered
  /\ up' = up \ {"path"}
  /\ Goto("sync")
  /\ UNCHANGED <<bus, vfs, disk, faults>>

\* Mutant: the map is not synchronized.
DeinitSync_none ==
  At("sync") /\ Goto("nand_deinit") /\ UNCHANGED <<bus, up, vfs, disk, faults>>

\* diskio_nand_dhara_deinit: sync, whose failure is only reported, ...
DeinitSync ==
  /\ At("sync")
  /\ \/ "ready" \in up /\ Synced /\ Goto("nand_deinit")
        /\ UNCHANGED <<bus, up, vfs, faults>>
     \/ /\ "ready" \in up
        /\ Fault /\ unsynced' = TRUE /\ Goto("nand_deinit")
        /\ UNCHANGED <<bus, up, vfs, dict, durable, dirty>>
     \/ "ready" \notin up /\ Goto("drive")
        /\ UNCHANGED <<bus, up, vfs, disk, faults>>

\* Mutant: the driver is left as it is.
deinit_layers_keeps_nand == {"ready"}

\* ... ready is reset and the driver is shut down, ...
deinit_layers == {"ready", "nand"}
DeinitNand ==
  /\ At("nand_deinit")
  /\ up' = up \ deinit_layers
  /\ Goto("drive")
  /\ UNCHANGED <<bus, vfs, disk, faults>>

\* ... and the drive is given back.
DeinitDrive ==
  /\ At("drive")
  /\ up' = up \ {"drive", "in_use"}
  /\ Goto(IF vfs.registered THEN "unregistered" ELSE "fail_bus")
  /\ UNCHANGED <<bus, vfs, disk, faults>>

Unregistered ==
  /\ At("unregistered")
  /\ bus' = IF frees_bus /\ "nand" \notin up THEN "free" ELSE bus
  /\ vfs' = [registered |-> FALSE, owns_bus |-> FALSE]
  /\ app' = Quiet
  /\ UNCHANGED <<up, disk, faults>>

-----------------------------------------------------------------------------
(* Files: the callbacks of the block device                                *)

\* Mutant: FatFs does not serialize.
may_begin_always(t) == "path" \in up

\* A file operation begins with the lock of FatFs.
may_begin(t) == "path" \in up /\ fs_lock = NOBODY

FileStep == UNCHANGED <<bus, up, vfs, app, crashes>>

BeginFile(t, op, value) ==
  /\ FileStep
  /\ file[t].op = "none"
  /\ may_begin(t)
  /\ QUIET => app.pc = "idle"
  /\ file' = [file EXCEPT ![t] =
       [NoFile EXCEPT !.op = op, !.sector = IF op = "sync" THEN LastSector ELSE 1,
                      !.value = IF op = "write" THEN value ELSE EMPTY]]
  /\ fs_lock' = t
  /\ UNCHANGED <<disk, faults>>

EndFile(t) ==
  /\ file' = [file EXCEPT ![t] = NoFile]
  /\ fs_lock' = IF fs_lock = t THEN NOBODY ELSE fs_lock

\* The checks at the top of disk_read, disk_write and disk_ioctl.
usable == {"in_use", "ready"} \subseteq up

\* The callback calls the map for its next sector.
CallMap(t) ==
  /\ FileStep
  /\ file[t].op # "none" /\ ~file[t].in_map
  /\ \/ usable /\ file' = [file EXCEPT ![t].in_map = TRUE] /\ UNCHANGED fs_lock
     \/ ~usable /\ EndFile(t)
  /\ UNCHANGED <<disk, faults>>

\* Mutants: the last sector is left out; one sector too many.
more_early(t) == file[t].sector + 1 < LastSector
more_past(t) == file[t].sector <= LastSector

\* There are sectors left.
more(t) == file[t].sector < LastSector

\* The map returns: on to the next sector, or back to FatFs with the first
\* error.
MapReturns(t) ==
  /\ FileStep
  /\ file[t].in_map
  /\ \/ /\ UNCHANGED faults
        /\ \/ /\ file[t].op \in {"write", "trim"}
              /\ Changes([dict EXCEPT ![file[t].sector] = file[t].value])
           \/ file[t].op = "read" /\ UNCHANGED disk
           \/ file[t].op = "sync" /\ Synced
        /\ \/ /\ more(t)
              /\ file' = [file EXCEPT ![t].sector = @ + 1, ![t].in_map = FALSE]
              /\ UNCHANGED fs_lock
           \/ ~more(t) /\ EndFile(t)
     \/ Fault /\ EndFile(t) /\ UNCHANGED disk

\* Power fails.
Crash ==
  /\ crashes < MaxCrashes
  /\ crashes' = crashes + 1
  /\ bus' = IF bus = "ours" THEN "free" ELSE bus
  /\ up' = {}
  /\ vfs' = [registered |-> FALSE, owns_bus |-> FALSE]
  /\ app' = Quiet
  /\ file' = [t \in Files |-> NoFile]
  /\ fs_lock' = NOBODY
  /\ dict' = durable /\ dirty' = FALSE /\ unsynced' = FALSE
  /\ UNCHANGED <<durable, faults>>

-----------------------------------------------------------------------------
(* Specification                                                           *)

LifeNext ==
  \/ \E format, init_bus \in BOOLEAN : Register(format, init_bus)
  \/ InitBus \/ InitDiskio \/ InitNand \/ ResumeMap \/ NoDisk
  \/ RegisterPath \/ Mount \/ MountAgain \/ Registered
  \/ FailPath \/ FailBus
  \/ Format \/ MakeTables \/ MakeBoot
  \/ Unregister \/ DeinitSync \/ DeinitNand \/ DeinitDrive \/ Unregistered
  \/ \E t \in Files :
       \/ \E op \in {"read", "write", "sync", "trim"}, v \in Values :
            BeginFile(t, op, v)
       \/ CallMap(t) \/ MapReturns(t)
  \/ Crash

LifeSpec == LifeInit /\ [][LifeNext]_lifeVars

-----------------------------------------------------------------------------
(* Properties                                                              *)

\* One type invariant: layers, contents and callbacks in their ranges.
LifeTypeOK ==
  /\ bus \in {"free", "ours", "theirs"}
  /\ up \subseteq Layers
  /\ vfs \in [registered : BOOLEAN, owns_bus : BOOLEAN]
  /\ dict \in Contents /\ durable \in Contents
  /\ {dirty, unsynced} \subseteq BOOLEAN
  /\ fs_lock \in Files \cup {NOBODY}
  /\ \A t \in Files : file[t].sector \in Sectors

\* Registration is all or nothing, but for the entry of the volume in FatFs: a
\* volume that is registered has all its layers, and a registration that has
\* failed anywhere, or an unregistration, gives back the bus and every layer
\* that vfs_nand_register and diskio_nand_dhara_init undo.
LayersTakenDown ==
  app.pc = "idle" =>
    /\ vfs.registered => up = Layers /\ bus # "free" /\ vfs.owns_bus = (bus = "ours")
    /\ ~vfs.registered => up \subseteq {"volume"} /\ bus # "ours"

\* vfs_nand_unregister unmounts the volume ("Unmount vfs nand", says the example
\* where it calls it): at its end FatFs has no pointer left to the FATFS object
\* that was freed with the path.
Unmounted == app.pc = "unregistered" => "volume" \notin up

\* What was written before the driver is shut down is found by the next
\* registration, whatever else has failed, unless the synchronization before
\* that shutdown has.
SyncedWhenDown == ("nand" \notin up /\ ~unsynced) => durable = dict

\* A registration formats only a volume without a file system: "I/O or ECC
\* errors never trigger a format".
FormatOnlyBlank == app.pc = "mkfs" => durable[0] # FAT

\* A multi-sector write that succeeds has written all of its sectors, and
\* nothing has come between them.
WriteIsComplete ==
  [][\A t \in Files :
       (file[t].op = "write" /\ file[t].in_map /\ file'[t].op = "none"
        /\ faults' = faults /\ crashes' = crashes) =>
          \A s \in Sectors \ {0} : dict'[s] = file[t].value]_lifeVars

\* The steps of the application that are inside of the map.
in_map == {"resume", "mount", "mount_again", "mkfs", "boot", "user_mkfs",
           "user_boot", "sync"}

\* The map, which has no lock of its own, is never entered twice.
MapSerialized ==
  Cardinality({t \in Files : file[t].in_map})
    + (IF app.pc \in in_map THEN 1 ELSE 0) <= 1

FileSymmetry == Permutations(Files)

=============================================================================
