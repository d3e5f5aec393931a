# A TLA+ verification of the NAND flash VFS for the MX35LF1

The repository is an ESP-IDF component that puts a FAT file system on a Macronix
MX35LF1 SPI-NAND chip. Its core is Dhara, a flash translation layer: a persistent
queue of pages in a ring of eraseblocks (the *journal*) with a radix tree of logical
sectors on top of it (the *map*). This directory models all layers from the chip to the
registration of the volume, checks them with TLC, and proves with TLAPS what matters most
for every value of the constants: what an erase may destroy in the journal, that the map
implements a durable dictionary, that calls of the driver are atomic, and what
each error path of the registration takes down.

## 1. The system

| Component | Source | State | Operations |
|---|---|---|---|
| Page geometry | `src/src/dhara/dhara/journal.c` 91–159 | none | `is_aligned`, `align_eq`, `next_block`, `next_upage`, `choose_ppc` |
| Journal | `journal.c`, `journal.h` | `struct dhara_journal` (epoch, bad-block counters, head, tail, tail_sync, root, recovery fields, flags) and the metadata buffer | init, resume, enqueue, copy, peek, dequeue, clear, read_meta, next_recoverable, size, capacity |
| Map | `map.c` | sector count, GC ratio | resume, find, read, write, copy, trim, sync, gc; recovery of the journal |
| NAND adaptation | `nand.c`, `nand.h` | none | is_bad, mark_bad, erase, prog, is_free, read, copy |
| Driver | `src/src/mx35lf1_driver.c` | handle: SPI device, DMA buffers, recursive lock | init, deinit, page program/read/copy, block erase, bad-block marker, page_is_free, clear |
| Disk I/O | `src/src/nand_diskio.c` | static context: map, buffers, status | initialise, status, read, write, ioctl |
| VFS | `src/src/nand_vfs.c` | registered flag, ownership of the SPI bus | register, unregister, format, info |
| ECC library, tests, tools, example | `src/src/dhara/{ecc,tests,tools}`, `src/example` | – | not part of the running component |

Calls go strictly downwards: VFS → disk I/O → map → journal → nand.c → driver → chip.
Answers that go upwards and change what happens next are the error codes
`E_BAD_BLOCK` (a program or erase failed), `E_RECOVER` (the journal needs its
client's help to empty a failed block), `E_ECC`, `E_JOURNAL_FULL` and `E_TOO_BAD`.

What is hard here:

* *power failure* between any two NAND commands and in the middle of one, with a
  restart that has to find the last checkpoint by binary search over blocks that may be
  bad, half erased, or left over from the previous turn of the ring;
* *failure of a program or an erase*, which turns a single enqueue into a recovery in
  which journal and map alternate, may fail again, and keep metadata on a
  page that only RAM knows of;
* *the ring at its limit*: the head may not reach the block of the last-synced tail,
  and bad blocks shorten the distance;
* *a tree without parents*: each write, trim and collected page rewrites a path of
  alt-pointers, and the number of mapped sectors is kept beside the tree;
* *a chip with state*: cache register, write-enable latch, block protection and
  busy bit are shared by tasks, and a command fails or times out half-way through a call;
* *layers set up one after the other*, each of which may fail;
* *arithmetic at the end of a group, a block and the chip*.

What makes each component correct: the geometry never confuses user pages with
checkpoint pages; the journal keeps what it accepted until its client releases it,
comes back to a checkpoint after a power failure, respects the programming rules of
the chip and ends its loops; the map maps each sector to the last page written for it;
the driver runs one command at a time and returns the chip to write protection; disk
I/O and VFS undo what they did when a later step fails. The hazards are listed with
their lines in `PROJECT.json`.

## 2. Modules

| Module | Models |
|---|---|
| `Geometry` | page arithmetic; `ppc` and `cpb` are the powers of two the code keeps as logarithms |
| `Nand` | the chip as `nand.c` and the driver present it to the journal: page contents, bad-block markers, and what program, erase, copy and the queries do, also when they fail |
| `JournalOps` | `struct dhara_journal` as a value, and the functions that only move its pointers and flags |
| `Journal` | the journal, one NAND command to a step, and its client; `Spec` and `Fairness` |
| `JournalHistory` | `Journal` with history variables: what was accepted, the last synchronization point, and what a recovery still owes; the properties about them |
| `Queue` | the journal as the map sees it: one attempt to append a page to a step |
| `Map` | the radix tree and all loops of `map.c`, on `Queue` |
| `Dictionary` | what the map promises: the abstract specification that `Map` implements |
| `Driver` | tasks in the functions of the driver, one SPI transfer or lock operation to a step, and the chip behind them |
| `Lifecycle` | disk I/O and VFS layer: registration, formatting, unregistration, and the block-device callbacks |
| `RingProofs` | lemmas on pages, groups and blocks; the order of pages along the ring and the size of a stretch of it |
| `JournalProofs`, `JournalHistoryProofs` | types, recovery state and size of the journal; on top of them, the ring order and what an erase spares |
| `TreeProofs`, `MapProofs` | the radix tree for every depth; on top of it, the invariant of the map and the refinement of `Dictionary` |
| `RecoveryProofs` | on top of `JournalHistoryProofs`: what a recovery hands out, the order of programming, that accepted pages stay intact, where the root is, which checkpoint a restart finds |
| `DriverProofs` | lock and handle of the driver; on top of them, what a call makes of the chip |
| `LifecycleProofs` | layers, bus, map lock and durability through registration and unregistration |

Two chains extend `Geometry` and `JournalOps`: `Nand`, `Journal`, `JournalHistory` on one side, `Queue` and
`Map` on the other; `Map` instantiates `Dictionary`. `Driver` and `Lifecycle` stand alone.

### The journal (`Journal`)

**State.** `page` and `marked` are the chip. `j` is `struct dhara_journal` with its flags
as Booleans, and `buf` the page buffer, reduced to the cookie and the metadata
slices. `pc`, `call` and `search` are control point, arguments and loop counters of
the running C function, `client` says whether `try_recover` is running.

**Data.** A user page is a value of `Data`, a metadata slice a value of `Meta` or
`NO_META` (0xff bytes). The header of a checkpoint page is kept field by field; the
epoch wraps at `EPOCHS` (256 in the code). Page numbers are below 2^32 by the chip's
size; `PAGE_NONE` stands for 0xffffffff and, like it, is the last page of its block.

**Actions.** A call is one step per NAND command, so that a power failure falls
between any two.

| Action | Code |
|---|---|
| `Enqueue`, `Copy`, `Pad`, `Gc`, `Clear` | the map's calls, up to the first NAND command; `prepare_head`'s check for a full journal is part of it |
| `SkipBad`, `EraseOk`, `EraseFails` | the loop of `prepare_head` |
| `PushMeta`, `Checkpoint`, `CheckpointFails` | `push_meta`, with `finish_recovery` |
| `DumpMeta` | `dump_meta` after its program has succeeded |
| `ProgramFails`, `EraseFails`, `CheckpointFails` | the failed command and all of `recover_from`: `restart_recovery`, the start of `dump_meta`, the retry loops |
| `CopyUnreadable` | `dhara_nand_copy` with an uncorrectable source |
| `Recover` | one iteration of `try_recover`, up to the NAND command of the copy it makes |
| `Crash` | power failure; the command under way may leave its page or block torn |
| `FindFirst`, `FindLast`, `FindGroup`, `FindHead` | `dhara_journal_resume`, one step per iteration of each search |

**The client.** `Journal` has the map's *protocol*, not its tree: which page is enqueued or
copied, which pages are garbage and when it collects are nondeterministic; that it
starts a recovery on `E_RECOVER` only, goes on until the journal has left recovery,
gives up on any other error, and stores its cookie before each write, is the code of
`raw_gc`, `pad_queue`, `try_recover`, `dhara_map_gc` and `dhara_map_sync`.

**The chip.** A page whose program or erase failed or was interrupted is *torn*: reading
it reports an ECC error. A power failure leaves the page either untouched or torn.
Programming a page that is not erased gives the new contents or a torn page.
Marking a block bad may fail without a trace. A torn first page makes the block count
as bad, as in `dhara_nand_is_bad`.

### The map (`Queue`, `Map`, `Dictionary`)

`Queue` holds, for each user page, its data and its metadata (sector and alt-pointers), and the
last checkpoint. `prepare_head`, `push_meta`, `recover_from`, `restart_recovery`, `dump_meta`,
`finish_recovery` and the result of `dhara_journal_resume` are operators on the record of
`JournalOps`; an attempt of `dhara_journal_enqueue` or `_copy` is the set of its outcomes
(`append`). `Queue` is the journal where `Journal` has shown it sound: programs do not fail
where section 4 says that metadata would be read from the wrong page or that there is no root to
recover, there is room to dump the metadata of an incomplete group (`can_fail`), and power does not
fail during a recovery. The page buffer, which decides whether metadata of an incomplete
group survives, appears as the rule of `Restarted` that those pages lose their metadata.

`Map` has one step per iteration of a loop. `pc` says which loop runs (`gc`: `dhara_map_gc`,
also under `auto_gc`; `do`: that of the call itself), `recovering` that it is in `try_recover`.
`trace_path` is a recursive function over the levels of the tree.

`Dictionary` is a function from sectors to contents, with a durable copy. Each call takes
effect in one step, the one in which it succeeds; a call that fails or that a power failure cuts
short has no effect; `sync` makes the dictionary durable; a restart returns to the durable copy.
The refinement mapping of `Map` reads both off the flash: `dict` is what `dhara_map_read`
finds for every sector from the journal's root, `durable` what it finds from the root of
the last checkpoint. So garbage collection, padding, recovery and the moves of pages must be
invisible, at every step.

### The driver (`Driver`)

Each public function is a sequence of named steps (`plan`), `cleanup` tells where it goes when one
fails. Every step is a transfer on the SPI bus, a look at the status register, or a lock
operation, and tasks interleave between any two. The chip is external: it keeps the cache
register, the write-enable latch, the block protection, the status bits and the job that
runs; while it is busy it ignores commands; a program without write-enable is ignored, one in
a protected block fails; what is programmed twice is garbled. A transfer that fails has not
reached the chip. Both builds (`CONFIG_NAND_MX35_PROTECTED_MODE`) are covered: `protected` is chosen
in the initial state. `nand_mx35lf1_clear` is the loop over `block_is_bad` and `block_erase`.

### Disk I/O and VFS (`Lifecycle`)

`up` is the set of layers that are set up: `ctx->in_use`, the callbacks in FatFs, the driver,
`ctx->ready`, the path in the VFS, and the entry of the volume in FatFs, which `f_mount` makes and nothing
removes. `unsynced` is a history variable: the `dhara_map_sync` of the last shutdown has failed. `app` is the task that registers, formats and unregisters, one
step per call it makes, with the `goto` chain of `vfs_nand_register` as control points; `file`
are tasks whose file operations end in `disk_read`, `disk_write`, `CTRL_SYNC` and `CTRL_TRIM`, one
call of the map per sector. The map is its dictionary, reduced to sector 0 (the volume) and
the sectors of a file. FatFs, the VFS and the SPI bus are external: `f_mount` looks at sector 0,
`f_mkfs` writes the tables and then sector 0, the lock of FatFs is held over a file operation
and not taken by registration.

## 3. Runs

All bounds are constants: `MaxFails`, `MaxCrashes`, `MaxFaults` and `MaxBad` limit the faults,
`Capacity` the queue the journal's client builds up, `MaxBB` the counter `bb_current` at which it
stops calling (the counter is otherwise unbounded). The smallest group with more than
one position is `ppc` = 4 (three user pages and their checkpoint). One group per block
makes every block boundary a group boundary; two groups per block are needed for
`find_last_group` and for a head in the middle of a block. Three blocks are the least
with room for head, tail and one between; a recovery needs a further block for the
pages it rescues. One group per block is not enough for a recovery: a restart then never leaves the
head inside a group, and no checkpoint is written before the recovery ends.

| Run | Instance | Shows |
|---|---|---|
| `journal_full` | 3 blocks, 1 failure, filler, GC at will | the ring order of tails, root and head, with everything accepted and everything the last synchronization point needs inside it; the size across the end of the chip; no erase of a block that is still needed |
| `journal_crash` | 4 blocks of 2 groups, 2 power failures | metadata is what was written; a restart finds the last checkpoint and its cookie; the head found can be programmed; garbage collection racing a power failure: nothing that is accepted or that the last checkpoint needs leaves the ring, and the root leaves with the page that is dequeued |
| `journal_crash_fail` | 4 blocks of 2 groups, 1 failure and 1 power failure | both, in either order, also during the recovery: a restart finds a checkpoint, also one the recovery has written on its way; every page of the failed block is handed out before it is marked bad; pages are programmed in order; what is accepted keeps its metadata as long as only one of the two has happened |
| `journal_live` | 3 blocks, one factory-bad, 2 failures, 1 power failure, 2 retries, copies | types and recovery state on all error paths; every call (also a copy of an unreadable page), restart and recovery ends |
| `map_crash` | 3 blocks, sectors 0–2 under 2 levels, two contents, write, trim, sync, gc, 1 power failure | the map implements `Dictionary`; the count is that of the tree, also of the durable one; live pages stay in the queue |
| `map_fail` | 5 blocks, 2 sectors, write, copy, clear, 1 failure | the same through a recovery; a recovery finds room for its copies and is not given up; nothing stays on a bad block; the journal never fills |
| `driver` | 2 tasks, 2 blocks, all functions, both builds, 1 fault | calls are atomic, locks are balanced, one fault never leaves the chip open to writes, init is all or nothing |
| `lifecycle` | 2 file tasks, 2 file sectors, 2 faults, 2 power failures | each error path takes down all layers but the entry in FatFs; shutdown is durable unless its own synchronization fails; no format over a file system; one caller in the map at a time; a multi-sector write is complete |

Notes on the instances:

* In `map_crash` two sectors share the first bit of their number, and the third differs: trimming has
  cousins at both levels and at none. `map_fail` has a capacity of two sectors after reserve and margin,
  so that automatic collection runs at every write. `EPOCHS` is 1 in both: no step of `Queue` compares epochs.
* `map_crash` and `map_fail` use the view `MapView`, which leaves out the contents of pages that are on no tree:
  all `raw_gc` finds out about such a page is that it is not on the tree. All properties are functions of the view
  but the part of `MapTypeOK` that types those pages, which section 5 proves. `map_crash` uses the symmetry of contents,
  `driver` that of tasks, `lifecycle` that of file tasks; none of the symmetric sets has a named element.
* `driver`: one page to a block is enough, as no function relates two pages of a block except
  the erase. `page_read`, `block_is_bad` and `block_erase` occur inside `page_is_free` and `clear`.
* `EXCLUSIVE` (nobody calls while the handle is set up or given up) holds in `driver` and is
  dropped in `driver_deinit`. `QUIET`: files are closed before the volume is
  formatted or left. `nand_vfs.h` asks for it before `vfs_nand_format` only ("Close every open file first");
  that an application also does so before `vfs_nand_unregister` is an assumption of this model.
  Without it `MapSerialized` fails at once: `vfs_nand_format` and the sync in
  `diskio_nand_dhara_deinit` enter the map beside a file operation.
  `RESUME_ERRORS` is on only in `io_error_formats`.
* `EPOCHS` of the journal runs is 2, the least that tells one turn of the ring from the next. Their metadata has
  one value besides `NO_META`; which page a slice belongs to is checked with distinct sectors in the map runs.
* Deadlock is checked everywhere but in `journal_full`, where the bound `MaxBB` stops the
  client of a full ring.
* `CallsAreAtomic` excepts calls that take the lock while the chip is still busy: after a timeout or a
  failed status read the driver returns with the chip at work, the next call's commands are ignored, and
  it may return success for something that was never done. The exception is what
  the driver does; a call that waited for the chip before its first command would not need it. It takes out
  most of the hazard of a timeout (mx35lf1_driver.c 190), of which `NoSingleFaultOpens` is left.
* `AcceptedIntact` fails when a failed command and a power failure come together (run `resume_is_intact`, and `RecoveryReadsMeta` in
  section 4). `journal_crash_fail` therefore checks `IntactUnlessBoth`: a failure alone, with a recovery that completes groups on its way, or
  a power failure alone.
* The ring of `journal_crash_fail` never fills (`Capacity` 4), so that `ProgramsInOrder` does not meet the full ring of section 4.
* A recovery that fails and starts again is in `journal_live`, on a ring that is too small to carry it to its end; theorem `RecoveriesAreComplete`
  covers what it hands out.
* `map_fail` has no power failure and no sync; those are in `map_crash`.

Each property of these runs has a mutant in `PROJECT.json`: a plausible slip in the code
(a guard that looks at the tail instead of the last-synced tail, an epoch that is not
compared, a cousin that keeps its pointer, an error path that skips `write_end`) that the run refutes.

**Fairness** (`Fairness`, in `HFairSpec`): weak fairness of `CallStep` (a call that has begun runs on),
`ResumeStep` (so does a restart) and `Recover` (the loop of `try_recover`). All of it is straight
sequential code that waits for nobody. The client is not obliged to call. `RecoveryEnds` is
claimed for recoveries that have a root, see section 4. The other specifications are checked for
safety only: the loops of `Map` are those of the journal's client, and tasks of the driver wait for
a mutex whose fairness is the scheduler's.

## 4. Where code and documents disagree

Four runs are expected to fail; the findings in `PROJECT.json` quote the statements.

| Run | What happens |
|---|---|
| `resume_is_intact` | A group is completed during a recovery, then power fails. The restart comes back to that checkpoint, but the metadata of the failed block's last group was on `recover_meta`, which only RAM knew of. |
| `driver_deinit` | A task has passed `NAND_CHECK_HANDLE` and waits for the lock; `nand_mx35lf1_deinit` gives the lock back and deletes it. |
| `io_error_formats` | The bus fails while the journal is read back: `dhara_map_resume` reports `E_TOO_BAD`, which is taken for blank media; the mount finds no file system and formats. (One fault stands for an outage over the up to 8 blocks that `find_checkblock` looks at.) |
| `volume_left` | Neither `vfs_nand_unregister` nor the undo of `vfs_nand_register` calls `f_mount(NULL, ...)`: FatFs keeps its pointer to the freed FATFS object, and the next `f_mount` uses it. What that use does to the memory is not modelled. |

The code does not keep these properties of `JournalHistory` either. They have no run of their own; the constants reproduce
the traces (the others as in `journal_crash`, the property as the only invariant).

| Property | Constants | What happens |
|---|---|---|
| `RecoveryReadsMeta` | `num_blocks` 3, `Capacity` 5, `MaxFails` 1, `MaxCrashes` 1 | A restart leaves the head in the middle of a group behind a torn page, the root in the group before. The next program fails: the dumped buffer belongs to the group of the head, but `read_meta` (journal.c 527) uses it for the group of `recover_root`; live pages read as filler and are not rescued (`ftl_nand.md` 292: "Valid pages are repacked into healthy blocks"). |
| `ProgramsInOrder` | `num_blocks` 3, `cpb` 1, `Calls` enqueue and gc, `Capacity` 9, `MaxFails` 1, `MaxCrashes` 0 | A program fails while the next block is that of the last-synced tail: `E_JOURNAL_FULL`, and the head stays on the failed page (journal.c 753), which the next call programs again; `nand.h` says pages "will not be reprogrammed". |
| `GarbageReadable` | `num_blocks` 3, `Capacity` 7, `MaxCrashes` 1 | A torn checkpoint page leaves its group in the queue with metadata that cannot be read; garbage collection reports `E_ECC` there for good (`ftl_nand.md` 288: "discarded cleanly"). |
| `RootInQueue` | `cpb` 1, `Calls` enqueue, copy, gc and pad, `Capacity` 12, `MaxFails` 3, `MaxCrashes` 0 | The client gives up a recovery (`DHARA_MAX_RETRIES`) after a second failure, then collects garbage until the tail is past `recover_root`; a third failure makes that page the root again (journal.c 694), and the root is behind the tail. |
| `RecoverableInChip` | `num_blocks` 3, `Calls` enqueue and gc, `Capacity` 5, `MaxFails` 1, `MaxCrashes` 0 | A program fails inside a block after garbage collection (or `dhara_journal_clear`) has emptied the queue: there is no root, and the recovery enumerates pages outside the chip. |

Read off the code or seen in traces, and not stated as a property:

* `bb_current` is incremented before `skip_block` refuses, so that calls repeated on a full ring count
  the same bad block again (journal.c 660, 752); when the ring is full while metadata is being
  dumped, the buffered metadata of the failed block is lost together with the call.
* `dhara_map_copy_sector` looks up its source once and then runs `auto_gc`, which may move the source and
  release its page. With `num_blocks` 3, `cpb` 1, `DEPTH` 1, `MAX_RETRIES` 1, `Sectors` {0, 1}, one content, `gc_ratio` 8, all
  operations and no faults, `Implements` fails: the head has gone round the chip within the one call, the page is erased, and the copy reads it. A call on the
  1024-block chip collects `gc_ratio` + 1 pages and cannot go round.
* `dhara_map_resume` has no error but `E_TOO_BAD`, so that the branches of `disk_initialize_dhara`
  for `reset_on_corrupt` and for refusing (nand_diskio.c 79–90) are never taken.
* `src/README.md` 78 speaks of a bad block table kept in RAM; the driver reads the mark each time.

## 5. Proofs

### Journal

`JournalProofs`, `JournalHistoryProofs` and `RecoveryProofs` hold for every geometry that satisfies
`GeometryAssumption`, every set of data, metadata and cookies, and any number of
failures and power failures.

* `TypeCorrect`: `Spec => []TypeOK`. Head, tail, last-synced tail and root are always user pages
  of the chip, never checkpoint pages, also after a restart; the searches stay inside
  the chip and the block.
* `RecoveryStateInvariant`: `Spec => []RecoveryState`. The recovery fields agree with the flags,
  with the control state and with what the client is doing.
* `Invariance`: `Spec => []Inv`, with `Inv == TypeOK /\ RecoveryState`.
* `SizeIsExact`: `Spec => []SizeCounts`. What `dhara_journal_size` computes from page numbers is the
  cardinality of the set of user pages from the last-synced tail to the head. The argument (lemma `QueueCount` of
  `RingProofs`) counts the user pages below a page by a bijection with an interval and
  splits a queue that wraps at the end of the chip.
* `RingIsOrdered` (`RingOrder`) and `ErasingSparesLivePages` (`EraseSparesLive`), for chips of two blocks or
  more: the claims about the history of the journal, from `OrderInvariant`.

Neither conjunct of `Inv` is inductive alone. That `recover_next` remains a page number the code can
handle needs the walk to stop at `recover_root`, which is what `RecoveryState` says of
`enum_done`; that the checkpoint page is a page of the chip needs the head to be the last
user page of its group at the control point `cp`; and `RecoveryState` needs the types of the
fields it compares. The proof has one lemma per action. Shared pieces of the code
(`prepare_head`, `recover_from`, the return to the client) have a lemma of their own, over the
split of `Inv` into what is stored (`StoreOK`) and where control is (`ControlOK`).
The first part of `RingProofs` supplies the arithmetic: quotient and remainder, user pages of a group, the
successor of a user page, the blocks of pages.

**The ring.** `prepare_head` compares two block numbers, and only with the tail that was last
synchronized. That this is enough depends on everything else that can move a pointer: the
skipping of bad blocks, a recovery that puts the root back, and a restart, which takes
tail, root and head from what it finds on the flash. The last is why `OrderInv` has to speak of the contents of pages.
It has five parts:

| Part | Says |
|---|---|
| `RingInv` | outside a restart, tail, root and (while it is in use) `recover_root` lie between the last-synced tail and the head, and the head is clear of the last-synced tail: when they share a block, the tail is not beyond the head |
| `PlaceInv` | a call that is about to erase or program has passed the check of `prepare_head`, and garbage collection dequeues from a queue that is not empty |
| `ListsInv` | accepted pages are in the queue; each synchronization point lies between the last-synced tail and the head |
| `FlashInv` | the tail stored in any checkpoint page is clear of that page in the same sense; groups of a block are filled in order; a synchronization point whose checkpoint is still readable has in it a tail that keeps all it needs, and if it needs a page of the block behind its root, the last two pages of the root's block are erased |
| `HeadInv` | the groups before the head are full and the pages behind it erased, so that `find_head` stops where the head was, or earlier; while `find_head` runs, it is on its way from the root whose checkpoint it found |

The clause about the last two pages is the case that is hard to see: the root's block is the one before the tail's, and if
`find_head` ran past its end it would enter the tail's block and move the tail forward, out of the queue that the
checkpoint describes. It cannot, because `prepare_head` has refused to leave that block, and a head that may not leave
never programs its last two pages (lemma `EndSpared`).

`RingProofs` has the order itself: *before* and *up to*, seen from a page along the ring, form a linear order
(`OrderTrans`), which a tail that moves forward (`TailMoves`) and a head that moves on or to the next block keep.
In `JournalHistoryProofs` the pieces that actions share have lemmas about flash contents (`WriteFlash`, `WipeFlash`,
`WritePoint`, ...) and about pointers (`OnwardRing`, `Advances`, `Retreats`), and one lemma per action combines them.

The hypothesis `num_blocks >= 2` is needed: with a single block the next block is the head's own, the check of
`prepare_head` never fires and the claims are false. The chip has 1024.
The lemma for the searches also showed that the cases of `Observe` overlapped in an earlier form of
`JournalHistory` (a power failure during a restart was both); they are disjoint now.

**Recoveries and contents.** `RecoveryProofs` adds five invariants to `Inv` and `OrderInv`, each for one property:

| Theorem | Property | Hypotheses |
|---|---|---|
| `OwedInvariant`, `RecoveriesAreComplete` | `OwedInv`; `RecoveryIsComplete` | none |
| `BlockInvariant` | `BlockInv` | none |
| `ProgramsAreInOrder` | `ProgramsInOrder` | `FailuresSkip` |
| `AcceptedPagesAreIntact`, `RestartsAreIntact` | `AcceptedIntact`; `ResumeIsIntact` | `FailuresSkip`, no recovery |
| `RootStaysInQueue` | `RootInQueue` | no recovery is given up |
| `RestartsComeBack` | `ResumeFindsCheckpoint` | `FailuresSkip`, no recovery, `GapsAreShort`, `SpareBlock`, `EPOCHS >= 2` |

All need `num_blocks >= 2`. The other hypotheses exclude what section 4 shows to break the property, and no more:
`FailuresSkip` says that no command fails while the last-synced tail is in the next block (there the call ends in
`E_JOURNAL_FULL` with the head on the torn page); `NoRecovery` that no failure falls inside a block (a recovery can lose the
metadata of the failed block's last group, traces `resume_is_intact` and `RecoveryReadsMeta`; failures at the first page of a block,
factory bad blocks and power failures at any moment remain); `NoneGivenUp` that `try_recover` has not returned with the
journal still in recovery (trace `RootInQueue`).

* `OwedInv`. `try_recover` is handed the pages of the failed block from its first page up to `recover_root`, by page number. That this
  covers what was accepted needs that no accepted page lies behind the root (`LastInv`), also when a restart has just
  chosen another root or `raw_gc` has dequeued past it; that no page is accepted into the block while it is recovered (`LeftInv`); and that
  ring order and page order agree inside a block (lemma `BeforeInBlock`).
* `BlockInv` and `BlankInv`. A head inside a block stands in a block that is not marked (`GoodHead`): the markers are written by recoveries, for
  the block they have left and for the block of dumped metadata, which `DumpPlace` keeps apart from the head's. A restart must not come back into
  such a block either, hence the clause about its searches. `BlankInv` is the stronger form of `Ahead` (part of `HeadInv`): the
  pages of the head's own group are erased from the head on, which a failure without `FailuresSkip` breaks.
* `IntactInv`. A page is intact if it can be read and its metadata is in the checkpoint of its group or, for the group of the head, in the
  buffer. It holds for accepted pages and for the last synchronization point; a restart moves what holds from the
  second to the first, and an erase or a program touches neither by the ring order.
* `RootedInv`. The root and the page a recovery would make the root again are in the queue and in usable blocks, since
  `dhara_journal_peek` may drop an unusable block from the tail. In a recovery nothing is dequeued.

* `FoundInv`. The restart finds its checkpoint by binary search over the blocks, then over the groups of one, comparing epochs; both searches need
  an order that nothing on the flash states. `PointFound`: the checkpoint of the synchronization point is the last one in its block; the checkpoints
  of usable blocks before it are of its epoch, those behind it of the epoch before. `HeadFollows`: since then the head has passed unusable
  blocks only, in the epoch that goes with its block, so that the next checkpoint keeps this order. `SearchFollows`: each iteration keeps the
  block, then the group, between the bounds (lemmas `FindFirstFound`, `FindLastFound`, `FindGroupFound`, `FindHeadFound`).
  `FindLast` compares epochs for equality only, so two epochs are enough (the code has 256).

The two other hypotheses of `RestartsComeBack` are needed too. `GapsAreShort`: from each block as far as that of the checkpoint `find_checkblock` comes to
one with a checkpoint within `DHARA_MAX_RETRIES` (journal.c 218). With `num_blocks` 3, `cpb` 1, `MAX_RETRIES` 1, `MaxBad` 1 and `MaxCrashes` 1 (the rest as
in `journal_crash`) TLC finds a restart that misses the checkpoint. `SpareBlock`: some usable block is not that of the synchronization point. With
`num_blocks` 2, `cpb` 1, `MaxBad` 1, `MaxCrashes` 1 and `Calls` enqueue and gc, TLC finds a journal that erases the block of its only checkpoint, once
garbage collection has emptied the queue; after a power failure the root and the cookie are gone, though no page.

`OwedInv` was found not to be inductive with an earlier form of `StartsRecovery` in `JournalHistory`: it also counted a failure that
ends in `E_JOURNAL_FULL` as the start of a recovery, and then forgot pages that were still owed. TLC has the trace with
`MaxFails` 2; the definition is corrected.

Assumptions: blocks, groups and retries are positive; a group has at least 4 pages (true of pages of 512
bytes and more, where `choose_ppc` fits three slices); `PAGE_NONE` is outside the chip and the last
page of its block; there is at least one epoch; `NO_META` is not a metadata value of the client.

### Map

`TreeProofs` and `MapProofs` hold for every depth of the tree, every set of sectors and contents,
every geometry of two blocks or more, every `gc_ratio` and retry limit, and any number of failures and
power failures (those that `Queue` has).

| Theorem | Says | Hypotheses |
|---|---|---|
| `MapInvariance`, `MapTypeCorrect` | the invariant `MapInv`; `MapTypeOK` | no recovery is given up |
| `CountIsExact` | `CountIsMapped`: the sector count, and the one in the last cookie, is that of the tree | no recovery is given up |
| `LiveStaysQueued` | `LiveIsQueued`: both trees are in the part of the ring the journal keeps | no recovery is given up |
| `BadBlocksAreEmpty` | `NothingOnBadBlocks` | no recovery is given up |
| `RecoveriesEnd` | `NoRecoveryGivenUp` | `MaxFails <= MAX_RETRIES`; a recovery finds room |
| `ExactWithRoom` | `CountIsMapped`, `LiveIsQueued`, `NothingOnBadBlocks` | the same |
| `ExactWithoutFailures` | `CountIsMapped` and `LiveIsQueued` | `MaxFails = 0` |
| `ImplementsDictionary` | `Implements`: each step is a step of `Dictionary` or a stutter | no recovery is given up; sources of copies stay |
| `ImplementsWithoutCopies` | `Implements` | no recovery is given up; no copies |
| `ImplementsWithoutFailures` | `Implements` | `MaxFails = 0`; no copies |

*The hypotheses.* "No recovery is given up" is `[]NoRecoveryGivenUp`, a property that run `map_fail` checks. It does not
hold for all constants: `try_recover` returns `E_TOO_BAD` after `DHARA_MAX_RETRIES` (map.c 341), or `E_JOURNAL_FULL`,
and leaves the journal in recovery; the root stays valid, but the next failure puts `recover_root` back
(section 4, `RootInQueue`) and what was written since is lost. So the claims are false without it, and the
theorems say that it is the only thing that can make them false. `RecoveriesEnd` reduces it to a matter of room: with at most `DHARA_MAX_RETRIES` failing commands, a recovery is carried to its end if
each of its steps finds a good block, and another one behind it should that page fail (`RoomToRecover`, which run `map_fail` checks).
The argument counts: each restart of a recovery is a failure, and so was its start. Without failing programs
there is no recovery, and nothing is supposed. That "sources of copies stay" (`SourceKept`) is needed because
`dhara_map_copy_sector` looks up its source once (map.c 478) and then collects garbage; section 4 has the trace. It holds in
all states of the instance of `map_fail`, which copies, and concerns no caller in this component: the disk I/O layer never copies sectors.

*The tree.* `trace_path` recurses over the levels. Its domain is bounded, so that what it computes can be
proved by the least level at which a claim fails (`SetInduction`, from `WFMin` of the library), without an induction
principle over operators. A tree is well formed (`IsTree`) if the page reached at each level agrees with the
target in the bits above it, and each alt-pointer leads to a page that does so and differs in its own bit. The main lemmas say what a new root
does to the function from sectors to pages: a written sector moves to the new page and all others
stay (`Rewrite`); the cousin that trim writes takes the place of itself and the trimmed sector goes (`Unmap`, `Graft`).

*The invariant.* `MapInv` relates four trees to the positions of the last-synced tail, the tail, the root and the head:
the current one, the one of the last checkpoint, the one a recovery started from, and what is
left of that one in the failed block.

| Part | Says |
|---|---|
| `RingOK` | last-synced tail, tail, root and head follow each other, and the head is clear of the last-synced tail |
| `TreeOK` | the current tree is well formed, between tail and root |
| `SavedOK` | so is that of the last checkpoint, as seen from its own tail and from the last-synced one; its root is the last user page of a group; its count is that of its tree |
| `CleanOK` | a journal that is not dirty is the one of the last checkpoint, and its head is where a restart would put it |
| `BadOK` | head, root and live pages are on no block marked bad |
| `RecOK` | a recovery's tree is still there, with the contents of the current one; neither the head nor the dumped metadata is in its blocks |
| `EnumOK` | the recovery has still to hand out every page of the current tree that is in the failed block |
| `CountOK`, `ControlOK` | the count; which loop runs for which call |

None of the properties is inductive. That live pages stay queued needs, at a dequeue, that a page which is not found
on the tree is not on it, hence `IsTree`; at a checkpoint, that the tree of the
checkpoint is the current one; at a restart, `SavedOK`, which therefore has to be kept while the tail moves on. That nothing is left on a bad block needs
`EnumOK`, which needs that each page rewritten by the recovery lands outside of the failed block, `Apart`. The proof has one
lemma per action and shares `Appended`, the outcomes of `append` in all loops.

*The refinement.* `InitRefines` and, for each action, a lemma that the step leaves `dict` and `durable` as
they are or changes them as the call of `Dictionary` does. The tree lemmas give `dict`; `durable` follows
from `SavedOK` where a checkpoint is written and from "nothing live is overwritten" elsewhere.

### Driver

`DriverProofs` holds for any number of tasks, blocks, pages per block and
faults, and for both builds.

* `DriverInvariance`, with `DriverTypeCorrect` and `LockMatches` (the properties `DriverTypeOK` and
  `LockMatchesCalls`), has no further hypothesis. `DriverInv` computes from the place of each task in
  its function how deep it holds the lock (`Depth`), and says that the lock is as deep as that; this
  is more than `LockMatchesCalls`, which does not tell that another task is *outside* of the lock. The
  work is in the clean-up paths: lemma `CleanupDepth` shows for every step that can fail that the
  step where the function goes on is at the same depth.
* `ResourcesAreReleased` (`ResourcesMatch`) and `ExclusiveIsEnough` (`NoUseAfterFree`) assume `EXCLUSIVE`:
  nobody calls while the handle is set up or given up. Without it `NoUseAfterFree` fails
  (run `driver_deinit`), so the theorem says how much is needed.
* `CallsWorkAlone` (`CallsAreAtomic`) and `OneFaultIsSafe` (`NoSingleFaultOpens`) assume it too. `CallInv` adds to `DriverInv`
  what chip and array are at each step of the function that holds the lock: how far a read has
  got (cache, then result), how far a write has got (latch, protection, cache, job, array). `SafeInv` adds when the chip
  can be write-enabled after at most one fault: only between the steps that enable and disable it, and
  only while a job runs elsewhere.

The steps of each function are data (`plan(fn)`); the first lemmas of `DriverProofs` read them off for both
builds. The model assumes that `Fns` names functions of the driver.

### Registration

`LifecycleProofs` holds for any number of file tasks, sectors, faults and power failures. `LifeInv` says for
every place of `vfs_nand_register`, `vfs_nand_unregister` and `vfs_nand_format` which layers are up, whose
the bus is, who may be in the map, and how far the durable contents are behind: the
properties speak of the ends of these functions only, and what is taken down there depends on all that was set up before.

* `LifeTypeCorrect`, `LayersAreTakenDown` (`LayersTakenDown`): no hypothesis. The entry of the volume in FatFs is excepted; run
  `volume_left` shows that it stays.
* `DownIsSynced` (`SyncedWhenDown`) assumes `QUIET` and that the journal can be read at a restart (`~RESUME_ERRORS`): with an
  error there the map starts empty beside what is on the chip. Any number of other faults may have happened; only a
  shutdown whose own `dhara_map_sync` has failed is excepted (`unsynced`).
* `MapIsSerialized` (`MapSerialized`) and the action property `WritesAreComplete` (`WriteIsComplete`) assume `QUIET`.
* `FormatsOnlyBlank` (`FormatOnlyBlank`) assumes that the journal can be read at a restart (`~RESUME_ERRORS`); run
  `io_error_formats` shows that it fails otherwise. It does not assume `QUIET`.

### What is not proved

Only model-checked:

* `ResumeFindsCheckpoint` for a chip with recoveries: the checkpoints a recovery writes stay candidates of the restart (`mids`), and
  `RestartsComeBack` excludes them; run `journal_crash_fail` checks it with one failure;
* of the map `NeverFull` and `RoomToRecover`: enough bad blocks fill any journal, and a bound
  in terms of capacity is a counting argument over a whole history that is not done;
* liveness (`CallsReturn`, `RecoveryEnds`), which is out of the prover's reach.

## 6. Not modelled, and the plan

Not modelled: the ECC library (not used by the component, and algebra on large tables), tests,
tools and examples; formatting of errors and byte order (pure conversions); `choose_ppc`, whose result
is the parameter `ppc`; the queries that change nothing (`get_info`, `vfs_nand_info`, `disk_status`, the size ioctls).
Driver errors other than failed programs, failed erases and ECC errors, which `nand.c` reports without
an error code, are modelled in `Journal` only where a page number outside the chip causes them. `Journal` and
`Queue` are not related by a refinement: they share `JournalOps`, and differ in
the page buffer and in the failures `Queue` leaves out.

Plan, in order:

1. *done*: `Geometry`, `Nand`, `Journal`, `JournalHistory`; types and recovery state proved.
2. *done*: `Queue`, `Map` against `Dictionary`; `Driver`; `Lifecycle`.
3. *done*: proofs of driver and registration.
4. *done*: proofs of `SizeCounts`, the ring order, and that an erase spares what is still needed.
5. *done*: the tree for every depth, the invariant of the map and its refinement of `Dictionary`.
6. *done*: proofs that recoveries are complete, that pages are programmed in order, that accepted pages stay intact, that the
   root stays in the queue (`RecoveryProofs`), and that recoveries end while there is room (`MapProofs`).
7. *done*: proof that a restart finds its checkpoint when no block is recovered (`RestartsComeBack`).
8. The same with recoveries, and a bound on the capacity that keeps the map from filling up, are not proved.
