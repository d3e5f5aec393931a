------------------------------- MODULE Driver -------------------------------
(***************************************************************************)
(* The MX35LF1 driver (mx35lf1_driver.c): tasks that share a handle call   *)
(* its functions, each of which is a sequence of SPI transfers under a     *)
(* recursive mutex.  A step is one transfer, one look at the status        *)
(* register, or one operation on the mutex.  A transfer may fail, the chip *)
(* may report a failure, and wait_ready may give up on a busy chip.        *)
(*                                                                         *)
(* The chip is external: its commands are modelled as the driver uses      *)
(* them.  While it is busy it answers nothing but a reset and a read of    *)
(* the status register.                                                    *)
(***************************************************************************)
EXTENDS Integers, Sequences, FiniteSets, SequencesExt

CONSTANTS
  Tasks,         \* tasks that share the handle
  num_blocks,    \* NAND_BLOCKS_PER_LUN
  ppb,           \* NAND_PAGES_PER_BLOCK
  Data,          \* contents of a page
  BLANK,         \* 0xff bytes
  GARBLED,       \* what ECC cannot correct
  Fns,           \* the functions that the tasks call
  MODES,         \* builds: with CONFIG_NAND_MX35_PROTECTED_MODE (TRUE) or without
  EXCLUSIVE,     \* nobody calls while the handle is set up or given up
  NOBODY,        \* no task
  MaxFaults      \* bound: failing transfers, timeouts and operations

ASSUME DriverAssumption ==
  /\ {num_blocks, ppb} \subseteq Nat \ {0}
  /\ EXCLUSIVE \in BOOLEAN /\ MODES \subseteq BOOLEAN
  /\ BLANK \notin Data /\ GARBLED \notin Data \cup {BLANK}
  /\ NOBODY \notin Tasks
  /\ Fns \subseteq {"init", "deinit", "page_program", "page_read", "page_copy",
                    "block_erase", "block_is_bad", "block_mark_bad",
                    "page_is_free", "clear"}
  /\ MaxFaults \in Nat

VARIABLES
  protected, \* the build
  handle,   \* h->initialized, and whether its lock and buffers exist
  lock,     \* the recursive mutex: owner and depth
  chip,     \* the chip: registers, cache, array and the job that runs
  task,     \* per task: function, position, arguments, results
  seen,     \* history: array and busy flag when the lock was taken
  faults    \* faults so far

driverVars == <<protected, handle, lock, chip, task, seen, faults>>

Rows == 0 .. (num_blocks * ppb - 1)

\* row & ~0x3F, and the rows of its block
first_row(row) == row - (row % ppb)
block_rows(row) == {r \in Rows : first_row(r) = first_row(row)}

\* A page: its main area, and whether its spare area has the bad-block mark.
Page(main, bad) == [main |-> main, bad |-> bad]
Blank == Page(BLANK, FALSE)
Pages == [main : Data \cup {BLANK, GARBLED}, bad : BOOLEAN]

-----------------------------------------------------------------------------
(* The chip                                                                *)

NoJob == [kind |-> "none", row |-> 0]

PowerOn == [oip |-> FALSE, wel |-> FALSE, prot |-> TRUE, status |-> {},
            cache |-> Blank, array |-> [r \in Rows |-> Blank], job |-> NoJob]

\* A busy chip ignores a command.
accepted(c) == IF chip.oip THEN chip ELSE c

\* Bits are only ever cleared: what is programmed twice is garbled.
programmed(old, new) ==
  Page(IF new.main = BLANK THEN old.main
       ELSE IF old.main \in {BLANK, new.main} THEN new.main ELSE GARBLED,
       old.bad \/ new.bad)

\* A job that has come to its end, well or badly.
finished(c, fails) ==
  LET r == c.job.row
      garbled(rows) == [x \in Rows |-> IF x \in rows
                          THEN [c.array[x] EXCEPT !.main = GARBLED]
                          ELSE c.array[x]]
      done == [c EXCEPT !.oip = FALSE, !.job = NoJob]
  IN  CASE c.job.kind = "read" ->
             [done EXCEPT !.cache = c.array[r],
                          !.status = IF c.array[r].main = GARBLED
                                     THEN @ \cup {"ECC_ERR"}
                                     ELSE @ \ {"ECC_ERR"}]
        [] c.job.kind = "program" /\ ~fails ->
             [done EXCEPT !.array[r] = programmed(@, c.cache),
                          !.wel = FALSE, !.status = @ \ {"P_FAIL"}]
        [] c.job.kind = "program" /\ fails ->
             [done EXCEPT !.array = garbled({r}),
                          !.status = @ \cup {"P_FAIL"}]
        [] c.job.kind = "erase" /\ ~fails ->
             [done EXCEPT !.array = [x \in Rows |->
                            IF x \in block_rows(r) THEN Blank ELSE @[x]],
                          !.wel = FALSE, !.status = @ \ {"E_FAIL"}]
        [] c.job.kind = "erase" /\ fails ->
             [done EXCEPT !.array = garbled(block_rows(r)),
                          !.status = @ \cup {"E_FAIL"}]

\* An operation starts: without WEL the command is ignored, in a protected
\* block it fails at once.
started(kind, row, failure) ==
  accepted(IF ~chip.wel THEN chip
           ELSE IF chip.prot THEN [chip EXCEPT !.status = @ \cup {failure}]
           ELSE [chip EXCEPT !.oip = TRUE,
                             !.job = [kind |-> kind, row |-> row]])

-----------------------------------------------------------------------------
(* The functions of the driver, as sequences of steps                      *)

write_begin == IF protected THEN <<"unlock_all_blocks">> ELSE <<>>
write_end == IF protected THEN <<"write_disable", "lock_all_blocks">>
             ELSE <<"write_disable_if_failed">>

nand_mx35lf1_page_program ==
  <<"NAND_LOCK">> \o write_begin
  \o <<"write_enable", "program_load", "program_execute", "wait_ready">>
  \o write_end \o <<"NAND_UNLOCK">>

nand_mx35lf1_page_read ==
  <<"NAND_LOCK", "page_read", "wait_ready", "read_from_cache", "NAND_UNLOCK">>

nand_mx35lf1_page_copy ==
  <<"NAND_LOCK", "page_read", "wait_ready">> \o write_begin
  \o <<"write_enable", "program_execute", "wait_ready">>
  \o write_end \o <<"NAND_UNLOCK">>

nand_mx35lf1_block_erase ==
  <<"NAND_LOCK">> \o write_begin
  \o <<"write_enable", "block_erase", "wait_ready">>
  \o write_end \o <<"NAND_UNLOCK">>

\* The mark is read from the first page of the block.
nand_mx35lf1_block_is_bad == nand_mx35lf1_page_read

\* A program of the mark into the spare area of the first page of the block.
nand_mx35lf1_block_mark_bad == nand_mx35lf1_page_program

\* The lock is taken twice.
nand_mx35lf1_page_is_free ==
  <<"NAND_LOCK">> \o nand_mx35lf1_page_read \o <<"NAND_UNLOCK">>

\* After "set_initialized" the function returns; what follows undoes it.
nand_mx35lf1_init ==
  <<"allocate", "add_device", "nand_reset", "wait_ready", "read_id">>
  \o (IF protected THEN <<"write_disable", "lock_all_blocks">>
      ELSE <<"unlock_all_blocks">>)
  \o <<"configure_ecc", "wait_ready", "verify_ecc",
       "set_initialized", "release_resources">>

\* Mutant: the resources are kept.
deinit_leaks == <<"NAND_LOCK", "clear_initialized", "NAND_UNLOCK">>

nand_mx35lf1_deinit ==
  <<"NAND_LOCK", "clear_initialized", "NAND_UNLOCK", "release_resources">>

plan(fn) ==
  CASE fn = "init" -> nand_mx35lf1_init
    [] fn = "deinit" -> nand_mx35lf1_deinit
    [] fn = "page_program" -> nand_mx35lf1_page_program
    [] fn = "page_read" -> nand_mx35lf1_page_read
    [] fn = "page_copy" -> nand_mx35lf1_page_copy
    [] fn = "block_erase" -> nand_mx35lf1_block_erase
    [] fn = "block_is_bad" -> nand_mx35lf1_block_is_bad
    [] fn = "block_mark_bad" -> nand_mx35lf1_block_mark_bad
    [] fn = "page_is_free" -> nand_mx35lf1_page_is_free

\* Mutants: a failed write goes straight to the unlock; a failure in a nested
\* call goes to the unlock of the outermost one.
cleanup_no_end(fn, i) ==
  LET p == plan(fn)
      goals == {k \in (i + 1) .. Len(p) :
                  p[k] \in {"NAND_UNLOCK", "release_resources"}}
  IN  CHOOSE k \in goals : \A l \in goals : k <= l
cleanup_outermost(fn, i) == Len(plan(fn))

\* Where a function goes on when its step i fails: a write that has been
\* enabled goes to write_end, everything else to the next unlock or undo.
cleanup(fn, i) ==
  LET p == plan(fn)
      ahead(names) == {k \in (i + 1) .. Len(p) : p[k] \in names}
      writing == /\ fn # "init"
                 /\ \E k \in 1 .. i : p[k] = "write_enable"
                 /\ ahead({Head(write_end)}) # {}
      goals == IF writing THEN ahead({Head(write_end)})
               ELSE ahead({"NAND_UNLOCK", "release_resources"})
  IN  CHOOSE k \in goals : \A l \in goals : k <= l

-----------------------------------------------------------------------------
(* Tasks                                                                   *)

\* clear is the block that nand_mx35lf1_clear is at, or -1 outside of it.
Idle == [fn |-> "none", at |-> 0, row |-> 0, src |-> 0, data |-> Blank,
         out |-> Blank, ret |-> "OK", clear |-> -1]

Unseen == [oip |-> FALSE, array |-> PowerOn.array]

DriverInit ==
  /\ protected \in MODES
  /\ handle = [initialized |-> FALSE, alive |-> FALSE]
  /\ lock = [owner |-> NOBODY, depth |-> 0]
  /\ chip = PowerOn
  /\ task = [t \in Tasks |-> Idle]
  /\ seen = Unseen
  /\ faults = 0

step_of(t) == IF task[t].fn = "none" THEN "none" ELSE plan(task[t].fn)[task[t].at]

\* Mutant: one block too many.
next_block_past(t) ==
  IF task[t].clear < num_blocks
    THEN [Idle EXCEPT !.fn = "block_is_bad", !.at = 1,
                      !.row = (task[t].clear + 1) * ppb,
                      !.clear = task[t].clear + 1]
    ELSE Idle

\* nand_mx35lf1_clear goes to the next block, or returns.
next_block(t) ==
  IF task[t].clear + 1 < num_blocks
    THEN [Idle EXCEPT !.fn = "block_is_bad", !.at = 1,
                      !.row = (task[t].clear + 1) * ppb,
                      !.clear = task[t].clear + 1]
    ELSE Idle

\* The function returns to its caller.
returned(t) ==
  IF task[t].clear = -1 \/ ~handle.initialized THEN Idle
  ELSE IF task[t].fn = "block_is_bad" /\ task[t].ret = "OK" /\ ~task[t].out.bad
    THEN [task[t] EXCEPT !.fn = "block_erase", !.at = 1]
    ELSE next_block(t)

Goto(t, k) == task' = [task EXCEPT ![t].at = k]
Advance(t) == Goto(t, task[t].at + 1)

\* The step has failed: the first error is the one that is returned.
Fail(t, err) ==
  task' = [task EXCEPT
             ![t].at = cleanup(task[t].fn, task[t].at),
             ![t].ret = IF @ = "OK" THEN err ELSE @]

Fault == faults < MaxFaults /\ faults' = faults + 1

\* One SPI transfer, after which the chip is c.
Transfer(t, step, c) ==
  /\ step_of(t) = step
  /\ \/ chip' = c /\ Advance(t) /\ UNCHANGED faults
     \/ Fault /\ Fail(t, "BAD_SPI") /\ UNCHANGED chip
  /\ UNCHANGED <<protected, handle, lock, seen>>

\* A task calls a function.  NAND_CHECK_HANDLE comes before the lock is taken,
\* and a call that fails it has no effect.
Begin(t, fn, row, src, data) ==
  /\ task[t].fn = "none"
  /\ fn \in Fns
  /\ handle.initialized = (fn # "init")
  /\ EXCLUSIVE =>
       /\ fn \in {"init", "deinit"} => \A u \in Tasks : task[u].fn = "none"
       /\ \A u \in Tasks : task[u].fn \notin {"init", "deinit"}
  /\ task' = [task EXCEPT ![t] =
       [Idle EXCEPT !.fn = IF fn = "clear" THEN "block_is_bad" ELSE fn,
                    !.at = 1,
                    !.row = CASE fn \in {"block_is_bad", "block_erase",
                                         "block_mark_bad"} -> first_row(row)
                              [] fn \in {"clear", "init", "deinit"} -> 0
                              [] OTHER -> row,
                    !.src = IF fn = "page_copy" THEN src ELSE 0,
                    !.data = CASE fn = "page_program" -> Page(data, FALSE)
                               [] fn = "block_mark_bad" -> Page(BLANK, TRUE)
                               [] OTHER -> Blank,
                    !.clear = IF fn = "clear" THEN 0 ELSE -1]]
  /\ UNCHANGED <<protected, handle, lock, chip, seen, faults>>

\* Mutant: the lock is not waited for.
may_lock_always(t) == TRUE

\* xSemaphoreTakeRecursive
may_lock(t) == lock.owner \in {NOBODY, t}

NAND_LOCK(t) ==
  /\ step_of(t) = "NAND_LOCK"
  /\ handle.alive
  /\ may_lock(t)
  /\ lock' = [owner |-> t, depth |-> lock.depth + 1]
  /\ seen' = IF lock.depth = 0 THEN [oip |-> chip.oip, array |-> chip.array]
             ELSE seen
  /\ Advance(t)
  /\ UNCHANGED <<protected, handle, chip, faults>>

\* xSemaphoreGiveRecursive, with the return that may follow.
NAND_UNLOCK(t) ==
  /\ step_of(t) = "NAND_UNLOCK"
  /\ handle.alive
  /\ lock' = IF lock.depth = 1 THEN [owner |-> NOBODY, depth |-> 0]
             ELSE [lock EXCEPT !.depth = @ - 1]
  /\ seen' = IF lock.depth = 1 THEN Unseen ELSE seen
  /\ IF task[t].at = Len(plan(task[t].fn))
       THEN task' = [task EXCEPT ![t] = returned(t)]
       ELSE Advance(t)
  /\ UNCHANGED <<protected, handle, chip, faults>>

-----------------------------------------------------------------------------
(* Transfers                                                               *)

write_enable(t) ==
  Transfer(t, "write_enable", accepted([chip EXCEPT !.wel = TRUE]))
write_disable(t) ==
  Transfer(t, "write_disable", accepted([chip EXCEPT !.wel = FALSE]))
unlock_all_blocks(t) ==
  Transfer(t, "unlock_all_blocks", accepted([chip EXCEPT !.prot = FALSE]))
lock_all_blocks(t) ==
  Transfer(t, "lock_all_blocks", accepted([chip EXCEPT !.prot = TRUE]))

\* Without the protected mode WEL is cleared only after a failure, and it is
\* no matter whether that succeeds.
write_disable_if_failed(t) ==
  \/ task[t].ret # "OK"
     /\ Transfer(t, "write_disable_if_failed",
                 accepted([chip EXCEPT !.wel = FALSE]))
  \/ /\ step_of(t) = "write_disable_if_failed" /\ task[t].ret = "OK"
     /\ Advance(t) /\ UNCHANGED <<protected, handle, lock, chip, seen, faults>>

program_load(t) ==
  Transfer(t, "program_load", accepted([chip EXCEPT !.cache = task[t].data]))
program_execute(t) ==
  Transfer(t, "program_execute", started("program", task[t].row, "P_FAIL"))
block_erase(t) ==
  Transfer(t, "block_erase", started("erase", task[t].row, "E_FAIL"))

page_read(t) ==
  Transfer(t, "page_read",
    accepted([chip EXCEPT !.oip = TRUE,
                          !.job = [kind |-> "read",
                                   row |-> IF task[t].fn = "page_copy"
                                           THEN task[t].src ELSE task[t].row]]))

read_from_cache(t) ==
  /\ step_of(t) = "read_from_cache"
  /\ \/ /\ task' = [task EXCEPT ![t].at = @ + 1, ![t].out = chip.cache]
        /\ UNCHANGED faults
     \/ Fault /\ Fail(t, "BAD_SPI")
  /\ UNCHANGED <<protected, handle, lock, chip, seen>>

\* The bit of the status register that the function looks at once the chip is
\* ready; init looks at none.
failure(t) ==
  LET command == plan(task[t].fn)[task[t].at - 1]
  IN  CASE command = "page_read" -> "ECC_ERR"
        [] command = "program_execute" -> "P_FAIL"
        [] command = "block_erase" -> "E_FAIL"
        [] OTHER -> "none"

\* wait_ready with the look at the status that follows it.
wait_ready(t) ==
  /\ step_of(t) = "wait_ready"
  /\ \/ /\ ~chip.oip /\ UNCHANGED faults
        /\ IF failure(t) \in chip.status THEN Fail(t, failure(t)) ELSE Advance(t)
     \/ Fault /\ Fail(t, "BAD_SPI")
     \/ chip.oip /\ Fault /\ Fail(t, "TIMEOUT")
  /\ UNCHANGED <<protected, handle, lock, chip, seen>>

\* The chip comes to the end of its job.
ChipReady ==
  /\ chip.oip
  /\ \/ chip' = finished(chip, FALSE) /\ UNCHANGED faults
     \/ chip.job.kind # "read" /\ Fault /\ chip' = finished(chip, TRUE)
  /\ UNCHANGED <<protected, handle, lock, task, seen>>

-----------------------------------------------------------------------------
(* Setting up the handle and giving it up                                  *)

\* Lock and buffers; a failure to get one releases the others.
allocate(t) ==
  /\ step_of(t) = "allocate"
  /\ handle' = [initialized |-> FALSE, alive |-> TRUE]
  /\ \/ Advance(t) /\ UNCHANGED faults
     \/ Fault /\ Fail(t, "NO_MEM")
  /\ UNCHANGED <<protected, lock, chip, seen>>

add_device(t) == Transfer(t, "add_device", chip)

\* A reset ends what the chip is doing.
nand_reset(t) ==
  Transfer(t, "nand_reset",
    [(IF chip.oip /\ chip.job.kind # "read" THEN finished(chip, TRUE) ELSE chip)
       EXCEPT !.oip = FALSE, !.job = NoJob, !.wel = FALSE, !.status = {}])

\* A wrong ID, or a wrong ECC bit that is read back, ends like a failure.
read_id(t) == Transfer(t, "read_id", chip)
configure_ecc(t) == Transfer(t, "configure_ecc", chip)
verify_ecc(t) == Transfer(t, "verify_ecc", chip)

set_initialized(t) ==
  /\ step_of(t) = "set_initialized"
  /\ handle' = [handle EXCEPT !.initialized = TRUE]
  /\ task' = [task EXCEPT ![t] = Idle]
  /\ UNCHANGED <<protected, lock, chip, seen, faults>>

clear_initialized(t) ==
  /\ step_of(t) = "clear_initialized"
  /\ handle' = [handle EXCEPT !.initialized = FALSE]
  /\ Advance(t)
  /\ UNCHANGED <<protected, lock, chip, seen, faults>>

release_resources(t) ==
  /\ step_of(t) = "release_resources"
  /\ handle' = [initialized |-> FALSE, alive |-> FALSE]
  /\ task' = [task EXCEPT ![t] = Idle]
  /\ UNCHANGED <<protected, lock, chip, seen, faults>>

-----------------------------------------------------------------------------
(* Specification                                                           *)

Step(t) ==
  \/ NAND_UNLOCK(t)
  \/ write_enable(t) \/ write_disable(t) \/ unlock_all_blocks(t)
  \/ lock_all_blocks(t) \/ write_disable_if_failed(t)
  \/ program_load(t) \/ program_execute(t) \/ block_erase(t)
  \/ page_read(t) \/ read_from_cache(t) \/ wait_ready(t)
  \/ allocate(t) \/ add_device(t) \/ nand_reset(t) \/ read_id(t)
  \/ configure_ecc(t) \/ verify_ecc(t)
  \/ set_initialized(t) \/ clear_initialized(t) \/ release_resources(t)

DriverNext ==
  \/ \E t \in Tasks :
       \/ \E fn \in Fns, row, src \in Rows, data \in Data :
            Begin(t, fn, row, src, data)
       \/ NAND_LOCK(t) \/ Step(t)
  \/ ChipReady

DriverSpec == DriverInit /\ [][DriverNext]_driverVars

-----------------------------------------------------------------------------
(* Properties                                                              *)

\* One type invariant: chip, lock and tasks in their ranges.
DriverTypeOK ==
  /\ handle \in [initialized : BOOLEAN, alive : BOOLEAN]
  /\ lock \in [owner : Tasks \cup {NOBODY}, depth : 0 .. 2]
  /\ chip.array \in [Rows -> Pages] /\ chip.cache \in Pages
  /\ chip.oip = (chip.job # NoJob)
  /\ \A t \in Tasks :
       /\ task[t].row \in Rows /\ task[t].src \in Rows
       /\ task[t].fn # "none" => task[t].at \in 1 .. Len(plan(task[t].fn))

\* What a function that succeeds makes of the array.
effect(t, array) ==
  LET r == task[t].row
  IN  CASE task[t].fn \in {"page_program", "block_mark_bad"} ->
             [array EXCEPT ![r] = programmed(@, task[t].data)]
        [] task[t].fn = "page_copy" ->
             [array EXCEPT ![r] = programmed(@, array[task[t].src])]
        [] task[t].fn = "block_erase" ->
             [x \in Rows |-> IF x \in block_rows(r) THEN Blank ELSE array[x]]
        [] OTHER -> array

\* The rows a function may touch.
touched(t) ==
  CASE task[t].fn = "block_erase" -> block_rows(task[t].row)
    [] task[t].fn \in {"page_program", "block_mark_bad", "page_copy"} ->
         {task[t].row}
    [] OTHER -> {}

\* What a call has done is its own work, whatever the other tasks do: if it
\* returns success, the array is what the call should make of it and what was
\* read is what was there; if not, no other row has changed.  (A call that
\* takes the lock while the chip is still busy with what an earlier one left
\* behind is excepted.)
CallsAreAtomic ==
  \A t \in Tasks :
    (step_of(t) = "NAND_UNLOCK" /\ lock.owner = t /\ ~seen.oip) =>
      /\ task[t].ret = "OK" =>
           /\ chip.array = effect(t, seen.array)
           /\ task[t].fn \in {"page_read", "page_is_free", "block_is_bad"} =>
                task[t].out = seen.array[task[t].row]
      /\ \A r \in Rows \ touched(t) : chip.array[r] = seen.array[r]

\* No single fault leaves the chip open to writes: outside of a call it is
\* write-disabled or protected, unless two faults have come together.
NoSingleFaultOpens ==
  (lock.owner = NOBODY /\ handle.initialized /\ chip.wel /\ ~chip.prot /\ ~chip.oip)
    => faults >= 2

\* Lock and buffers exist exactly as long as the handle is initialized, also
\* after an init that has failed half-way.
ResourcesMatch ==
  (\A t \in Tasks : task[t].fn = "none") => handle.alive = handle.initialized

\* The depth at which a task should hold the lock, by where it is.
held(t) ==
  LET passed(name) == {k \in 1 .. (task[t].at - 1) : plan(task[t].fn)[k] = name}
  IN  IF task[t].fn = "none" THEN 0
      ELSE Cardinality(passed("NAND_LOCK")) - Cardinality(passed("NAND_UNLOCK"))

\* The lock is held by the task that is between lock and unlock, as deep as it
\* is nested, and by nobody else: no error path keeps it or gives it too early.
LockMatchesCalls ==
  \A t \in Tasks : held(t) = IF lock.owner = t THEN lock.depth ELSE 0

\* A task that has passed NAND_CHECK_HANDLE finds lock and buffers until it
\* returns: "a handle can be shared between tasks".
NoUseAfterFree ==
  \A t \in Tasks : task[t].fn \notin {"none", "init", "deinit"} => handle.alive


TaskSymmetry == Permutations(Tasks)

=============================================================================
