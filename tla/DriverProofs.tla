---------------------------- MODULE DriverProofs ----------------------------
(***************************************************************************)
(* The MX35LF1 driver: proofs about the lock, the handle and the types,    *)
(* for every number of tasks, blocks, pages and faults, in both builds.    *)
(*                                                                         *)
(* What a function does at its step i is plan(fn)[i]; the first part of    *)
(* this module says so function by function, and where a step that fails   *)
(* goes on (cleanup).  Depth(fn, i) is how deep the lock is held there.    *)
(* The inductive invariant DriverInv says that the lock is as deep as the  *)
(* places of the tasks tell (LockOK) and relates the handle to init and    *)
(* deinit (HandleOK).                                                      *)
(***************************************************************************)
EXTENDS Driver, FiniteSetTheorems, TLAPS

-----------------------------------------------------------------------------
(* The functions of the driver, step by step                               *)

Names == {"init", "deinit", "page_program", "page_read", "page_copy",
          "block_erase", "block_is_bad", "block_mark_bad", "page_is_free"}

\* nand_mx35lf1_page_read and nand_mx35lf1_block_is_bad
LEMMA ReadPlan ==
  ASSUME NEW fn \in {"page_read", "block_is_bad"}
  PROVE  LET p == plan(fn) IN
         /\ Len(p) = 5
         /\ p[1] = "NAND_LOCK" /\ p[2] = "page_read" /\ p[3] = "wait_ready"
         /\ p[4] = "read_from_cache" /\ p[5] = "NAND_UNLOCK"
BY DEF plan, nand_mx35lf1_page_read, nand_mx35lf1_block_is_bad

\* nand_mx35lf1_page_is_free, with the nested call of page_read
LEMMA IsFreePlan ==
  LET p == plan("page_is_free") IN
  /\ Len(p) = 7
  /\ p[1] = "NAND_LOCK" /\ p[2] = "NAND_LOCK" /\ p[3] = "page_read"
  /\ p[4] = "wait_ready" /\ p[5] = "read_from_cache"
  /\ p[6] = "NAND_UNLOCK" /\ p[7] = "NAND_UNLOCK"
BY DEF plan, nand_mx35lf1_page_is_free, nand_mx35lf1_page_read

\* nand_mx35lf1_deinit
LEMMA DeinitPlan ==
  LET p == plan("deinit") IN
  /\ Len(p) = 4
  /\ p[1] = "NAND_LOCK" /\ p[2] = "clear_initialized"
  /\ p[3] = "NAND_UNLOCK" /\ p[4] = "release_resources"
BY DEF plan, nand_mx35lf1_deinit

\* nand_mx35lf1_page_program and nand_mx35lf1_block_mark_bad, in both builds
LEMMA ProgramPlan ==
  ASSUME NEW fn \in {"page_program", "block_mark_bad"}
  PROVE  LET p == plan(fn) IN
         /\ protected =>
              /\ Len(p) = 9
              /\ p[1] = "NAND_LOCK" /\ p[2] = "unlock_all_blocks"
              /\ p[3] = "write_enable" /\ p[4] = "program_load"
              /\ p[5] = "program_execute" /\ p[6] = "wait_ready"
              /\ p[7] = "write_disable" /\ p[8] = "lock_all_blocks"
              /\ p[9] = "NAND_UNLOCK"
         /\ ~protected =>
              /\ Len(p) = 7
              /\ p[1] = "NAND_LOCK" /\ p[2] = "write_enable"
              /\ p[3] = "program_load" /\ p[4] = "program_execute"
              /\ p[5] = "wait_ready" /\ p[6] = "write_disable_if_failed"
              /\ p[7] = "NAND_UNLOCK"
<1>1. plan(fn) = nand_mx35lf1_page_program
  BY DEF plan, nand_mx35lf1_block_mark_bad
<1>2. QED BY <1>1 DEF nand_mx35lf1_page_program, write_begin, write_end

\* nand_mx35lf1_page_copy, in both builds
LEMMA CopyPlan ==
  LET p == plan("page_copy") IN
  /\ protected =>
       /\ Len(p) = 10
       /\ p[1] = "NAND_LOCK" /\ p[2] = "page_read" /\ p[3] = "wait_ready"
       /\ p[4] = "unlock_all_blocks" /\ p[5] = "write_enable"
       /\ p[6] = "program_execute" /\ p[7] = "wait_ready"
       /\ p[8] = "write_disable" /\ p[9] = "lock_all_blocks"
       /\ p[10] = "NAND_UNLOCK"
  /\ ~protected =>
       /\ Len(p) = 8
       /\ p[1] = "NAND_LOCK" /\ p[2] = "page_read" /\ p[3] = "wait_ready"
       /\ p[4] = "write_enable" /\ p[5] = "program_execute"
       /\ p[6] = "wait_ready" /\ p[7] = "write_disable_if_failed"
       /\ p[8] = "NAND_UNLOCK"
BY DEF plan, nand_mx35lf1_page_copy, write_begin, write_end

\* nand_mx35lf1_block_erase, in both builds
LEMMA ErasePlan ==
  LET p == plan("block_erase") IN
  /\ protected =>
       /\ Len(p) = 8
       /\ p[1] = "NAND_LOCK" /\ p[2] = "unlock_all_blocks"
       /\ p[3] = "write_enable" /\ p[4] = "block_erase" /\ p[5] = "wait_ready"
       /\ p[6] = "write_disable" /\ p[7] = "lock_all_blocks"
       /\ p[8] = "NAND_UNLOCK"
  /\ ~protected =>
       /\ Len(p) = 6
       /\ p[1] = "NAND_LOCK" /\ p[2] = "write_enable"
       /\ p[3] = "block_erase" /\ p[4] = "wait_ready"
       /\ p[5] = "write_disable_if_failed" /\ p[6] = "NAND_UNLOCK"
BY DEF plan, nand_mx35lf1_block_erase, write_begin, write_end

\* nand_mx35lf1_init
LEMMA InitPlan ==
  LET p == plan("init") IN
  /\ p[1] = "allocate" /\ p[2] = "add_device" /\ p[3] = "nand_reset"
  /\ p[4] = "wait_ready" /\ p[5] = "read_id"
  /\ protected =>
       /\ Len(p) = 12
       /\ p[6] = "write_disable" /\ p[7] = "lock_all_blocks"
       /\ p[8] = "configure_ecc" /\ p[9] = "wait_ready"
       /\ p[10] = "verify_ecc" /\ p[11] = "set_initialized"
       /\ p[12] = "release_resources"
  /\ ~protected =>
       /\ Len(p) = 11
       /\ p[6] = "unlock_all_blocks"
       /\ p[7] = "configure_ecc" /\ p[8] = "wait_ready"
       /\ p[9] = "verify_ecc" /\ p[10] = "set_initialized"
       /\ p[11] = "release_resources"
BY DEF plan, nand_mx35lf1_init

\* Len(plan(fn)), and the depth of the lock at every step.
Length(fn) ==
  LET w == IF protected THEN 1 ELSE 0
  IN  CASE fn = "init" -> 11 + w
        [] fn = "deinit" -> 4
        [] fn \in {"page_read", "block_is_bad"} -> 5
        [] fn = "page_is_free" -> 7
        [] fn \in {"page_program", "block_mark_bad"} -> 7 + 2 * w
        [] fn = "page_copy" -> 8 + 2 * w
        [] fn = "block_erase" -> 6 + 2 * w

Depth(fn, i) ==
  CASE fn = "init" -> 0
    [] fn = "deinit" -> IF i \in {2, 3} THEN 1 ELSE 0
    [] fn = "page_is_free" -> IF i = 1 THEN 0 ELSE IF i \in {2, 7} THEN 1 ELSE 2
    [] OTHER -> IF i = 1 THEN 0 ELSE 1

\* Length counts the steps of every function.
LEMMA PlanLength ==
  ASSUME NEW fn \in Names
  PROVE  Len(plan(fn)) = Length(fn)
BY ReadPlan, IsFreePlan, DeinitPlan, ProgramPlan, CopyPlan, ErasePlan, InitPlan
   DEF Names, Length

\* It is a number.
LEMMA LengthNat ==
  ASSUME NEW fn \in Names
  PROVE  Length(fn) \in Nat
BY DEF Names, Length

\* The steps that take the lock and give it, and the ends of the functions.
LEMMA LockSteps ==
  ASSUME NEW fn \in Names, NEW i \in 1 .. Length(fn)
  PROVE  /\ plan(fn)[i] = "NAND_LOCK" =>
              i < Length(fn) /\ Depth(fn, i) \in {0, 1}
              /\ Depth(fn, i + 1) = Depth(fn, i) + 1
         /\ plan(fn)[i] = "NAND_UNLOCK" =>
              /\ Depth(fn, i) \in {1, 2}
              /\ i = Length(fn) => Depth(fn, i) = 1
              /\ i # Length(fn) =>
                   i < Length(fn) /\ Depth(fn, i + 1) = Depth(fn, i) - 1
         /\ plan(fn)[i] \in {"set_initialized", "release_resources"} =>
              Depth(fn, i) = 0 /\ fn \in {"init", "deinit"}
         /\ plan(fn)[i] \notin {"NAND_LOCK", "NAND_UNLOCK", "set_initialized",
                                "release_resources"} =>
              i < Length(fn) /\ Depth(fn, i + 1) = Depth(fn, i)
<1>1. CASE fn \in {"page_read", "block_is_bad"}
  BY <1>1, ReadPlan DEF Length, Depth
<1>2. CASE fn = "page_is_free"
  BY <1>2, IsFreePlan DEF Length, Depth
<1>3. CASE fn = "deinit"
  BY <1>3, DeinitPlan DEF Length, Depth
<1>4. CASE fn \in {"page_program", "block_mark_bad"}
  BY <1>4, ProgramPlan DEF Length, Depth
<1>5. CASE fn = "page_copy"
  BY <1>5, CopyPlan DEF Length, Depth
<1>6. CASE fn = "block_erase"
  BY <1>6, ErasePlan DEF Length, Depth
<1>7. CASE fn = "init"
  BY <1>7, InitPlan DEF Length, Depth
<1>8. QED BY <1>1, <1>2, <1>3, <1>4, <1>5, <1>6, <1>7 DEF Names

\* The smallest number of a set.
LEMMA ChooseMin ==
  ASSUME NEW S \in SUBSET Int, NEW m \in S, \A l \in S : m <= l
  PROVE  (CHOOSE k \in S : \A l \in S : k <= l) = m
<1>1. \A k \in S : (\A l \in S : k <= l) => k = m
  OBVIOUS
<1>2. QED BY <1>1

\* Step m of fn is the first one after step i that has one of the names.
FirstAfter(fn, i, m, names) ==
  /\ i \in Nat /\ m \in (i + 1) .. Len(plan(fn)) /\ Len(plan(fn)) \in Nat
  /\ plan(fn)[m] \in names
  /\ \A l \in (i + 1) .. (m - 1) : plan(fn)[l] \notin names

\* Step i of fn is in the part of a write that write_end closes.
Writing(fn, i) ==
  /\ fn # "init"
  /\ \E k \in 1 .. i : plan(fn)[k] = "write_enable"
  /\ \E k \in (i + 1) .. Len(plan(fn)) : plan(fn)[k] = Head(write_end)

\* The first step of a set behind a step is the least.
LEMMA FirstAfterMin ==
  ASSUME NEW fn, NEW i, NEW m, NEW names, FirstAfter(fn, i, m, names)
  PROVE  LET S == {k \in (i + 1) .. Len(plan(fn)) : plan(fn)[k] \in names}
         IN  (CHOOSE k \in S : \A l \in S : k <= l) = m
<1> DEFINE S == {k \in (i + 1) .. Len(plan(fn)) : plan(fn)[k] \in names}
<1>1. m \in S /\ S \in SUBSET Int /\ \A l \in S : m <= l
  BY DEF FirstAfter
<1>2. QED BY <1>1, ChooseMin

\* A write that fails goes to write_end, everything else to the next unlock or
\* undo.
LEMMA CleanupValue ==
  ASSUME NEW fn, NEW i, NEW m,
         \/ Writing(fn, i) /\ FirstAfter(fn, i, m, {Head(write_end)})
         \/ ~Writing(fn, i)
            /\ FirstAfter(fn, i, m, {"NAND_UNLOCK", "release_resources"})
  PROVE  cleanup(fn, i) = m
<1>1. CASE Writing(fn, i) /\ FirstAfter(fn, i, m, {Head(write_end)})
  <2> DEFINE S == {k \in (i + 1) .. Len(plan(fn)) : plan(fn)[k] \in {Head(write_end)}}
  <2>1. S # {}
    BY <1>1 DEF Writing
  <2>2. cleanup(fn, i) = CHOOSE k \in S : \A l \in S : k <= l
    BY <1>1, <2>1 DEF cleanup, Writing
  <2>3. QED BY <1>1, <2>2, FirstAfterMin
<1>2. CASE ~Writing(fn, i)
           /\ FirstAfter(fn, i, m, {"NAND_UNLOCK", "release_resources"})
  BY <1>2, FirstAfterMin DEF cleanup, Writing
<1>3. QED BY <1>1, <1>2

\* The step write_end starts with, in both builds.
LEMMA WriteEndHead ==
  Head(write_end) = IF protected THEN "write_disable" ELSE "write_disable_if_failed"
BY DEF write_end

\* Where each function goes on after a failure of its step i.
LEMMA ReadCleanup ==
  ASSUME NEW fn \in {"page_read", "block_is_bad"}, NEW i \in 2 .. 4
  PROVE  cleanup(fn, i) = 5
<1>1. ~Writing(fn, i)
  BY ReadPlan, WriteEndHead DEF Writing
<1>2. FirstAfter(fn, i, 5, {"NAND_UNLOCK", "release_resources"})
  BY ReadPlan, WriteEndHead DEF FirstAfter
<1>3. QED BY <1>1, <1>2, CleanupValue

\* The same for page_is_free: the inner lock is given back first.
LEMMA IsFreeCleanup ==
  ASSUME NEW i \in 3 .. 5
  PROVE  cleanup("page_is_free", i) = 6
<1>1. ~Writing("page_is_free", i)
  BY IsFreePlan, WriteEndHead DEF Writing
<1>2. FirstAfter("page_is_free", i, 6, {"NAND_UNLOCK", "release_resources"})
  BY IsFreePlan, WriteEndHead DEF FirstAfter
<1>3. QED BY <1>1, <1>2, CleanupValue

\* The same for init: all its failures release the resources.
LEMMA InitCleanup ==
  ASSUME NEW i \in 1 .. (Length("init") - 1)
  PROVE  cleanup("init", i) = Length("init")
<1>1. ~Writing("init", i)
  BY InitPlan, WriteEndHead DEF Writing, Length
<1>2. FirstAfter("init", i, Length("init"), {"NAND_UNLOCK", "release_resources"})
  <2>1. CASE protected
    <3>1. Length("init") = 12 /\ Len(plan("init")) = 12
          /\ plan("init")[12] = "release_resources"
      BY <2>1, InitPlan DEF Length
    <3>2. \A l \in 1 .. 11 :
            plan("init")[l] \notin {"NAND_UNLOCK", "release_resources"}
      BY <2>1, InitPlan
    <3>3. i \in 1 .. 11
      BY <3>1
    <3>4. QED BY ONLY <3>1, <3>2, <3>3, SMTT(60) DEF FirstAfter
  <2>2. CASE ~protected
    <3>1. Length("init") = 11 /\ Len(plan("init")) = 11
          /\ plan("init")[11] = "release_resources"
      BY <2>2, InitPlan DEF Length
    <3>2. \A l \in 1 .. 10 :
            plan("init")[l] \notin {"NAND_UNLOCK", "release_resources"}
      BY <2>2, InitPlan
    <3>3. i \in 1 .. 10
      BY <3>1
    <3>4. QED BY ONLY <3>1, <3>2, <3>3, SMTT(60) DEF FirstAfter
  <2>3. QED BY <2>1, <2>2
<1>3. QED BY <1>1, <1>2, CleanupValue

\* The same for page_program and block_mark_bad.
LEMMA ProgramCleanup ==
  ASSUME NEW fn \in {"page_program", "block_mark_bad"}, NEW i \in 2 .. 8
  PROVE  /\ protected =>
              cleanup(fn, i) = IF i \in 3 .. 6 THEN 7 ELSE 9
         /\ ~protected /\ i < 7 =>
              cleanup(fn, i) = IF i \in 2 .. 5 THEN 6 ELSE 7
<1>1. CASE protected /\ i \in 3 .. 6
  <2>1. Writing(fn, i)
    BY <1>1, ProgramPlan, WriteEndHead, SMTT(60) DEF Writing
  <2>2. FirstAfter(fn, i, 7, {Head(write_end)})
    BY <1>1, ProgramPlan, WriteEndHead DEF FirstAfter
  <2>3. QED BY <1>1, <2>1, <2>2, CleanupValue
<1>2. CASE protected /\ i \notin 3 .. 6
  <2>1. ~Writing(fn, i)
    <3>1. CASE i < 3
      BY <1>2, <3>1, ProgramPlan, SMTT(60) DEF Writing
    <3>2. CASE i > 3
      <4>1. Head(write_end) = "write_disable" /\ Len(plan(fn)) = 9
            /\ plan(fn)[8] = "lock_all_blocks" /\ plan(fn)[9] = "NAND_UNLOCK"
        BY <1>2, ProgramPlan, WriteEndHead
      <4>2. QED BY <1>2, <3>2, <4>1 DEF Writing
    <3>3. QED BY <1>2, <3>1, <3>2
  <2>2. FirstAfter(fn, i, 9, {"NAND_UNLOCK", "release_resources"})
    BY <1>2, ProgramPlan, WriteEndHead, SMTT(60) DEF FirstAfter
  <2>3. QED BY <1>2, <2>1, <2>2, CleanupValue
<1>3. CASE ~protected /\ i \in 2 .. 5
  <2>1. Writing(fn, i)
    BY <1>3, ProgramPlan, WriteEndHead DEF Writing
  <2>2. FirstAfter(fn, i, 6, {Head(write_end)})
    BY <1>3, ProgramPlan, WriteEndHead DEF FirstAfter
  <2>3. QED BY <1>3, <2>1, <2>2, CleanupValue
<1>4. CASE ~protected /\ i < 7 /\ i \notin 2 .. 5
  <2>1. ~Writing(fn, i)
    <3>1. Head(write_end) = "write_disable_if_failed" /\ Len(plan(fn)) = 7
          /\ plan(fn)[7] = "NAND_UNLOCK"
      BY <1>4, ProgramPlan, WriteEndHead
    <3>2. QED BY <1>4, <3>1 DEF Writing
  <2>2. FirstAfter(fn, i, 7, {"NAND_UNLOCK", "release_resources"})
    BY <1>4, ProgramPlan, WriteEndHead DEF FirstAfter
  <2>3. QED BY <1>4, <2>1, <2>2, CleanupValue
<1>5. QED BY <1>1, <1>2, <1>3, <1>4

\* The same for page_copy.
LEMMA CopyCleanup ==
  ASSUME NEW i \in 2 .. 9
  PROVE  /\ protected =>
              cleanup("page_copy", i) = IF i \in 5 .. 7 THEN 8 ELSE 10
         /\ ~protected /\ i < 8 =>
              cleanup("page_copy", i) = IF i \in 4 .. 6 THEN 7 ELSE 8
<1>1. CASE protected /\ i \in 5 .. 7
  <2>1. Writing("page_copy", i)
    BY <1>1, CopyPlan, WriteEndHead DEF Writing
  <2>2. FirstAfter("page_copy", i, 8, {Head(write_end)})
    BY <1>1, CopyPlan, WriteEndHead DEF FirstAfter
  <2>3. QED BY <1>1, <2>1, <2>2, CleanupValue
<1>2. CASE protected /\ i \notin 5 .. 7
  <2>1. ~Writing("page_copy", i)
    <3>1. CASE i < 5
      BY <1>2, <3>1, CopyPlan DEF Writing
    <3>2. CASE i > 5
      BY <1>2, <3>2, CopyPlan, WriteEndHead, SMTT(60) DEF Writing
    <3>3. QED BY <1>2, <3>1, <3>2
  <2>2. FirstAfter("page_copy", i, 10, {"NAND_UNLOCK", "release_resources"})
    BY <1>2, CopyPlan, WriteEndHead DEF FirstAfter
  <2>3. QED BY <1>2, <2>1, <2>2, CleanupValue
<1>3. CASE ~protected /\ i \in 4 .. 6
  <2>1. Writing("page_copy", i)
    BY <1>3, CopyPlan, WriteEndHead DEF Writing
  <2>2. FirstAfter("page_copy", i, 7, {Head(write_end)})
    BY <1>3, CopyPlan, WriteEndHead DEF FirstAfter
  <2>3. QED BY <1>3, <2>1, <2>2, CleanupValue
<1>4. CASE ~protected /\ i < 8 /\ i \notin 4 .. 6
  <2>1. ~Writing("page_copy", i)
    <3>1. CASE i < 4
      BY <1>4, <3>1, CopyPlan DEF Writing
    <3>2. CASE i > 4
      BY <1>4, <3>2, CopyPlan, WriteEndHead, SMTT(60) DEF Writing
    <3>3. QED BY <1>4, <3>1, <3>2
  <2>2. FirstAfter("page_copy", i, 8, {"NAND_UNLOCK", "release_resources"})
    BY <1>4, CopyPlan, WriteEndHead DEF FirstAfter
  <2>3. QED BY <1>4, <2>1, <2>2, CleanupValue
<1>5. QED BY <1>1, <1>2, <1>3, <1>4

\* The same for block_erase.
LEMMA EraseCleanup ==
  ASSUME NEW i \in 2 .. 7
  PROVE  /\ protected =>
              cleanup("block_erase", i) = IF i \in 3 .. 5 THEN 6 ELSE 8
         /\ ~protected /\ i < 6 =>
              cleanup("block_erase", i) = IF i \in 2 .. 4 THEN 5 ELSE 6
<1>1. CASE protected /\ i \in 3 .. 5
  <2>1. Writing("block_erase", i)
    BY <1>1, ErasePlan, WriteEndHead DEF Writing
  <2>2. FirstAfter("block_erase", i, 6, {Head(write_end)})
    BY <1>1, ErasePlan, WriteEndHead DEF FirstAfter
  <2>3. QED BY <1>1, <2>1, <2>2, CleanupValue
<1>2. CASE protected /\ i \notin 3 .. 5
  <2>1. ~Writing("block_erase", i)
    <3>1. CASE i < 3
      BY <1>2, <3>1, ErasePlan DEF Writing
    <3>2. CASE i > 3
      BY <1>2, <3>2, ErasePlan, WriteEndHead, SMTT(60) DEF Writing
    <3>3. QED BY <1>2, <3>1, <3>2
  <2>2. FirstAfter("block_erase", i, 8, {"NAND_UNLOCK", "release_resources"})
    BY <1>2, ErasePlan, WriteEndHead DEF FirstAfter
  <2>3. QED BY <1>2, <2>1, <2>2, CleanupValue
<1>3. CASE ~protected /\ i \in 2 .. 4
  <2>1. Writing("block_erase", i)
    BY <1>3, ErasePlan, WriteEndHead DEF Writing
  <2>2. FirstAfter("block_erase", i, 5, {Head(write_end)})
    BY <1>3, ErasePlan, WriteEndHead DEF FirstAfter
  <2>3. QED BY <1>3, <2>1, <2>2, CleanupValue
<1>4. CASE ~protected /\ i < 6 /\ i \notin 2 .. 4
  <2>1. ~Writing("block_erase", i)
    BY <1>4, ErasePlan, WriteEndHead DEF Writing
  <2>2. FirstAfter("block_erase", i, 6, {"NAND_UNLOCK", "release_resources"})
    BY <1>4, ErasePlan, WriteEndHead DEF FirstAfter
  <2>3. QED BY <1>4, <2>1, <2>2, CleanupValue
<1>5. QED BY <1>1, <1>2, <1>3, <1>4

\* The steps that can fail: their cleanup is at the same depth of the lock.
LEMMA CleanupDepth ==
  ASSUME NEW fn \in Names, NEW i \in 1 .. Length(fn),
         plan(fn)[i] \notin {"NAND_LOCK", "NAND_UNLOCK", "set_initialized",
                             "release_resources", "clear_initialized"}
  PROVE  /\ cleanup(fn, i) \in (i + 1) .. Length(fn)
         /\ Depth(fn, cleanup(fn, i)) = Depth(fn, i)
<1>1. CASE fn \in {"page_read", "block_is_bad"}
  BY <1>1, ReadPlan, ReadCleanup DEF Length, Depth
<1>2. CASE fn = "page_is_free"
  BY <1>2, IsFreePlan, IsFreeCleanup DEF Length, Depth
<1>3. CASE fn = "deinit"
  BY <1>3, DeinitPlan DEF Length
<1>4. CASE fn \in {"page_program", "block_mark_bad"}
  BY <1>4, ProgramPlan, ProgramCleanup DEF Length, Depth
<1>5. CASE fn = "page_copy"
  BY <1>5, CopyPlan, CopyCleanup DEF Length, Depth
<1>6. CASE fn = "block_erase"
  BY <1>6, ErasePlan, EraseCleanup DEF Length, Depth
<1>7. CASE fn = "init"
  BY <1>7, InitPlan, InitCleanup DEF Length, Depth
<1>8. QED BY <1>1, <1>2, <1>3, <1>4, <1>5, <1>6, <1>7 DEF Names

\* held(t), by cases on the function.
LEMMA HeldDepth ==
  ASSUME NEW t \in Tasks, task[t].fn \in Names,
         task[t].at \in 1 .. Length(task[t].fn)
  PROVE  held(t) = Depth(task[t].fn, task[t].at)
<1> DEFINE fn == task[t].fn
           i == task[t].at
           passed(name) == {k \in 1 .. (i - 1) : plan(fn)[k] = name}
<1>1. held(t) = Cardinality(passed("NAND_LOCK")) - Cardinality(passed("NAND_UNLOCK"))
  BY DEF held, Names
<1>2. /\ Cardinality({}) = 0
      /\ \A x \in {1, 3, 6} : Cardinality({x}) = 1
      /\ Cardinality({1, 2}) = 2
  <2>1. IsFiniteSet({1}) /\ Cardinality({1}) = 1
    BY FS_Singleton
  <2>2. 2 \notin {1} /\ {1} \cup {2} = {1, 2}
    OBVIOUS
  <2>3. Cardinality({1} \cup {2}) = Cardinality({1}) + 1
    BY <2>1, <2>2, FS_AddElement
  <2>4. Cardinality({1, 2}) = 2
    BY <2>1, <2>2, <2>3
  <2>5. \A x \in {1, 3, 6} : Cardinality({x}) = 1
    BY FS_Singleton
  <2>6. Cardinality({}) = 0
    BY FS_EmptySet
  <2>7. QED BY <2>4, <2>5, <2>6
<1>3. CASE fn = "init"
  <2>1. passed("NAND_LOCK") = {} /\ passed("NAND_UNLOCK") = {}
    BY <1>3, InitPlan DEF Length
  <2>2. /\ Cardinality(passed("NAND_LOCK")) = 0
        /\ Cardinality(passed("NAND_UNLOCK")) = 0
    BY <1>2, <2>1
  <2>3. QED BY <1>1, <1>3, <2>2 DEF Depth
<1>4. CASE fn = "deinit"
  <2>1. /\ passed("NAND_LOCK") = IF i = 1 THEN {} ELSE {1}
        /\ passed("NAND_UNLOCK") = IF i <= 3 THEN {} ELSE {3}
    BY <1>4, DeinitPlan DEF Length
  <2>2. /\ Cardinality(passed("NAND_LOCK")) = IF i = 1 THEN 0 ELSE 1
        /\ Cardinality(passed("NAND_UNLOCK")) = IF i <= 3 THEN 0 ELSE 1
    BY <1>2, <2>1
  <2>3. QED BY <1>1, <1>4, <2>2 DEF Depth, Length
<1>5. CASE fn = "page_is_free"
  <2>1. /\ passed("NAND_LOCK") = IF i = 1 THEN {} ELSE IF i = 2 THEN {1} ELSE {1, 2}
        /\ passed("NAND_UNLOCK") = IF i <= 6 THEN {} ELSE {6}
    BY <1>5, IsFreePlan DEF Length
  <2>2. /\ Cardinality(passed("NAND_LOCK")) = IF i = 1 THEN 0 ELSE IF i = 2 THEN 1 ELSE 2
        /\ Cardinality(passed("NAND_UNLOCK")) = IF i <= 6 THEN 0 ELSE 1
    BY <1>2, <2>1
  <2>3. QED BY <1>1, <1>5, <2>2 DEF Depth, Length
<1>6. CASE fn \notin {"init", "deinit", "page_is_free"}
  <2>1. /\ passed("NAND_LOCK") = IF i = 1 THEN {} ELSE {1}
        /\ passed("NAND_UNLOCK") = {}
    <3>1. CASE fn \in {"page_read", "block_is_bad"}
      BY <3>1, ReadPlan DEF Length
    <3>2. CASE fn \in {"page_program", "block_mark_bad"}
      BY <3>2, ProgramPlan DEF Length
    <3>3. CASE fn = "page_copy"
      BY <3>3, CopyPlan DEF Length
    <3>4. CASE fn = "block_erase"
      BY <3>4, ErasePlan DEF Length
    <3>5. QED BY <1>6, <3>1, <3>2, <3>3, <3>4 DEF Names
  <2>2. /\ Cardinality(passed("NAND_LOCK")) = IF i = 1 THEN 0 ELSE 1
        /\ Cardinality(passed("NAND_UNLOCK")) = 0
    BY <1>2, <2>1
  <2>3. QED BY <1>1, <1>6, <2>2 DEF Depth
<1>7. QED BY <1>3, <1>4, <1>5, <1>6

-----------------------------------------------------------------------------
(* The invariant                                                           *)

Jobs == [kind : {"none", "read", "program", "erase"}, row : Rows]

\* The bits of the status register.
Flags == {"ECC_ERR", "P_FAIL", "E_FAIL"}

ChipRecords ==
  [oip : BOOLEAN, wel : BOOLEAN, prot : BOOLEAN, status : SUBSET Flags,
   cache : Pages, array : [Rows -> Pages], job : Jobs]

\* A chip is busy exactly as long as it has a job.
ChipOK(c) ==
  /\ c \in ChipRecords
  /\ c.oip => c.job.kind # "none"
  /\ ~c.oip => c.job = NoJob

\* What a step can return.
Results == {"OK", "NO_MEM", "BAD_SPI", "TIMEOUT", "none"} \cup Flags

TaskRecords ==
  [fn : Names \cup {"none"}, at : Nat, row : Rows, src : Rows, data : Pages,
   out : Pages, ret : Results, clear : -1 .. (num_blocks - 1)]

Types ==
  /\ protected \in BOOLEAN
  /\ handle \in [initialized : BOOLEAN, alive : BOOLEAN]
  /\ lock \in [owner : Tasks \cup {NOBODY}, depth : 0 .. 2]
  /\ ChipOK(chip)
  /\ task \in [Tasks -> TaskRecords]
  /\ faults \in Nat

\* Every task is at a step of its function, ...
TasksOK ==
  \A t \in Tasks : task[t].fn # "none" => task[t].at \in 1 .. Length(task[t].fn)

\* ... and holds the lock as deep as that step says.
DepthOf(t) == IF task[t].fn = "none" THEN 0 ELSE Depth(task[t].fn, task[t].at)

LockOK ==
  /\ \A t \in Tasks : DepthOf(t) = IF lock.owner = t THEN lock.depth ELSE 0
  /\ lock.owner = NOBODY <=> lock.depth = 0

\* If nobody calls while the handle is set up or given up: init and deinit run
\* alone, and the lock and the buffers exist from "allocate" to
\* "release_resources".
HandleOK ==
  EXCLUSIVE =>
    /\ \A t \in Tasks : task[t].fn \in {"init", "deinit"} =>
         \A u \in Tasks \ {t} : task[u].fn = "none"
    /\ \A t \in Tasks : task[t].fn = "init" =>
         ~handle.initialized /\ handle.alive = (task[t].at > 1)
    /\ \A t \in Tasks : task[t].fn = "deinit" =>
         handle.alive /\ handle.initialized = (task[t].at <= 2)
    /\ (\A t \in Tasks : task[t].fn \notin {"init", "deinit"}) =>
         handle.alive = handle.initialized
    /\ \A t \in Tasks : task[t].fn \notin {"none", "init", "deinit"} => handle.alive

DriverInv == Types /\ TasksOK /\ LockOK /\ HandleOK

-----------------------------------------------------------------------------
(* Rows, pages and the chip                                                *)

\* A product of positive numbers is positive.
LEMMA ProductPositive ==
  ASSUME NEW a \in Nat \ {0}, NEW b \in Nat \ {0}
  PROVE  a * b \in Nat \ {0}
OBVIOUS

\* The chip has a first row.
LEMMA ZeroRow == 0 \in Rows /\ num_blocks * ppb \in Nat
<1>1. num_blocks * ppb \in Nat \ {0}
  BY DriverAssumption, ProductPositive
<1>2. QED BY <1>1 DEF Rows

\* A remainder is no larger than its number.
LEMMA ModLeq ==
  ASSUME NEW r \in Nat, NEW b \in Nat \ {0}
  PROVE  r - (r % b) \in 0 .. r
<1>1. r % b \in Nat /\ r \div b \in Nat /\ r = b * (r \div b) + (r % b)
  OBVIOUS
<1>2. b * (r \div b) \in Nat
  BY <1>1
<1>3. QED BY <1>1, <1>2

\* The first row of a row's block is a row.
LEMMA FirstRow ==
  ASSUME NEW r \in Rows
  PROVE  first_row(r) \in Rows
<1>1. r \in Nat /\ ppb \in Nat \ {0}
  BY ZeroRow, DriverAssumption DEF Rows
<1>2. r - (r % ppb) \in 0 .. r
  BY <1>1, ModLeq
<1>3. QED BY <1>1, <1>2, ZeroRow DEF first_row, Rows

\* The first row of a block.
LEMMA BlockRow ==
  ASSUME NEW b \in Nat, b < num_blocks
  PROVE  b * ppb \in Rows
<1>1. ppb \in Nat \ {0} /\ num_blocks \in Nat
  BY DriverAssumption
<1>2. (num_blocks - b) * ppb \in Nat \ {0} /\ num_blocks - b \in Nat \ {0}
  BY <1>1, ProductPositive
<1>3. b * ppb \in Nat /\ (num_blocks - b) * ppb = num_blocks * ppb - b * ppb
  BY <1>1
<1>4. QED BY <1>1, <1>2, <1>3, ZeroRow DEF Rows

\* An erased page is a page.
LEMMA BlankPage == Blank \in Pages
BY DEF Blank, Page, Pages

\* What programming makes of a page is a page.
LEMMA ProgrammedPage ==
  ASSUME NEW old \in Pages, NEW new \in Pages
  PROVE  programmed(old, new) \in Pages
BY DEF programmed, Page, Pages

\* The chip is well-typed after a job.
LEMMA FinishedChip ==
  ASSUME NEW c, ChipOK(c), c.oip, NEW fails \in BOOLEAN
  PROVE  ChipOK(finished(c, fails))
<1> DEFINE r == c.job.row
<1>1. /\ c \in ChipRecords /\ r \in Rows /\ c.array[r] \in Pages
      /\ c.job.kind \in {"read", "program", "erase"}
  BY DEF ChipOK, ChipRecords, Jobs
<1>2. NoJob \in Jobs
  BY ZeroRow DEF NoJob, Jobs
<1>3. \A x \in Rows : [c.array[x] EXCEPT !.main = GARBLED] \in Pages
  BY <1>1 DEF ChipRecords, Pages
<1> DEFINE done == [c EXCEPT !.oip = FALSE, !.job = NoJob]
           garbled(rows) == [x \in Rows |-> IF x \in rows
                               THEN [c.array[x] EXCEPT !.main = GARBLED]
                               ELSE c.array[x]]
<1>4. \A rows : garbled(rows) \in [Rows -> Pages]
  BY <1>1, <1>3 DEF ChipRecords
<1>5. done \in ChipRecords /\ ~done.oip /\ done.job = NoJob
  BY <1>1, <1>2 DEF ChipRecords
<1>6. ASSUME NEW page \in Pages, NEW status \in SUBSET Flags
      PROVE  ChipOK([done EXCEPT !.cache = page, !.status = status])
  BY <1>5, <1>6 DEF ChipOK, ChipRecords
<1>7. ASSUME NEW array \in [Rows -> Pages], NEW status \in SUBSET Flags
      PROVE  /\ ChipOK([done EXCEPT !.array = array, !.status = status])
             /\ ChipOK([done EXCEPT !.array = array, !.wel = FALSE, !.status = status])
  BY <1>5, <1>7 DEF ChipOK, ChipRecords
<1>8. CASE c.job.kind = "read"
  <2> DEFINE status == IF c.array[r].main = GARBLED THEN done.status \cup {"ECC_ERR"}
                       ELSE done.status \ {"ECC_ERR"}
  <2>1. status \in SUBSET Flags
    BY <1>5 DEF ChipRecords, Flags
  <2>2. finished(c, fails) = [done EXCEPT !.cache = c.array[r], !.status = status]
    BY <1>8 DEF finished
  <2> HIDE DEF status, done
  <2>3. QED BY <1>1, <1>6, <2>1, <2>2
<1>9. CASE c.job.kind = "program" /\ ~fails
  <2>1. programmed(c.array[r], c.cache) \in Pages
    BY <1>1, ProgrammedPage DEF ChipRecords
  <2>2. QED BY <1>1, <1>2, <1>9, <2>1 DEF finished, ChipOK, ChipRecords
<1>10. CASE c.job.kind = "program" /\ fails
  <2>1. done.status \cup {"P_FAIL"} \in SUBSET Flags
    BY <1>5 DEF ChipRecords, Flags
  <2>2. finished(c, fails) = [done EXCEPT !.array = garbled({r}),
                                          !.status = done.status \cup {"P_FAIL"}]
    BY <1>10 DEF finished
  <2> DEFINE array == garbled({r})
  <2>3. array \in [Rows -> Pages]
    BY <1>4
  <2> HIDE DEF done, array
  <2>4. ChipOK([done EXCEPT !.array = array, !.status = done.status \cup {"P_FAIL"}])
    BY <1>7, <2>1, <2>3
  <2>5. QED BY <2>2, <2>4 DEF array
<1>11. CASE c.job.kind = "erase" /\ ~fails
  BY <1>1, <1>2, <1>11, BlankPage DEF finished, ChipOK, ChipRecords
<1>12. CASE c.job.kind = "erase" /\ fails
  <2>1. done.status \cup {"E_FAIL"} \in SUBSET Flags
    BY <1>5 DEF ChipRecords, Flags
  <2>2. finished(c, fails) = [done EXCEPT !.array = garbled(block_rows(r)),
                                          !.status = done.status \cup {"E_FAIL"}]
    BY <1>12 DEF finished
  <2> DEFINE array == garbled(block_rows(r))
  <2>3. array \in [Rows -> Pages]
    BY <1>4
  <2> HIDE DEF done, array
  <2>4. ChipOK([done EXCEPT !.array = array, !.status = done.status \cup {"E_FAIL"}])
    BY <1>7, <2>1, <2>3
  <2>5. QED BY <2>2, <2>4 DEF array
<1>13. QED BY <1>1, <1>8, <1>9, <1>10, <1>11, <1>12

-----------------------------------------------------------------------------
(* Moving on in a function                                                 *)

\* Task t goes to step k of its function; the other tasks stay.
Moved(t, k) ==
  /\ task' \in [Tasks -> TaskRecords]
  /\ \A u \in Tasks \ {t} : task'[u] = task[u]
  /\ task'[t].fn = task[t].fn /\ task'[t].at = k
  /\ task'[t].row = task[t].row /\ task'[t].src = task[t].src
  /\ task'[t].data = task[t].data

\* A step that succeeds goes to the next one.
LEMMA AdvanceMoves ==
  ASSUME Types, NEW t \in Tasks, Advance(t)
  PROVE  /\ Moved(t, task[t].at + 1)
         /\ task'[t].ret = task[t].ret /\ task'[t].out = task[t].out
<1> DEFINE new == [task[t] EXCEPT !.at = task[t].at + 1]
<1>1. task[t] \in TaskRecords /\ task' = [task EXCEPT ![t] = new]
  BY DEF Types, Advance, Goto
<1>2. /\ new \in TaskRecords /\ new.at = task[t].at + 1 /\ new.ret = task[t].ret
      /\ new.fn = task[t].fn /\ new.row = task[t].row /\ new.src = task[t].src
      /\ new.data = task[t].data /\ new.out = task[t].out
  BY <1>1 DEF TaskRecords
<1>3. QED BY <1>1, <1>2 DEF Types, Moved

\* A step that fails goes to the cleanup, with an error to return.
LEMMA FailMoves ==
  ASSUME Types, NEW t \in Tasks, NEW err \in Results, err # "OK", Fail(t, err),
         cleanup(task[t].fn, task[t].at) \in Nat
  PROVE  /\ Moved(t, cleanup(task[t].fn, task[t].at))
         /\ task'[t].ret # "OK" /\ task'[t].out = task[t].out
<1> DEFINE k == cleanup(task[t].fn, task[t].at)
           ret == IF task[t].ret = "OK" THEN err ELSE task[t].ret
           new == [task[t] EXCEPT !.at = k, !.ret = ret]
<1>1. task[t] \in TaskRecords /\ task' = [task EXCEPT ![t] = new]
  BY DEF Types, Fail
<1>2. ret \in Results /\ ret # "OK"
  BY <1>1 DEF TaskRecords
<1> HIDE DEF k, ret
<1>3. /\ new \in TaskRecords /\ new.at = k /\ new.ret = ret
      /\ new.fn = task[t].fn /\ new.row = task[t].row /\ new.src = task[t].src
      /\ new.data = task[t].data /\ new.out = task[t].out
  BY <1>1, <1>2 DEF TaskRecords, k
<1>4. QED BY <1>1, <1>2, <1>3 DEF Types, Moved, k

\* The functions do not change while they run.
LEMMA SameLength ==
  ASSUME protected' = protected, NEW fn
  PROVE  Length(fn)' = Length(fn)
BY DEF Length

\* A step of t that is none of the operations on the lock, to the next step or
\* to the cleanup.
LEMMA MoveOn ==
  ASSUME DriverInv, NEW t \in Tasks, task[t].fn \in Names,
         plan(task[t].fn)[task[t].at] \notin
           {"NAND_LOCK", "NAND_UNLOCK", "set_initialized", "release_resources"},
         NEW k, Moved(t, k),
         \/ k = task[t].at + 1
         \/ /\ plan(task[t].fn)[task[t].at] # "clear_initialized"
            /\ k = cleanup(task[t].fn, task[t].at),
         protected' = protected, lock' = lock
  PROVE  TasksOK' /\ LockOK' /\ k \in Nat /\ k > task[t].at
<1> DEFINE fn == task[t].fn
           i == task[t].at
<1>1. fn \in Names /\ i \in 1 .. Length(fn) /\ fn # "none"
  BY DEF DriverInv, TasksOK, Names
<1>2. k \in (i + 1) .. Length(fn) /\ Depth(fn, k) = Depth(fn, i)
  <2>1. Length(fn) \in Nat
    BY <1>1, LengthNat DEF DriverInv, Types
  <2>2. CASE k = i + 1
    BY <1>1, <2>1, <2>2, LockSteps
  <2>3. CASE k # i + 1
    BY <1>1, <2>1, <2>3, CleanupDepth
  <2>4. QED BY <2>2, <2>3
<1>3. TasksOK'
  BY <1>1, <1>2, SameLength DEF TasksOK, DriverInv, Moved
<1>4. \A u \in Tasks : DepthOf(u)' = DepthOf(u)
  BY <1>1, <1>2 DEF DepthOf, Moved
<1>5. LockOK'
  BY <1>4 DEF LockOK, DriverInv
<1>6. k \in Nat /\ k > i
  BY <1>1, <1>2
<1>7. QED BY <1>3, <1>5, <1>6

\* The same for a step that does not touch the handle either.
LEMMA MoveOnHandle ==
  ASSUME DriverInv, NEW t \in Tasks, task[t].fn \in Names,
         plan(task[t].fn)[task[t].at] \notin
           {"NAND_LOCK", "NAND_UNLOCK", "set_initialized", "release_resources",
            "allocate", "clear_initialized"},
         NEW k \in Nat, k > task[t].at, Moved(t, k), handle' = handle
  PROVE  HandleOK'
<1>1. task[t].fn # "deinit" /\ task[t].at \in 1 .. Length(task[t].fn)
  BY DeinitPlan DEF DriverInv, TasksOK, Names, Length
<1>2. task[t].fn = "init" => task[t].at > 1
  BY <1>1, InitPlan DEF Length
<1>3. \A u \in Tasks : task'[u].fn = task[u].fn
  BY DEF Moved
<1>4. QED BY <1>1, <1>2, <1>3 DEF DriverInv, HandleOK, Moved

\* The steps of the functions but for the lock and the handle.
Special == {"NAND_LOCK", "NAND_UNLOCK", "set_initialized", "release_resources",
            "allocate", "clear_initialized", "none"}

\* A task that makes a step is inside of a function.
LEMMA StepOf ==
  ASSUME DriverInv, NEW t \in Tasks, NEW s, step_of(t) = s, s # "none"
  PROVE  /\ task[t].fn \in Names /\ task[t].fn # "none"
         /\ plan(task[t].fn)[task[t].at] = s
         /\ task[t].at \in 1 .. Length(task[t].fn)
BY DEF DriverInv, Types, TasksOK, TaskRecords, step_of, Names

\* Whatever a task does between the operations on the lock and the handle: it
\* goes on to the next step, or fails and goes to the cleanup.
LEMMA PlainStep ==
  ASSUME DriverInv, NEW t \in Tasks, NEW s, step_of(t) = s, s \notin Special,
         \/ Moved(t, task[t].at + 1)
         \/ Moved(t, cleanup(task[t].fn, task[t].at)),
         UNCHANGED <<protected, handle, lock>>,
         ChipOK(chip'), faults' \in Nat
  PROVE  DriverInv'
<1>1. task[t].fn \in Names /\ plan(task[t].fn)[task[t].at] = s
  BY StepOf DEF Special
<1>2. PICK k : /\ Moved(t, k)
               /\ \/ k = task[t].at + 1
                  \/ k = cleanup(task[t].fn, task[t].at)
  OBVIOUS
<1>3. TasksOK' /\ LockOK' /\ k \in Nat /\ k > task[t].at
  BY <1>1, <1>2, MoveOn DEF Special
<1>4. HandleOK'
  BY <1>1, <1>2, <1>3, MoveOnHandle DEF Special
<1>5. Types'
  BY <1>2 DEF DriverInv, Types, Moved
<1>6. QED BY <1>3, <1>4, <1>5 DEF DriverInv

\* The task fails at such a step.
LEMMA PlainFail ==
  ASSUME DriverInv, NEW t \in Tasks, NEW s, step_of(t) = s,
         s \notin Special \ {"allocate"},
         NEW err \in Results, err # "OK", Fail(t, err)
  PROVE  /\ Moved(t, cleanup(task[t].fn, task[t].at))
         /\ task'[t].ret # "OK" /\ task'[t].out = task[t].out
<1>1. /\ task[t].fn \in Names /\ plan(task[t].fn)[task[t].at] = s
      /\ task[t].at \in 1 .. Length(task[t].fn)
  BY StepOf DEF Special
<1>2. cleanup(task[t].fn, task[t].at) \in Nat
  BY <1>1, CleanupDepth, LengthNat DEF Special
<1>3. QED BY <1>2, FailMoves DEF DriverInv

\* What a transfer does to the task.
LEMMA TransferMoves ==
  ASSUME DriverInv, NEW t \in Tasks, NEW s, s \notin Special, NEW c, Transfer(t, s, c)
  PROVE  /\ \/ /\ Moved(t, task[t].at + 1) /\ task'[t].ret = task[t].ret
               /\ chip' = c /\ faults' = faults
            \/ /\ Moved(t, cleanup(task[t].fn, task[t].at)) /\ task'[t].ret # "OK"
               /\ chip' = chip /\ faults' = faults + 1
         /\ step_of(t) = s /\ task'[t].out = task[t].out
         /\ UNCHANGED <<protected, handle, lock, seen>>
<1>1. CASE chip' = c /\ Advance(t) /\ UNCHANGED faults
  BY <1>1, AdvanceMoves DEF Transfer, DriverInv
<1>2. CASE Fault /\ Fail(t, "BAD_SPI") /\ UNCHANGED chip
  <2>1. step_of(t) = s /\ s \notin Special \ {"allocate"} /\ "BAD_SPI" # "OK"
    BY DEF Transfer
  <2>2. Fail(t, "BAD_SPI") /\ "BAD_SPI" \in Results
    BY <1>2 DEF Results
  <2>3. /\ Moved(t, cleanup(task[t].fn, task[t].at))
        /\ task'[t].ret # "OK" /\ task'[t].out = task[t].out
    BY <2>1, <2>2, PlainFail
  <2>4. QED BY <1>2, <2>1, <2>3 DEF Transfer, Fault
<1>3. QED BY <1>1, <1>2 DEF Transfer

\* A transfer keeps the invariant, whether it succeeds or fails.
LEMMA TransferStep ==
  ASSUME DriverInv, NEW t \in Tasks, NEW s, s \notin Special, NEW c, ChipOK(c),
         Transfer(t, s, c)
  PROVE  DriverInv'
<1>1. ChipOK(chip) /\ faults \in Nat
  BY DEF DriverInv, Types
<1>2. CASE Moved(t, task[t].at + 1) /\ chip' = c /\ faults' = faults
  BY <1>1, <1>2, TransferMoves, PlainStep
<1>3. CASE Moved(t, cleanup(task[t].fn, task[t].at)) /\ chip' = chip
           /\ faults' = faults + 1
  BY <1>1, <1>3, TransferMoves, PlainStep
<1>4. QED BY <1>2, <1>3, TransferMoves

\* The commands keep the chip's types.
LEMMA CommandsOK ==
  ASSUME DriverInv
  PROVE  /\ \A b \in BOOLEAN : /\ ChipOK(accepted([chip EXCEPT !.wel = b]))
                               /\ ChipOK(accepted([chip EXCEPT !.prot = b]))
         /\ \A page \in Pages : ChipOK(accepted([chip EXCEPT !.cache = page]))
         /\ \A row \in Rows :
              /\ ChipOK(accepted([chip EXCEPT !.oip = TRUE,
                                   !.job = [kind |-> "read", row |-> row]]))
              /\ ChipOK(started("program", row, "P_FAIL"))
              /\ ChipOK(started("erase", row, "E_FAIL"))
<1>1. ChipOK(chip)
  BY DEF DriverInv, Types
<1>2. ASSUME NEW b \in BOOLEAN
      PROVE  ChipOK([chip EXCEPT !.wel = b]) /\ ChipOK([chip EXCEPT !.prot = b])
  BY <1>1 DEF ChipOK, ChipRecords
<1>3. ASSUME NEW page \in Pages PROVE ChipOK([chip EXCEPT !.cache = page])
  BY <1>1 DEF ChipOK, ChipRecords
<1>4. ASSUME NEW row \in Rows, NEW kind \in {"read", "program", "erase"}
      PROVE  ChipOK([chip EXCEPT !.oip = TRUE, !.job = [kind |-> kind, row |-> row]])
  BY <1>1 DEF ChipOK, ChipRecords, Jobs
<1>5. ASSUME NEW flag \in Flags
      PROVE  ChipOK([chip EXCEPT !.status = @ \cup {flag}])
  BY <1>1 DEF ChipOK, ChipRecords
<1>6. ASSUME NEW row \in Rows
      PROVE  ChipOK(started("program", row, "P_FAIL")) /\ ChipOK(started("erase", row, "E_FAIL"))
  BY <1>1, <1>4, <1>5 DEF started, accepted, Flags
<1>7. QED BY <1>1, <1>2, <1>3, <1>4, <1>6 DEF accepted

-----------------------------------------------------------------------------
(* One step per action                                                     *)

\* So do all steps that are one transfer.
LEMMA TransfersStep ==
  ASSUME DriverInv, NEW t \in Tasks,
         \/ write_enable(t) \/ write_disable(t) \/ unlock_all_blocks(t)
         \/ lock_all_blocks(t) \/ program_load(t) \/ program_execute(t)
         \/ block_erase(t) \/ page_read(t) \/ add_device(t) \/ read_id(t)
         \/ configure_ecc(t) \/ verify_ecc(t)
  PROVE  DriverInv'
<1>1. /\ task[t].row \in Rows /\ task[t].src \in Rows /\ task[t].data \in Pages
      /\ ChipOK(chip)
  BY DEF DriverInv, Types, TaskRecords
<1>2. CASE write_enable(t) \/ write_disable(t)
  BY <1>2, CommandsOK, TransferStep DEF write_enable, write_disable, Special
<1>3. CASE unlock_all_blocks(t) \/ lock_all_blocks(t)
  BY <1>3, CommandsOK, TransferStep DEF unlock_all_blocks, lock_all_blocks, Special
<1>4. CASE program_load(t)
  BY <1>1, <1>4, CommandsOK, TransferStep DEF program_load, Special
<1>5. CASE program_execute(t) \/ block_erase(t)
  BY <1>1, <1>5, CommandsOK, TransferStep DEF program_execute, block_erase, Special
<1>6. CASE page_read(t)
  <2> DEFINE row == IF task[t].fn = "page_copy" THEN task[t].src ELSE task[t].row
  <2>1. row \in Rows
    BY <1>1
  <2>2. Transfer(t, "page_read", accepted([chip EXCEPT !.oip = TRUE,
                                   !.job = [kind |-> "read", row |-> row]]))
    BY <1>6 DEF page_read
  <2> HIDE DEF row
  <2>3. QED BY <2>1, <2>2, CommandsOK, TransferStep DEF Special
<1>7. CASE add_device(t) \/ read_id(t) \/ configure_ecc(t) \/ verify_ecc(t)
  BY <1>1, <1>7, TransferStep DEF add_device, read_id, configure_ecc, verify_ecc, Special
<1>8. QED BY <1>2, <1>3, <1>4, <1>5, <1>6, <1>7

\* So does the write_disable of the unprotected build.
LEMMA WriteDisableIfFailedStep ==
  ASSUME DriverInv, NEW t \in Tasks, write_disable_if_failed(t)
  PROVE  DriverInv'
<1>1. CASE Transfer(t, "write_disable_if_failed", accepted([chip EXCEPT !.wel = FALSE]))
  BY <1>1, CommandsOK, TransferStep DEF Special
<1>2. CASE step_of(t) = "write_disable_if_failed" /\ Advance(t)
           /\ UNCHANGED <<protected, handle, lock, chip, seen, faults>>
  BY <1>2, AdvanceMoves, PlainStep DEF Special, DriverInv, Types
<1>3. QED BY <1>1, <1>2 DEF write_disable_if_failed

\* The chip after the reset of nand_mx35lf1_init.
ResetChip ==
  [(IF chip.oip /\ chip.job.kind # "read" THEN finished(chip, TRUE) ELSE chip)
     EXCEPT !.oip = FALSE, !.job = NoJob, !.wel = FALSE, !.status = {}]

\* The chip is well-typed after a reset.
LEMMA ResetOK == DriverInv => ChipOK(ResetChip)
<1> SUFFICES ASSUME DriverInv PROVE ChipOK(ResetChip)
  OBVIOUS
<1> DEFINE c == IF chip.oip /\ chip.job.kind # "read" THEN finished(chip, TRUE)
                ELSE chip
<1>1. c \in ChipRecords
  BY FinishedChip DEF DriverInv, Types, ChipOK
<1>2. NoJob \in Jobs
  BY ZeroRow DEF NoJob, Jobs
<1>3. ResetChip = [c EXCEPT !.oip = FALSE, !.job = NoJob, !.wel = FALSE, !.status = {}]
  BY DEF ResetChip
<1> HIDE DEF c
<1>4. QED BY <1>1, <1>2, <1>3 DEF ChipOK, ChipRecords

\* The reset keeps the invariant.
LEMMA ResetStep ==
  ASSUME DriverInv, NEW t \in Tasks, nand_reset(t)
  PROVE  DriverInv'
BY ResetOK, TransferStep DEF nand_reset, ResetChip, Special

\* What read_from_cache does to its task.
LEMMA ReadFromCacheMoves ==
  ASSUME DriverInv, NEW t \in Tasks, read_from_cache(t)
  PROVE  /\ \/ /\ Moved(t, task[t].at + 1) /\ task'[t].ret = task[t].ret
               /\ task'[t].out = chip.cache /\ faults' = faults
            \/ /\ Moved(t, cleanup(task[t].fn, task[t].at)) /\ task'[t].ret # "OK"
               /\ task'[t].out = task[t].out /\ faults' = faults + 1
         /\ step_of(t) = "read_from_cache"
         /\ UNCHANGED <<protected, handle, lock, chip, seen>>
<1>1. CASE task' = [task EXCEPT ![t].at = @ + 1, ![t].out = chip.cache]
           /\ UNCHANGED faults
  <2> DEFINE new == [task[t] EXCEPT !.at = task[t].at + 1, !.out = chip.cache]
  <2>1. task[t] \in TaskRecords /\ task' = [task EXCEPT ![t] = new]
        /\ chip.cache \in Pages
    BY <1>1 DEF DriverInv, Types, ChipOK, ChipRecords
  <2>2. /\ new \in TaskRecords /\ new.at = task[t].at + 1 /\ new.ret = task[t].ret
        /\ new.fn = task[t].fn /\ new.row = task[t].row /\ new.src = task[t].src
        /\ new.data = task[t].data /\ new.out = chip.cache
    <3> DEFINE k == task[t].at + 1
               page == chip.cache
    <3>1. k \in Nat /\ page \in Pages
      BY <2>1 DEF TaskRecords
    <3> HIDE DEF k, page
    <3>2. LET r == [task[t] EXCEPT !.at = k, !.out = page]
          IN  /\ r \in TaskRecords /\ r.at = k /\ r.ret = task[t].ret
              /\ r.fn = task[t].fn /\ r.row = task[t].row /\ r.src = task[t].src
              /\ r.data = task[t].data /\ r.out = page
      BY ONLY <2>1, <3>1 DEF TaskRecords
    <3>3. QED BY <3>2 DEF k, page
  <2>3. QED BY <1>1, <2>1, <2>2 DEF DriverInv, Types, Moved, read_from_cache
<1>2. CASE Fault /\ Fail(t, "BAD_SPI")
  <2>1. step_of(t) = "read_from_cache" /\ "BAD_SPI" \in Results
    BY DEF read_from_cache, Results
  <2>2. /\ Moved(t, cleanup(task[t].fn, task[t].at))
        /\ task'[t].ret # "OK" /\ task'[t].out = task[t].out
    BY <1>2, <2>1, PlainFail DEF Special
  <2>3. QED BY <1>2, <2>1, <2>2 DEF read_from_cache, Fault
<1>3. QED BY <1>1, <1>2 DEF read_from_cache

\* read_from_cache keeps the invariant.
LEMMA ReadFromCacheStep ==
  ASSUME DriverInv, NEW t \in Tasks, read_from_cache(t)
  PROVE  DriverInv'
BY ReadFromCacheMoves, PlainStep DEF Special, DriverInv, Types

\* What wait_ready does to its task.
LEMMA WaitReadyMoves ==
  ASSUME DriverInv, NEW t \in Tasks, wait_ready(t)
  PROVE  /\ \/ /\ Moved(t, task[t].at + 1) /\ task'[t].ret = task[t].ret
               /\ ~chip.oip /\ failure(t) \notin chip.status /\ faults' = faults
            \/ /\ Moved(t, cleanup(task[t].fn, task[t].at)) /\ task'[t].ret # "OK"
               /\ ~chip.oip /\ failure(t) \in chip.status /\ faults' = faults
            \/ /\ Moved(t, cleanup(task[t].fn, task[t].at)) /\ task'[t].ret # "OK"
               /\ faults' = faults + 1
         /\ step_of(t) = "wait_ready" /\ task'[t].out = task[t].out
         /\ UNCHANGED <<protected, handle, lock, chip, seen>>
<1>1. failure(t) \in Results /\ failure(t) # "OK"
  BY DEF failure, Results, Flags
<1>2. CASE ~chip.oip /\ faults' = faults /\ failure(t) \in chip.status
           /\ Fail(t, failure(t))
  <2> HIDE DEF failure
  <2>1. QED BY <1>1, <1>2, PlainFail DEF wait_ready, Special
<1>3. CASE ~chip.oip /\ faults' = faults /\ failure(t) \notin chip.status
           /\ Advance(t)
  BY <1>3, AdvanceMoves DEF wait_ready, DriverInv
<1>4. CASE Fault /\ (Fail(t, "BAD_SPI") \/ Fail(t, "TIMEOUT"))
  <2>1. /\ step_of(t) = "wait_ready"
        /\ "BAD_SPI" \in Results /\ "TIMEOUT" \in Results
    BY DEF wait_ready, Results
  <2>2. /\ Moved(t, cleanup(task[t].fn, task[t].at))
        /\ task'[t].ret # "OK" /\ task'[t].out = task[t].out
    BY <1>4, <2>1, PlainFail DEF Special
  <2>3. QED BY <1>4, <2>1, <2>2 DEF wait_ready, Fault
<1>5. QED BY <1>2, <1>3, <1>4 DEF wait_ready

\* wait_ready keeps the invariant.
LEMMA WaitReadyStep ==
  ASSUME DriverInv, NEW t \in Tasks, wait_ready(t)
  PROVE  DriverInv'
BY WaitReadyMoves, PlainStep DEF Special, DriverInv, Types

\* The end of a job keeps the invariant.
LEMMA ChipReadyStep ==
  ASSUME DriverInv, ChipReady
  PROVE  DriverInv'
<1>1. ChipOK(chip') /\ faults' \in Nat
  <2>1. ChipOK(chip) /\ chip.oip /\ faults \in Nat
    BY DEF DriverInv, Types, ChipReady
  <2>2. ChipOK(finished(chip, FALSE)) /\ ChipOK(finished(chip, TRUE))
    BY <2>1, FinishedChip
  <2>3. chip' = finished(chip, FALSE) \/ chip' = finished(chip, TRUE)
    BY DEF ChipReady
  <2>4. faults' = faults \/ faults' = faults + 1
    BY DEF ChipReady, Fault
  <2>5. ChipOK(chip')
    BY ONLY <2>2, <2>3, Zenon
  <2>6. QED BY <2>1, <2>4, <2>5
<1>2. Types'
  BY <1>1 DEF DriverInv, Types, ChipReady
<1>3. TasksOK' /\ LockOK'
  BY DEF DriverInv, TasksOK, LockOK, DepthOf, ChipReady, Length
<1>4. HandleOK'
  BY DEF DriverInv, HandleOK, ChipReady
<1>5. QED BY <1>2, <1>3, <1>4 DEF DriverInv

\* A task that has no call is well-typed.
LEMMA IdleRecord == Idle \in TaskRecords /\ Idle.fn = "none"
<1>1. -1 \in -1 .. (num_blocks - 1)
  BY DriverAssumption
<1>2. QED BY <1>1, ZeroRow, BlankPage DEF Idle, TaskRecords, Results

\* Taking the lock keeps the invariant: the owner is one level deeper.
LEMMA LockStep ==
  ASSUME DriverInv, NEW t \in Tasks, NAND_LOCK(t)
  PROVE  /\ DriverInv'
         /\ Moved(t, task[t].at + 1)
         /\ task'[t].ret = task[t].ret /\ task'[t].out = task[t].out
<1> DEFINE fn == task[t].fn
           i == task[t].at
<1>1. /\ fn \in Names /\ fn # "none" /\ plan(fn)[i] = "NAND_LOCK"
      /\ i \in 1 .. Length(fn) /\ Length(fn) \in Nat
  BY StepOf, LengthNat DEF NAND_LOCK
<1>2. /\ Moved(t, i + 1)
      /\ task'[t].ret = task[t].ret /\ task'[t].out = task[t].out
  BY AdvanceMoves DEF NAND_LOCK, DriverInv
<1>3. /\ i + 1 \in 1 .. Length(fn) /\ Depth(fn, i) \in {0, 1}
      /\ Depth(fn, i + 1) = Depth(fn, i) + 1
  BY <1>1, LockSteps
<1>4. lock.owner \in {NOBODY, t} /\ lock' = [owner |-> t, depth |-> lock.depth + 1]
      /\ UNCHANGED <<protected, handle, chip, faults>>
  BY DEF NAND_LOCK, may_lock
<1>5. lock.depth = Depth(fn, i)
  BY <1>1, <1>3, <1>4, DriverAssumption DEF DriverInv, Types, LockOK, DepthOf
<1>6. Types'
  BY <1>2, <1>3, <1>4, <1>5 DEF DriverInv, Types, Moved
<1>7. TasksOK'
  BY <1>1, <1>2, <1>3, <1>4, SameLength DEF DriverInv, TasksOK, Moved
<1>8. LockOK'
  <2>1. DepthOf(t)' = lock'.depth
    BY <1>1, <1>2, <1>3, <1>4, <1>5 DEF DepthOf, Moved
  <2>2. \A u \in Tasks \ {t} : DepthOf(u)' = 0
    BY <1>2, <1>4, DriverAssumption DEF DepthOf, Moved, DriverInv, LockOK
  <2>3. QED BY <1>3, <1>4, <1>5, <2>1, <2>2, DriverAssumption DEF LockOK
<1>9. HandleOK'
  <2>1. fn # "init" /\ (fn = "deinit" => i = 1)
    BY <1>1, InitPlan, DeinitPlan DEF Length
  <2>2. QED BY <1>2, <1>4, <2>1 DEF DriverInv, HandleOK, Moved
<1>10. QED BY <1>2, <1>6, <1>7, <1>8, <1>9 DEF DriverInv

\* The function that goes on when another one returns.
LEMMA ReturnedRecord ==
  ASSUME DriverInv, NEW t \in Tasks, task[t].fn \in Names
  PROVE  /\ returned(t) \in TaskRecords
         /\ returned(t).fn \in {"none", "block_is_bad", "block_erase"}
         /\ returned(t).fn # "none" => returned(t).at = 1
<1> DEFINE b == task[t].clear + 1
           next == [Idle EXCEPT !.fn = "block_is_bad", !.at = 1, !.row = b * ppb,
                                !.clear = b]
<1>1. task[t] \in TaskRecords /\ task[t].clear \in -1 .. (num_blocks - 1)
      /\ num_blocks \in Nat
  BY DriverAssumption DEF DriverInv, Types, TaskRecords
<1>2. ASSUME b < num_blocks
      PROVE  next \in TaskRecords /\ next.fn = "block_is_bad" /\ next.at = 1
  <2>1. b \in Nat /\ b \in -1 .. (num_blocks - 1)
    BY <1>1, <1>2
  <2>2. b * ppb \in Rows
    BY <1>2, <2>1, BlockRow
  <2> DEFINE row == b * ppb
             new == [Idle EXCEPT !.fn = "block_is_bad", !.at = 1, !.row = row,
                                 !.clear = b]
  <2>3. row \in Rows
    BY <2>2
  <2> HIDE DEF row, b
  <2>4. new \in TaskRecords /\ new.fn = "block_is_bad" /\ new.at = 1
    BY ONLY <2>1, <2>3, IdleRecord DEF TaskRecords, Names
  <2>5. QED BY <2>4 DEF row, b
<1>3. next_block(t) = IF b < num_blocks THEN next ELSE Idle
  BY DEF next_block
<1>4. /\ next_block(t) \in TaskRecords
      /\ next_block(t).fn \in {"none", "block_is_bad"}
      /\ next_block(t).fn # "none" => next_block(t).at = 1
  <2> HIDE DEF next
  <2>1. QED BY <1>2, <1>3, IdleRecord
<1>5. LET new == [task[t] EXCEPT !.fn = "block_erase", !.at = 1]
      IN  new \in TaskRecords /\ new.fn = "block_erase" /\ new.at = 1
  BY <1>1 DEF TaskRecords, Names
<1>6. QED BY <1>4, <1>5, IdleRecord DEF returned

\* Giving the lock keeps the invariant: it is free when no level is left.
LEMMA UnlockStep ==
  ASSUME DriverInv, NEW t \in Tasks, NAND_UNLOCK(t)
  PROVE  DriverInv'
<1> DEFINE fn == task[t].fn
           i == task[t].at
<1>1. /\ fn \in Names /\ fn # "none" /\ plan(fn)[i] = "NAND_UNLOCK"
      /\ i \in 1 .. Length(fn) /\ Length(fn) \in Nat /\ Len(plan(fn)) = Length(fn)
  BY StepOf, LengthNat, PlanLength DEF NAND_UNLOCK
<1>2. /\ Depth(fn, i) \in {1, 2}
      /\ i = Length(fn) => Depth(fn, i) = 1
      /\ i # Length(fn) => i < Length(fn) /\ Depth(fn, i + 1) = Depth(fn, i) - 1
  BY <1>1, LockSteps
<1>3. /\ lock' = IF lock.depth = 1 THEN [owner |-> NOBODY, depth |-> 0]
                 ELSE [lock EXCEPT !.depth = @ - 1]
      /\ UNCHANGED <<protected, handle, chip, faults>>
  BY DEF NAND_UNLOCK
<1>4. lock.owner = t /\ lock.depth = Depth(fn, i)
  BY <1>1, <1>2 DEF DriverInv, LockOK, DepthOf
<1>5. /\ lock'.depth = lock.depth - 1
      /\ lock'.owner = IF lock.depth = 1 THEN NOBODY ELSE t
      /\ lock' \in [owner : Tasks \cup {NOBODY}, depth : 0 .. 2]
  BY <1>2, <1>3, <1>4 DEF DriverInv, Types
<1>6. /\ task' \in [Tasks -> TaskRecords]
      /\ \A u \in Tasks \ {t} : task'[u] = task[u]
      /\ \/ i = Length(fn) /\ task'[t].fn \in {"none", "block_is_bad", "block_erase"}
            /\ (task'[t].fn # "none" => task'[t].at = 1)
         \/ i # Length(fn) /\ task'[t].fn = fn /\ task'[t].at = i + 1
  <2>1. CASE i = Length(fn)
    <3>1. task' = [task EXCEPT ![t] = returned(t)]
      BY <1>1, <2>1 DEF NAND_UNLOCK
    <3>2. QED BY <1>1, <2>1, <3>1, ReturnedRecord DEF DriverInv, Types
  <2>2. CASE i # Length(fn)
    BY <1>1, <2>2, AdvanceMoves DEF NAND_UNLOCK, Moved, DriverInv
  <2>3. QED BY <2>1, <2>2
<1>7. Types'
  BY <1>3, <1>5, <1>6 DEF DriverInv, Types
<1>8. TasksOK'
  <2>1. 1 \in 1 .. Length("block_is_bad") /\ 1 \in 1 .. Length("block_erase")
    BY LengthNat DEF Length, Names
  <2>2. QED BY <1>1, <1>2, <1>3, <1>6, <2>1, SameLength DEF DriverInv, TasksOK
<1>9. LockOK'
  <2>1. DepthOf(t)' = lock'.depth
    BY <1>1, <1>2, <1>4, <1>5, <1>6 DEF DepthOf, Depth
  <2>2. \A u \in Tasks \ {t} : DepthOf(u)' = 0
    BY <1>4, <1>6 DEF DepthOf, DriverInv, LockOK
  <2>3. QED BY <1>2, <1>4, <1>5, <2>1, <2>2, DriverAssumption DEF LockOK
<1>10. HandleOK'
  <2>1. fn # "init"
    BY <1>1, <1>2 DEF Depth
  <2>2. fn = "deinit" => i = 3 /\ i # Length(fn)
    BY <1>1, DeinitPlan DEF Length
  <2>3. \A u \in Tasks : task'[u].fn \in {"init", "deinit"} =>
          task'[u].fn = task[u].fn /\ task'[u].at = IF u = t THEN 4 ELSE task[u].at
    BY <1>6, <2>1, <2>2
  <2>4. task'[t].fn = "deinit" <=> fn = "deinit"
    BY <1>6, <2>2
  <2>5. QED BY <1>1, <1>3, <1>6, <2>1, <2>2, <2>3, <2>4 DEF DriverInv, HandleOK
<1>11. QED BY <1>7, <1>8, <1>9, <1>10 DEF DriverInv

\* The record of a function that is called.
LEMMA BegunRecord ==
  ASSUME NEW fn \in Fns, NEW row \in Rows, NEW src \in Rows, NEW data \in Data,
         NEW t \in Tasks, DriverInv, Begin(t, fn, row, src, data)
  PROVE  \E new \in TaskRecords :
           /\ task' = [task EXCEPT ![t] = new]
           /\ new.fn = IF fn = "clear" THEN "block_is_bad" ELSE fn
           /\ new.fn \in Names /\ new.at = 1 /\ new.ret = "OK"
<1> DEFINE f == IF fn = "clear" THEN "block_is_bad" ELSE fn
           r == CASE fn \in {"block_is_bad", "block_erase", "block_mark_bad"} ->
                       first_row(row)
                  [] fn \in {"clear", "init", "deinit"} -> 0
                  [] OTHER -> row
           s == IF fn = "page_copy" THEN src ELSE 0
           d == CASE fn = "page_program" -> Page(data, FALSE)
                  [] fn = "block_mark_bad" -> Page(BLANK, TRUE)
                  [] OTHER -> Blank
           c == IF fn = "clear" THEN 0 ELSE -1
           new == [Idle EXCEPT !.fn = f, !.at = 1, !.row = r, !.src = s,
                               !.data = d, !.clear = c]
<1>1. task' = [task EXCEPT ![t] = new]
  BY DEF Begin
<1>2. f \in Names
  BY DriverAssumption DEF Names
<1>3. r \in Rows /\ s \in Rows
  BY FirstRow, ZeroRow
<1>4. d \in Pages
  BY BlankPage DEF Page, Pages
<1>5. c \in -1 .. (num_blocks - 1)
  BY DriverAssumption
<1> HIDE DEF f, r, s, d, c
<1>6. new \in TaskRecords /\ new.fn = f /\ new.at = 1 /\ new.ret = "OK"
  <2>1. Idle \in TaskRecords /\ Idle.ret = "OK"
    BY IdleRecord DEF Idle
  <2>2. QED BY ONLY <1>2, <1>3, <1>4, <1>5, <2>1 DEF TaskRecords
<1>7. QED BY <1>1, <1>2, <1>6 DEF f

\* A call that begins keeps the invariant.
LEMMA BeginStep ==
  ASSUME DriverInv, NEW t \in Tasks, NEW fn \in Fns, NEW row \in Rows,
         NEW src \in Rows, NEW data \in Data, Begin(t, fn, row, src, data)
  PROVE  DriverInv'
<1>1. PICK new \in TaskRecords :
        /\ task' = [task EXCEPT ![t] = new]
        /\ new.fn = IF fn = "clear" THEN "block_is_bad" ELSE fn
        /\ new.fn \in Names /\ new.at = 1
  BY BegunRecord
<1>2. /\ task[t].fn = "none" /\ handle.initialized = (fn # "init")
      /\ UNCHANGED <<protected, handle, lock, chip, seen, faults>>
      /\ EXCLUSIVE =>
           /\ fn \in {"init", "deinit"} => \A u \in Tasks : task[u].fn = "none"
           /\ \A u \in Tasks : task[u].fn \notin {"init", "deinit"}
  BY DEF Begin
<1>3. /\ task'[t] = new /\ \A u \in Tasks \ {t} : task'[u] = task[u]
      /\ task' \in [Tasks -> TaskRecords]
  BY <1>1 DEF DriverInv, Types
<1>4. Types'
  BY <1>2, <1>3 DEF DriverInv, Types
<1>5. TasksOK'
  <2>1. 1 \in 1 .. Length(new.fn)
    BY <1>1 DEF Length, Names
  <2>2. QED BY <1>1, <1>2, <1>3, <2>1, SameLength DEF DriverInv, TasksOK
<1>6. LockOK'
  <2>1. Depth(new.fn, 1) = 0
    BY <1>1 DEF Depth, Names
  <2>2. \A u \in Tasks : DepthOf(u)' = DepthOf(u)
    BY <1>1, <1>2, <1>3, <2>1 DEF DepthOf, Names
  <2>3. QED BY <1>2, <2>2 DEF LockOK, DriverInv
<1>7. HandleOK'
  BY <1>1, <1>2, <1>3 DEF DriverInv, HandleOK, Types
<1>8. QED BY <1>4, <1>5, <1>6, <1>7 DEF DriverInv

\* allocate keeps the invariant: lock and buffers exist from now on.
LEMMA AllocateStep ==
  ASSUME DriverInv, NEW t \in Tasks, allocate(t)
  PROVE  DriverInv'
<1>1. /\ task[t].fn \in Names /\ plan(task[t].fn)[task[t].at] = "allocate"
      /\ task[t].at \in 1 .. Length(task[t].fn) /\ step_of(t) = "allocate"
  BY StepOf DEF allocate
<1>2. /\ handle' = [initialized |-> FALSE, alive |-> TRUE]
      /\ UNCHANGED <<protected, lock, chip>> /\ faults' \in Nat
  BY DEF allocate, Fault, DriverInv, Types
<1>3. PICK k : /\ Moved(t, k)
               /\ k = task[t].at + 1 \/ k = cleanup(task[t].fn, task[t].at)
  <2>1. "NO_MEM" \in Results
    BY DEF Results
  <2>2. CASE Fail(t, "NO_MEM")
    BY <1>1, <2>1, <2>2, PlainFail DEF Special
  <2>3. CASE Advance(t)
    BY <2>3, AdvanceMoves DEF DriverInv
  <2>4. QED BY <2>2, <2>3 DEF allocate
<1>4. TasksOK' /\ LockOK' /\ k \in Nat /\ k > task[t].at
  BY <1>1, <1>2, <1>3, MoveOn
<1>5. task[t].fn = "init"
  <2>1. task[t].fn # "deinit"
    BY <1>1, DeinitPlan DEF Length
  <2>2. task[t].fn \notin {"page_read", "block_is_bad", "page_is_free"}
    BY <1>1, ReadPlan, IsFreePlan DEF Length
  <2>3. task[t].fn \notin {"page_program", "block_mark_bad"}
    BY <1>1, ProgramPlan DEF Length
  <2>4. task[t].fn \notin {"page_copy", "block_erase"}
    BY <1>1, CopyPlan, ErasePlan DEF Length
  <2>5. QED BY <1>1, <2>1, <2>2, <2>3, <2>4 DEF Names
<1>6. HandleOK'
  <2>1. task'[t].fn = "init" /\ task'[t].at > 1
    BY <1>1, <1>3, <1>4, <1>5 DEF Moved
  <2>2. EXCLUSIVE => \A u \in Tasks \ {t} : task'[u].fn = "none"
    BY <1>3, <1>5 DEF DriverInv, HandleOK, Moved
  <2>3. ~handle'.initialized /\ handle'.alive
    BY <1>2
  <2>4. QED BY <2>1, <2>2, <2>3 DEF HandleOK
<1>7. Types'
  BY <1>2, <1>3 DEF DriverInv, Types, Moved
<1>8. QED BY <1>4, <1>6, <1>7 DEF DriverInv

\* A handle with another flag is a handle.
LEMMA HandleRecord ==
  ASSUME NEW h \in [initialized : BOOLEAN, alive : BOOLEAN], NEW b \in BOOLEAN
  PROVE  LET g == [h EXCEPT !.initialized = b]
         IN  /\ g \in [initialized : BOOLEAN, alive : BOOLEAN]
             /\ g.initialized = b /\ g.alive = h.alive
OBVIOUS

\* clear_initialized keeps the invariant.
LEMMA ClearInitializedStep ==
  ASSUME DriverInv, NEW t \in Tasks, clear_initialized(t)
  PROVE  DriverInv'
<1>1. /\ task[t].fn \in Names /\ plan(task[t].fn)[task[t].at] = "clear_initialized"
      /\ task[t].at \in 1 .. Length(task[t].fn)
  BY StepOf DEF clear_initialized
<1>2. /\ handle' = [handle EXCEPT !.initialized = FALSE]
      /\ UNCHANGED <<protected, lock, chip, faults>> /\ Moved(t, task[t].at + 1)
  BY AdvanceMoves DEF clear_initialized, DriverInv
<1>3. TasksOK' /\ LockOK'
  BY <1>1, <1>2, MoveOn
<1>4. task[t].fn = "deinit" /\ task[t].at = 2
  <2>1. task[t].fn # "init"
    BY <1>1, InitPlan DEF Length
  <2>2. task[t].fn \notin {"page_read", "block_is_bad", "page_is_free"}
    BY <1>1, ReadPlan, IsFreePlan DEF Length
  <2>3. task[t].fn \notin {"page_program", "block_mark_bad"}
    BY <1>1, ProgramPlan DEF Length
  <2>4. task[t].fn \notin {"page_copy", "block_erase"}
    BY <1>1, CopyPlan, ErasePlan DEF Length
  <2>5. QED BY <1>1, <2>1, <2>2, <2>3, <2>4, DeinitPlan DEF Names, Length
<1>5. HandleOK'
  <2>1. task'[t].fn = "deinit" /\ task'[t].at = 3
    BY <1>2, <1>4 DEF Moved
  <2>2. EXCLUSIVE => \A u \in Tasks \ {t} : task'[u].fn = "none"
    BY <1>2, <1>4 DEF DriverInv, HandleOK, Moved
  <2>3. handle'.initialized = FALSE /\ handle'.alive = handle.alive
    BY <1>2, HandleRecord DEF DriverInv, Types
  <2>4. EXCLUSIVE => handle.alive
    BY <1>4 DEF DriverInv, HandleOK
  <2>5. (task'[t].at <= 2) = FALSE
    BY <2>1
  <2>6. EXCLUSIVE => handle'.alive
    BY <2>3, <2>4
  <2>7. \A u \in Tasks : task'[u].fn = "deinit" /\ EXCLUSIVE => u = t
    BY <2>2
  <2>8. ASSUME EXCLUSIVE, NEW u \in Tasks, task'[u].fn = "deinit"
        PROVE  handle'.alive /\ handle'.initialized = (task'[u].at <= 2)
    <3>1. u = t
      BY <2>7, <2>8
    <3>2. QED BY <2>3, <2>5, <2>6, <2>8, <3>1
  <2>9. QED BY <2>1, <2>2, <2>6, <2>8 DEF HandleOK
<1>6. Types'
  BY <1>2 DEF DriverInv, Types, Moved
<1>7. QED BY <1>3, <1>5, <1>6 DEF DriverInv

\* init and deinit end here, without the lock.
LEMMA HandleEndStep ==
  ASSUME DriverInv, NEW t \in Tasks, set_initialized(t) \/ release_resources(t)
  PROVE  DriverInv'
<1>1. /\ task[t].fn \in Names /\ task[t].fn # "none"
      /\ plan(task[t].fn)[task[t].at] \in {"set_initialized", "release_resources"}
      /\ task[t].at \in 1 .. Length(task[t].fn)
  BY StepOf DEF set_initialized, release_resources
<1>2. /\ UNCHANGED <<protected, lock, chip, faults>>
      /\ task' = [task EXCEPT ![t] = Idle]
      /\ \/ plan(task[t].fn)[task[t].at] = "set_initialized"
            /\ handle' = [handle EXCEPT !.initialized = TRUE]
         \/ handle' = [initialized |-> FALSE, alive |-> FALSE]
  BY StepOf DEF set_initialized, release_resources
<1>3. /\ task'[t].fn = "none" /\ \A u \in Tasks \ {t} : task'[u] = task[u]
      /\ task' \in [Tasks -> TaskRecords]
  BY <1>2, IdleRecord DEF DriverInv, Types
<1>4. task[t].fn \in {"init", "deinit"} /\ DepthOf(t) = 0
  BY <1>1, LockSteps DEF DepthOf
<1>5. Types'
  <2>1. handle' \in [initialized : BOOLEAN, alive : BOOLEAN]
    <3>1. handle \in [initialized : BOOLEAN, alive : BOOLEAN]
      BY DEF DriverInv, Types
    <3>2. [handle EXCEPT !.initialized = TRUE] \in [initialized : BOOLEAN, alive : BOOLEAN]
      BY <3>1, HandleRecord
    <3>3. [initialized |-> FALSE, alive |-> FALSE] \in [initialized : BOOLEAN, alive : BOOLEAN]
      OBVIOUS
    <3>4. QED BY <1>2, <3>2, <3>3
  <2>2. QED BY <1>2, <1>3, <2>1 DEF DriverInv, Types
<1>6. TasksOK'
  BY <1>2, <1>3, SameLength DEF DriverInv, TasksOK
<1>7. LockOK'
  BY <1>2, <1>3, <1>4 DEF DriverInv, LockOK, DepthOf
<1>8. HandleOK'
  <2>1. plan(task[t].fn)[task[t].at] = "set_initialized" =>
          task[t].fn = "init" /\ task[t].at > 1
    BY <1>1, <1>4, DeinitPlan, InitPlan DEF Length
  <2>2. EXCLUSIVE => \A u \in Tasks : task'[u].fn = "none"
    BY <1>3, <1>4 DEF DriverInv, HandleOK
  <2>3. EXCLUSIVE => handle'.alive = handle'.initialized
    <3>1. CASE handle' = [initialized |-> FALSE, alive |-> FALSE]
      BY <3>1
    <3>2. CASE /\ plan(task[t].fn)[task[t].at] = "set_initialized"
               /\ handle' = [handle EXCEPT !.initialized = TRUE]
      <4>1. handle'.initialized = TRUE /\ handle'.alive = handle.alive
        BY <3>2, HandleRecord DEF DriverInv, Types
      <4>2. EXCLUSIVE => handle.alive
        BY <2>1, <3>2 DEF DriverInv, HandleOK
      <4>3. QED BY <4>1, <4>2
    <3>3. QED BY <1>2, <3>1, <3>2
  <2>4. QED BY <2>2, <2>3 DEF HandleOK
<1>9. QED BY <1>5, <1>6, <1>7, <1>8 DEF DriverInv

-----------------------------------------------------------------------------
(* The invariant and what follows from it                                  *)

\* The invariant holds at first.
LEMMA DriverInitInv == DriverInit => DriverInv
<1> SUFFICES ASSUME DriverInit PROVE DriverInv
  OBVIOUS
<1> USE DEF DriverInit
<1>1. ChipOK(PowerOn)
  <2>1. [r \in Rows |-> Blank] \in [Rows -> Pages] /\ NoJob \in Jobs
    BY BlankPage, ZeroRow DEF NoJob, Jobs
  <2>2. QED BY <2>1, BlankPage DEF ChipOK, ChipRecords, PowerOn
<1>2. Types
  BY <1>1, IdleRecord, DriverAssumption DEF Types
<1>3. TasksOK /\ LockOK /\ HandleOK
  BY IdleRecord, DriverAssumption DEF TasksOK, LockOK, HandleOK, DepthOf
<1>4. QED BY <1>2, <1>3 DEF DriverInv

\* The invariant is inductive.
LEMMA DriverNextInv == DriverInv /\ [DriverNext]_driverVars => DriverInv'
<1> SUFFICES ASSUME DriverInv, [DriverNext]_driverVars PROVE DriverInv'
  OBVIOUS
<1>1. CASE UNCHANGED driverVars
  BY <1>1 DEF driverVars, DriverInv, Types, TasksOK, LockOK, HandleOK, DepthOf, Length
<1>2. ASSUME NEW t \in Tasks, Step(t) PROVE DriverInv'
  BY <1>2, UnlockStep, TransfersStep, WriteDisableIfFailedStep, ResetStep,
     ReadFromCacheStep, WaitReadyStep, AllocateStep, ClearInitializedStep,
     HandleEndStep DEF Step
<1>3. QED
  BY <1>1, <1>2, BeginStep, LockStep, ChipReadyStep DEF DriverNext

\* Every step of every interleaving keeps DriverInv, whatever fails in it.
THEOREM DriverInvariance == DriverSpec => []DriverInv
BY DriverInitInv, DriverNextInv, PTL DEF DriverSpec

\* The handle, the chip and the tasks keep their types (DriverTypeOK), however
\* the functions of the driver are interleaved and wherever they fail.
THEOREM DriverTypeCorrect == DriverSpec => []DriverTypeOK
<1>1. ASSUME DriverInv PROVE DriverTypeOK
  <2>1. chip.oip = (chip.job # NoJob)
    BY <1>1 DEF DriverInv, Types, ChipOK, ChipRecords, NoJob
  <2>2. \A t \in Tasks : task[t].fn # "none" =>
          task[t].at \in 1 .. Len(plan(task[t].fn))
    BY <1>1, PlanLength DEF DriverInv, Types, TasksOK, TaskRecords
  <2>3. QED
    BY <1>1, <2>1, <2>2 DEF DriverTypeOK, DriverInv, Types, ChipOK, ChipRecords,
       TaskRecords
<1>2. QED BY <1>1, DriverInvariance, PTL

\* The recursive mutex is held by the task that is between NAND_LOCK and
\* NAND_UNLOCK, as deep as its calls are nested (LockMatchesCalls): no error
\* path of the driver keeps it or gives it away.
THEOREM LockMatches == DriverSpec => []LockMatchesCalls
<1>1. ASSUME DriverInv PROVE LockMatchesCalls
  <2>1. \A t \in Tasks : held(t) = DepthOf(t)
    BY <1>1, HeldDepth DEF DriverInv, Types, TasksOK, TaskRecords, DepthOf, held
  <2>2. QED BY <1>1, <2>1 DEF DriverInv, LockOK, LockMatchesCalls
<1>2. QED BY <1>1, DriverInvariance, PTL

\* If nobody calls while the handle is set up or given up, lock and buffers
\* exist exactly as long as the handle is initialized (ResourcesMatch): an init
\* that fails half-way releases what it has got.
THEOREM ResourcesAreReleased ==
  ASSUME EXCLUSIVE
  PROVE  DriverSpec => []ResourcesMatch
<1>1. DriverInv => ResourcesMatch
  BY DEF DriverInv, HandleOK, ResourcesMatch
<1>2. QED BY <1>1, DriverInvariance, PTL

\* Under the same condition no function finds the lock or the buffers gone
\* (NoUseAfterFree), which fails without it.
THEOREM ExclusiveIsEnough ==
  ASSUME EXCLUSIVE
  PROVE  DriverSpec => []NoUseAfterFree
<1>1. ASSUME DriverInv PROVE NoUseAfterFree
  BY <1>1 DEF DriverInv, HandleOK, NoUseAfterFree
<1>2. QED BY <1>1, DriverInvariance, PTL

-----------------------------------------------------------------------------
(***************************************************************************)
(* What a call makes of the chip: CallsAreAtomic and NoSingleFaultOpens,   *)
(* on top of the invariant above.  Only the task that holds the lock sends *)
(* commands, or init, which runs alone.  CallOK says of the task with the  *)
(* lock what chip and array are at every step of its function; SafeOK says *)
(* when the chip can be write-enabled while at most one fault has          *)
(* happened.                                                               *)
(***************************************************************************)

Reads == {"page_read", "block_is_bad", "page_is_free"}
Programs == {"page_program", "block_mark_bad"}
Writes == Programs \cup {"page_copy", "block_erase"}

\* The step of a write that changes the array, its job, and the bit of the
\* status register that tells that it has failed.
Exec(fn) ==
  LET w == IF protected THEN 1 ELSE 0
  IN  CASE fn \in Programs -> 4 + w
        [] fn = "page_copy" -> 5 + w
        [] OTHER -> 3 + w

Kind(fn) == IF fn = "block_erase" THEN "erase" ELSE "program"
Flag(fn) == IF fn = "block_erase" THEN "E_FAIL" ELSE "P_FAIL"

\* The step that enables writes.
Enable(fn) == IF fn \in Programs THEN Exec(fn) - 2 ELSE Exec(fn) - 1

\* The step before the first transfer of a read.
ReadAt(fn) == IF fn = "page_is_free" THEN 3 ELSE 2

\* The build without protected mode opens the chip in init, and never closes
\* it; init works on a chip that is not busy once it is reset.
OpenOK ==
  /\ \A t \in Tasks : task[t].fn = "init" /\ task[t].at \in 4 .. (Length("init") - 1) =>
       ~chip.oip /\ (~protected /\ task[t].at > 6 => ~chip.prot)
  /\ ~protected /\ handle.initialized => ~chip.prot

\* What a read has found so far: step i, results so far, the chip c.
ReadState(t, i, ok, out, c) ==
  LET r == ReadAt(task[t].fn)
      page == seen.array[task[t].row]
  IN  /\ c.array = seen.array
      /\ c.oip => c.job.kind = "read"
      /\ ok =>
           /\ i <= r => ~c.oip
           /\ i = r + 1 => IF c.oip THEN c.job.row = task[t].row ELSE c.cache = page
           /\ i = r + 2 => ~c.oip /\ c.cache = page
           /\ i >= r + 3 => out = page

ReadOK(t) == ReadState(t, task[t].at, task[t].ret = "OK", task[t].out, chip)

\* What a write has done to the array so far: step i, the chip c.
WriteArray(t, i, c) ==
  LET fn == task[t].fn
  IN  /\ \A r \in Rows \ touched(t) : c.array[r] = seen.array[r]
      /\ c.oip => \/ c.job.kind = "read"
                  \/ c.job.kind = Kind(fn) /\ c.job.row = task[t].row
      /\ i <= Exec(fn) => c.array = seen.array /\ (c.oip => c.job.kind = "read")

\* How far a write is that has not failed.
WriteProgress(t, i, c) ==
  LET fn == task[t].fn
      x == Exec(fn)
      source == seen.array[task[t].src]
  IN  /\ fn = "page_copy" /\ i = 3 =>
           IF c.oip THEN c.job.row = task[t].src ELSE c.cache = source
      /\ i <= x /\ ~(fn = "page_copy" /\ i = 3) => ~c.oip
      /\ i > Enable(fn) /\ i <= x => c.wel
      /\ protected /\ i >= Enable(fn) /\ i <= x => ~c.prot
      /\ fn = "page_copy" /\ i \in 4 .. (x + 1) => c.cache = source
      /\ fn \in Programs /\ i \in {x, x + 1} => c.cache = task[t].data
      /\ i = x + 1 =>
           IF c.oip THEN c.array = seen.array /\ c.job.kind = Kind(fn)
           ELSE Flag(fn) \in c.status \/ c.array = effect(t, seen.array)
      /\ i > x + 1 => ~c.oip /\ c.array = effect(t, seen.array)

WriteState(t, i, ok, c) == WriteArray(t, i, c) /\ (ok => WriteProgress(t, i, c))

WriteOK(t) == WriteState(t, task[t].at, task[t].ret = "OK", chip)

CallOK ==
  ~seen.oip =>
    \A t \in Tasks : lock.owner = t =>
      /\ task[t].fn \in Reads => ReadOK(t)
      /\ task[t].fn \in Writes => WriteOK(t)
      /\ task[t].fn = "deinit" => ~chip.oip /\ chip.array = seen.array

CallInv == DriverInv /\ OpenOK /\ CallOK

\* Writes are enabled only as long as the chip works on one.
Closed(c) == c.wel => c.oip /\ c.job.kind # "read"

\* The task waits for a job.
Waits(t) == lock.owner = t /\ step_of(t) = "wait_ready"

\* The job that step i of fn waits for.
JobOf(fn, i) ==
  IF fn \in Writes /\ i = Exec(fn) + 1 THEN Kind(fn) ELSE "read"

\* At step i of a write, with f faults: in between it has enabled writes, and
\* must see to it that they are disabled.
SafeWrite(fn, i, ok, c, f) ==
  LET x == Exec(fn)
  IN  /\ i \notin (Enable(fn) + 1) .. (x + 2) /\ f <= 1 => Closed(c)
      /\ i = Enable(fn) /\ f = 0 => ~c.prot
      /\ i \in (Enable(fn) + 1) .. x =>
           /\ c.oip /\ c.wel /\ f <= 1 => c.job.kind # "read"
           /\ f = 0 => ~c.prot
      /\ i = x + 1 /\ c.wel /\ f <= 1 =>
           IF c.oip THEN c.job.kind # "read" ELSE Flag(fn) \in c.status
      /\ i = x + 2 /\ f <= 1 =>
           /\ c.oip /\ c.wel => c.job.kind # "read"
           /\ ok \/ f = 0 => Closed(c)

SafeOK ==
  /\ faults = 0 => "P_FAIL" \notin chip.status /\ "E_FAIL" \notin chip.status
  /\ chip.oip /\ faults = 0 =>
       \E t \in Tasks : Waits(t) /\ chip.job.kind = JobOf(task[t].fn, task[t].at)
  /\ \A t \in Tasks : lock.owner = t /\ task[t].fn \in Writes =>
       SafeWrite(task[t].fn, task[t].at, task[t].ret = "OK", chip, faults)
  /\ (\A t \in Tasks : lock.owner = t => task[t].fn \notin Writes) /\ faults <= 1 =>
       Closed(chip)

SafeInv == CallInv /\ SafeOK

-----------------------------------------------------------------------------
(* Reads and writes, step by step                                          *)

\* Where the steps of a reading function are, and where a failure leads.
LEMMA ReadSteps ==
  ASSUME NEW fn \in Reads, NEW i \in 1 .. Length(fn)
  PROVE  LET s == plan(fn)[i]
             r == ReadAt(fn) IN
         /\ s = "page_read" => i = r
         /\ s = "wait_ready" => i = r + 1
         /\ s = "read_from_cache" => i = r + 2
         /\ s = "NAND_LOCK" => i < r
         /\ s = "NAND_UNLOCK" => i >= r + 3
         /\ s \in {"page_read", "wait_ready", "read_from_cache", "NAND_LOCK",
                   "NAND_UNLOCK"}
         /\ i \in r .. (r + 2) => cleanup(fn, i) = r + 3
<1>1. CASE fn \in {"page_read", "block_is_bad"}
  BY <1>1, ReadPlan, ReadCleanup DEF Length, ReadAt
<1>2. CASE fn = "page_is_free"
  BY <1>2, IsFreePlan, IsFreeCleanup DEF Length, ReadAt
<1>3. QED BY <1>1, <1>2 DEF Reads

\* Where the steps of a writing function are.
LEMMA WriteSteps ==
  ASSUME NEW fn \in Writes, NEW i \in 1 .. Length(fn)
  PROVE  LET s == plan(fn)[i]
             x == Exec(fn) IN
         /\ s \in {"NAND_LOCK", "unlock_all_blocks", "write_enable",
                   "program_load", "program_execute", "block_erase",
                   "page_read", "wait_ready", "write_disable",
                   "lock_all_blocks", "write_disable_if_failed", "NAND_UNLOCK"}
         /\ s = "NAND_LOCK" => i = 1
         /\ s = "unlock_all_blocks" => protected /\ i = Enable(fn) - 1
         /\ s = "write_enable" => i = Enable(fn)
         /\ s = "program_load" => fn \in Programs /\ i = x - 1
         /\ s = "program_execute" => fn # "block_erase" /\ i = x
         /\ s = "block_erase" => fn = "block_erase" /\ i = x
         /\ s = "page_read" => fn = "page_copy" /\ i = 2
         /\ s = "wait_ready" => i = x + 1 \/ (fn = "page_copy" /\ i = 3)
         /\ s = "write_disable" => protected /\ i = x + 2
         /\ s = "lock_all_blocks" => protected /\ i = x + 3
         /\ s = "write_disable_if_failed" => ~protected /\ i = x + 2
         /\ s = "NAND_UNLOCK" => i = Length(fn)
<1>1. CASE fn \in Programs
  BY <1>1, ProgramPlan DEF Length, Exec, Enable, Programs
<1>2. CASE fn = "page_copy"
  BY <1>2, CopyPlan DEF Length, Exec, Enable, Programs
<1>3. CASE fn = "block_erase"
  BY <1>3, ErasePlan DEF Length, Exec, Enable, Programs
<1>4. QED BY <1>1, <1>2, <1>3 DEF Writes

\* Where the steps are.
LEMMA WritePlaces ==
  ASSUME NEW fn \in Writes
  PROVE  LET x == Exec(fn) IN
         /\ x \in Nat /\ Enable(fn) \in 2 .. (x - 1)
         /\ protected => Enable(fn) >= 3
         /\ fn = "page_copy" => Enable(fn) >= 4
         /\ Length(fn) = IF protected THEN x + 4 ELSE x + 3
         /\ plan(fn)[x + 1] = "wait_ready"
         /\ fn = "page_copy" => plan(fn)[3] = "wait_ready"
<1>1. CASE fn \in Programs
  BY <1>1, ProgramPlan DEF Length, Exec, Enable, Programs
<1>2. CASE fn = "page_copy"
  BY <1>2, CopyPlan DEF Length, Exec, Enable, Programs
<1>3. CASE fn = "block_erase"
  BY <1>3, ErasePlan DEF Length, Exec, Enable, Programs
<1>4. QED BY <1>1, <1>2, <1>3 DEF Writes

\* A failure after "write_enable" goes to write_end.
LEMMA WriteCleanup ==
  ASSUME NEW fn \in Writes, NEW i \in 2 .. (Length(fn) - 1), protected \in BOOLEAN
  PROVE  cleanup(fn, i) = IF i \in Enable(fn) .. (Exec(fn) + 1) THEN Exec(fn) + 2
                          ELSE Length(fn)
<1>1. CASE fn \in Programs
  BY <1>1, ProgramCleanup DEF Length, Exec, Enable, Programs
<1>2. CASE fn = "page_copy"
  BY <1>2, CopyCleanup DEF Length, Exec, Enable, Programs
<1>3. CASE fn = "block_erase"
  BY <1>3, EraseCleanup DEF Length, Exec, Enable, Programs
<1>4. QED BY <1>1, <1>2, <1>3 DEF Writes

-----------------------------------------------------------------------------
(* Who sends commands                                                      *)

\* The steps at which a task takes or gives the lock, or ends without it.
Ends == {"NAND_LOCK", "NAND_UNLOCK", "set_initialized", "release_resources"}

\* A function other than init holds the lock at every other step.
LEMMA HasDepth ==
  ASSUME NEW fn \in Names \ {"init"}, NEW i \in 1 .. Length(fn),
         plan(fn)[i] \notin Ends \ {"NAND_UNLOCK"}
  PROVE  Depth(fn, i) > 0
<1>1. CASE fn \in {"page_read", "block_is_bad"}
  BY <1>1, ReadPlan DEF Length, Depth, Ends
<1>2. CASE fn = "page_is_free"
  BY <1>2, IsFreePlan DEF Length, Depth, Ends
<1>3. CASE fn = "deinit"
  BY <1>3, DeinitPlan DEF Length, Depth, Ends
<1>4. CASE fn \in {"page_program", "block_mark_bad"}
  BY <1>4, ProgramPlan DEF Length, Depth, Ends
<1>5. CASE fn = "page_copy"
  BY <1>5, CopyPlan DEF Length, Depth, Ends
<1>6. CASE fn = "block_erase"
  BY <1>6, ErasePlan DEF Length, Depth, Ends
<1>7. QED BY <1>1, <1>2, <1>3, <1>4, <1>5, <1>6 DEF Names

\* The task with the lock, or init, which runs alone.
Holds(t) == task[t].fn # "init" /\ lock.owner = t
Alone(t) == /\ task[t].fn = "init" /\ lock.owner = NOBODY
            /\ \A u \in Tasks \ {t} : task[u].fn = "none"

\* A task that makes a step has the lock, or is init and alone in the driver.
LEMMA Actor ==
  ASSUME EXCLUSIVE, DriverInv, NEW t \in Tasks, NEW s, step_of(t) = s, s # "none",
         s \notin Ends \ {"NAND_UNLOCK"}
  PROVE  Holds(t) \/ Alone(t)
<1>1. /\ task[t].fn \in Names /\ plan(task[t].fn)[task[t].at] = s
      /\ task[t].at \in 1 .. Length(task[t].fn) /\ task[t].fn # "none"
  BY StepOf
<1>2. CASE task[t].fn = "init"
  <2>1. \A u \in Tasks \ {t} : task[u].fn = "none"
    BY <1>2 DEF DriverInv, HandleOK
  <2>2. \A u \in Tasks : DepthOf(u) = 0
    BY <1>2, <2>1 DEF DepthOf, Depth
  <2>3. lock.owner = NOBODY
    BY <2>2, DriverAssumption DEF DriverInv, Types, LockOK
  <2>4. QED BY <1>2, <2>1, <2>3 DEF Alone
<1>3. CASE task[t].fn # "init"
  <2>1. Depth(task[t].fn, task[t].at) > 0
    BY <1>1, <1>3, HasDepth
  <2>2. DepthOf(t) > 0
    BY <1>1, <2>1 DEF DepthOf
  <2>3. QED BY <1>3, <2>2 DEF Holds, DriverInv, LockOK
<1>4. QED BY <1>2, <1>3

\* While a function holds the lock, no init runs.
LEMMA NoInit ==
  ASSUME EXCLUSIVE, DriverInv, NEW t \in Tasks, lock.owner = t
  PROVE  /\ task[t].fn \in Names \ {"init"} /\ task[t].at \in 1 .. Length(task[t].fn)
         /\ \A u \in Tasks : task[u].fn # "init"
<1>1. lock.depth > 0 /\ DepthOf(t) = lock.depth
  BY DriverAssumption DEF DriverInv, Types, LockOK
<1>2. task[t].fn \notin {"none", "init"}
  BY <1>1 DEF DepthOf, Depth
<1>3. QED
  BY <1>2 DEF DriverInv, Types, TasksOK, TaskRecords, HandleOK

-----------------------------------------------------------------------------
(* What the commands do to the chip, field by field                        *)

\* What an accepted command leaves of each field of the chip.
LEMMA Commands ==
  ASSUME ChipOK(chip)
  PROVE  /\ \A b : LET c == accepted([chip EXCEPT !.wel = b]) IN
              /\ c.oip = chip.oip /\ c.job = chip.job /\ c.array = chip.array
              /\ c.cache = chip.cache /\ c.status = chip.status
              /\ c.prot = chip.prot /\ c.wel = IF chip.oip THEN chip.wel ELSE b
         /\ \A b : LET c == accepted([chip EXCEPT !.prot = b]) IN
              /\ c.oip = chip.oip /\ c.job = chip.job /\ c.array = chip.array
              /\ c.cache = chip.cache /\ c.status = chip.status
              /\ c.wel = chip.wel /\ c.prot = IF chip.oip THEN chip.prot ELSE b
         /\ \A page : LET c == accepted([chip EXCEPT !.cache = page]) IN
              /\ c.oip = chip.oip /\ c.job = chip.job /\ c.array = chip.array
              /\ c.status = chip.status /\ c.wel = chip.wel /\ c.prot = chip.prot
              /\ c.cache = IF chip.oip THEN chip.cache ELSE page
         /\ \A row : LET c == accepted([chip EXCEPT !.oip = TRUE,
                                   !.job = [kind |-> "read", row |-> row]]) IN
              /\ c.oip /\ c.array = chip.array /\ c.cache = chip.cache
              /\ c.status = chip.status /\ c.wel = chip.wel /\ c.prot = chip.prot
              /\ c.job = IF chip.oip THEN chip.job ELSE [kind |-> "read", row |-> row]
BY DEF ChipOK, ChipRecords, accepted

\* An operation starts, fails at once, or is ignored.
LEMMA Started ==
  ASSUME ChipOK(chip), NEW kind, NEW row, NEW flag
  PROVE  LET c == started(kind, row, flag)
             runs == ~chip.oip /\ chip.wel /\ ~chip.prot IN
         /\ c.array = chip.array /\ c.cache = chip.cache
         /\ c.wel = chip.wel /\ c.prot = chip.prot
         /\ c.oip = IF runs THEN TRUE ELSE chip.oip
         /\ c.job = IF runs THEN [kind |-> kind, row |-> row] ELSE chip.job
         /\ c.status = IF ~chip.oip /\ chip.wel /\ chip.prot
                       THEN chip.status \cup {flag} ELSE chip.status
BY DEF ChipOK, ChipRecords, started, accepted

\* What is left of a job that comes to its end.
LEMMA Finished ==
  ASSUME NEW c, ChipOK(c), c.oip, NEW fails \in BOOLEAN
  PROVE  LET d == finished(c, fails)
             r == c.job.row
             k == c.job.kind IN
         /\ ~d.oip /\ d.job = NoJob /\ d.prot = c.prot
         /\ k = "read" =>
              /\ d.array = c.array /\ d.cache = c.array[r] /\ d.wel = c.wel
              /\ d.status \ {"ECC_ERR"} = c.status \ {"ECC_ERR"}
         /\ k = "program" =>
              /\ d.cache = c.cache
              /\ \A x \in Rows \ {r} : d.array[x] = c.array[x]
              /\ fails => d.wel = c.wel /\ d.status = c.status \cup {"P_FAIL"}
              /\ ~fails => /\ ~d.wel /\ d.status = c.status \ {"P_FAIL"}
                           /\ d.array = [c.array EXCEPT ![r] = programmed(@, c.cache)]
         /\ k = "erase" =>
              /\ d.cache = c.cache
              /\ \A x \in Rows \ block_rows(r) : d.array[x] = c.array[x]
              /\ fails => d.wel = c.wel /\ d.status = c.status \cup {"E_FAIL"}
              /\ ~fails => /\ ~d.wel /\ d.status = c.status \ {"E_FAIL"}
                           /\ d.array = [x \in Rows |->
                                IF x \in block_rows(r) THEN Blank ELSE c.array[x]]
         /\ k \in {"read", "program", "erase"}
<1>1. /\ c \in ChipRecords /\ c.job.kind \in {"read", "program", "erase"}
      /\ c.job.row \in Rows
  BY DEF ChipOK, ChipRecords, Jobs
<1>2. CASE c.job.kind = "read"
  BY <1>1, <1>2 DEF finished, ChipRecords
<1>3. CASE c.job.kind = "program" /\ fails
  BY <1>1, <1>3 DEF finished, ChipRecords
<1>4. CASE c.job.kind = "program" /\ ~fails
  BY <1>1, <1>4 DEF finished, ChipRecords
<1>5. CASE c.job.kind = "erase" /\ fails
  BY <1>1, <1>5 DEF finished, ChipRecords
<1>6. CASE c.job.kind = "erase" /\ ~fails
  BY <1>1, <1>6 DEF finished, ChipRecords
<1>7. QED BY <1>1, <1>2, <1>3, <1>4, <1>5, <1>6

-----------------------------------------------------------------------------
(* What a task knows when it goes on                                       *)

\* A task that moves, or stays, keeps its arguments.
LEMMA SameCall ==
  ASSUME NEW t \in Tasks, NEW k, Moved(t, k), UNCHANGED <<protected, seen>>
  PROVE  /\ ReadOK(t)' <=> ReadState(t, k, task'[t].ret = "OK", task'[t].out, chip')
         /\ WriteOK(t)' <=> WriteState(t, k, task'[t].ret = "OK", chip')
<1>1. /\ task'[t].fn = task[t].fn /\ task'[t].at = k
      /\ task'[t].row = task[t].row /\ task'[t].src = task[t].src
      /\ task'[t].data = task[t].data /\ seen' = seen /\ protected' = protected
  BY DEF Moved
<1>2. touched(t)' = touched(t)
  BY <1>1 DEF touched, block_rows
<1>3. \A a : effect(t, a)' = effect(t, a)
  BY <1>1 DEF effect
<1>4. Exec(task[t].fn)' = Exec(task[t].fn) /\ Enable(task[t].fn)' = Enable(task[t].fn)
  BY <1>1 DEF Exec, Enable
<1>5. QED
  BY <1>1, <1>2, <1>3, <1>4 DEF ReadOK, ReadState, WriteOK, WriteState, WriteArray,
     WriteProgress, ReadAt, Kind, Flag

\* The task with the lock goes to step k: the chip is as CallOK wants it.
LEMMA HolderMoves ==
  ASSUME EXCLUSIVE, CallInv, DriverInv', NEW t \in Tasks, Holds(t), NEW k, Moved(t, k),
         UNCHANGED <<protected, lock, seen>>,
         handle'.initialized => handle.initialized,
         ~protected /\ ~chip.prot => ~chip'.prot,
         ~seen.oip /\ task[t].fn \in Reads =>
           ReadState(t, k, task'[t].ret = "OK", task'[t].out, chip'),
         ~seen.oip /\ task[t].fn \in Writes =>
           WriteState(t, k, task'[t].ret = "OK", chip'),
         task[t].fn = "deinit" => chip'.oip = chip.oip /\ chip'.array = chip.array
  PROVE  CallInv'
<1>1. \A u \in Tasks : task'[u].fn # "init"
  BY NoInit DEF CallInv, Holds, Moved
<1>2. OpenOK'
  BY <1>1 DEF CallInv, OpenOK
<1>3. CallOK'
  <2>1. lock'.owner = t /\ seen' = seen /\ task'[t].fn = task[t].fn
    BY DEF Holds, Moved
  <2>2. ~seen.oip /\ task[t].fn = "deinit" => ~chip'.oip /\ chip'.array = seen.array
    BY DEF CallInv, CallOK, Holds
  <2>3. ~seen.oip /\ task[t].fn \in Reads => ReadOK(t)'
    BY SameCall
  <2>4. ~seen.oip /\ task[t].fn \in Writes => WriteOK(t)'
    BY SameCall
  <2>5. QED
    BY <2>1, <2>2, <2>3, <2>4 DEF CallOK
<1>4. QED BY <1>2, <1>3 DEF CallInv

\* init moves: nobody has the lock.
LEMMA AloneMoves ==
  ASSUME EXCLUSIVE, CallInv, DriverInv', NEW t \in Tasks, Alone(t), NEW k, Moved(t, k),
         UNCHANGED <<protected, lock>>, ~handle'.initialized,
         k \in 4 .. (Length("init") - 1) =>
           ~chip'.oip /\ (~protected /\ k > 6 => ~chip'.prot)
  PROVE  CallInv'
<1>1. \A u \in Tasks \ {t} : task'[u].fn = "none"
  BY DEF Moved, Alone
<1>2. Length("init")' = Length("init")
  BY SameLength
<1>3. OpenOK'
  BY <1>1, <1>2 DEF OpenOK, Moved
<1>4. CallOK'
  BY DriverAssumption DEF CallOK, Alone
<1>5. QED BY <1>3, <1>4 DEF CallInv

\* A step at which a read or a write fails leaves it at its cleanup.
LEMMA FailState ==
  ASSUME DriverInv, NEW t \in Tasks, NEW s, step_of(t) = s, s \notin Special, NEW out
  PROVE  LET k == cleanup(task[t].fn, task[t].at) IN
         /\ task[t].fn \in Reads /\ ReadOK(t) => ReadState(t, k, FALSE, out, chip)
         /\ task[t].fn \in Writes /\ WriteOK(t) => WriteState(t, k, FALSE, chip)
<1> DEFINE fn == task[t].fn
           i == task[t].at
<1>1. fn \in Names /\ plan(fn)[i] = s /\ i \in 1 .. Length(fn)
  BY StepOf DEF Special
<1>2. ASSUME fn \in Writes, WriteOK(t)
      PROVE  WriteState(t, cleanup(fn, i), FALSE, chip)
  <2>1. /\ Length(fn) = IF protected THEN Exec(fn) + 4 ELSE Exec(fn) + 3
        /\ Exec(fn) \in Nat
    BY <1>2, WritePlaces
  <2>2. i # 1 /\ i # Length(fn)
    <3>1. CASE fn \in Programs
      BY <1>1, <3>1, ProgramPlan DEF Length, Programs, Special
    <3>2. CASE fn = "page_copy"
      BY <1>1, <3>2, CopyPlan DEF Length, Special
    <3>3. CASE fn = "block_erase"
      BY <1>1, <3>3, ErasePlan DEF Length, Special
    <3>4. QED BY <1>2, <3>1, <3>2, <3>3 DEF Writes
  <2>3. i \in 2 .. (Length(fn) - 1)
    BY <1>1, <2>1, <2>2
  <2>4. protected \in BOOLEAN
    BY DEF DriverInv, Types
  <2>5. cleanup(fn, i) > Exec(fn) /\ cleanup(fn, i) \in Nat
    BY <1>2, <2>1, <2>3, <2>4, WriteCleanup
  <2>6. QED BY <1>2, <2>1, <2>5 DEF WriteOK, WriteState, WriteArray
<1>3. fn \in Reads /\ ReadOK(t) => ReadState(t, cleanup(fn, i), FALSE, out, chip)
  BY DEF ReadOK, ReadState
<1>4. QED BY <1>2, <1>3

\* A transfer of the task with the lock.
LEMMA HolderTransfers ==
  ASSUME EXCLUSIVE, CallInv, NEW t \in Tasks, Holds(t), NEW s, s \notin Special,
         NEW c, ChipOK(c), Transfer(t, s, c),
         ~protected /\ ~chip.prot => ~c.prot,
         ~seen.oip /\ task[t].fn \in Reads =>
           ReadState(t, task[t].at + 1, task[t].ret = "OK", task[t].out, c),
         ~seen.oip /\ task[t].fn \in Writes =>
           WriteState(t, task[t].at + 1, task[t].ret = "OK", c)
  PROVE  CallInv'
<1>1. DriverInv /\ DriverInv'
  BY TransferStep DEF CallInv
<1>2. /\ task[t].fn \in Names /\ plan(task[t].fn)[task[t].at] = s
      /\ task[t].at \in 1 .. Length(task[t].fn)
  BY <1>1, StepOf DEF Transfer, Special
<1>3. task[t].fn # "deinit"
  BY <1>2, DeinitPlan DEF Length, Special
<1>4. UNCHANGED <<protected, handle, lock, seen>> /\ step_of(t) = s
  BY DEF Transfer
<1>5. CASE /\ Moved(t, task[t].at + 1) /\ task'[t].ret = task[t].ret
           /\ chip' = c /\ task'[t].out = task[t].out
  BY <1>1, <1>3, <1>4, <1>5, HolderMoves
<1>6. CASE Moved(t, cleanup(task[t].fn, task[t].at)) /\ task'[t].ret # "OK"
           /\ chip' = chip /\ task'[t].out = task[t].out
  <2>1. ~seen.oip /\ task[t].fn \in Reads => ReadOK(t)
    BY DEF CallInv, CallOK, Holds
  <2>2. ~seen.oip /\ task[t].fn \in Writes => WriteOK(t)
    BY DEF CallInv, CallOK, Holds
  <2>3. /\ ~seen.oip /\ task[t].fn \in Reads =>
             ReadState(t, cleanup(task[t].fn, task[t].at), FALSE, task'[t].out, chip)
        /\ ~seen.oip /\ task[t].fn \in Writes =>
             WriteState(t, cleanup(task[t].fn, task[t].at), FALSE, chip)
    BY <1>1, <1>4, <2>1, <2>2, FailState
  <2>4. (task'[t].ret = "OK") = FALSE
    BY <1>6
  <2>5. QED BY <1>1, <1>3, <1>4, <1>6, <2>3, <2>4, HolderMoves
<1>7. QED BY <1>1, <1>5, <1>6, TransferMoves

\* A command of init: the chip is no longer busy once it is reset.
LEMMA InitTransfers ==
  ASSUME EXCLUSIVE, CallInv, NEW t \in Tasks, Alone(t), NEW s, s \notin Special,
         NEW c, ChipOK(c), Transfer(t, s, c),
         task[t].at + 1 \in 4 .. (Length("init") - 1) =>
           ~c.oip /\ (~protected /\ task[t].at + 1 > 6 => ~c.prot)
  PROVE  CallInv'
<1>1. DriverInv /\ DriverInv'
  BY TransferStep DEF CallInv
<1>2. /\ task[t].fn = "init" /\ plan(task[t].fn)[task[t].at] = s
      /\ task[t].at \in 1 .. Length("init") /\ Length("init") \in Nat
  BY <1>1, StepOf, LengthNat DEF Transfer, Special, Alone, Names
<1>3. task[t].at < Length("init") /\ cleanup("init", task[t].at) = Length("init")
  <2>1. task[t].at # Length("init")
    BY <1>2, InitPlan DEF Length, Special
  <2>2. QED BY <1>2, <2>1, InitCleanup
<1>4. /\ UNCHANGED <<protected, handle, lock, seen>> /\ ~handle.initialized
  BY <1>1, <1>2 DEF Transfer, DriverInv, HandleOK
<1>5. CASE Moved(t, task[t].at + 1) /\ chip' = c
  BY <1>1, <1>4, <1>5, AloneMoves
<1>6. CASE Moved(t, cleanup("init", task[t].at))
  BY <1>1, <1>2, <1>3, <1>4, <1>6, AloneMoves
<1>7. QED BY <1>1, <1>2, <1>5, <1>6, TransferMoves

-----------------------------------------------------------------------------
(* One step per command                                                    *)

\* The commands that init sends, but for the reset.
LEMMA InitCommand ==
  ASSUME EXCLUSIVE, CallInv, NEW t \in Tasks, Alone(t), NEW s,
         s \notin Special \cup {"nand_reset"}, NEW c, ChipOK(c), Transfer(t, s, c),
         c.oip = chip.oip, ~protected /\ ~chip.prot => ~c.prot,
         s = "unlock_all_blocks" /\ ~chip.oip => ~c.prot
  PROVE  CallInv'
<1> DEFINE i == task[t].at
<1>1. /\ task[t].fn = "init" /\ plan("init")[i] = s
      /\ i \in 1 .. Length("init")
  BY StepOf DEF Transfer, Special, CallInv, Alone
<1>2. i # 3
  BY <1>1, InitPlan
<1>3. i + 1 \in 4 .. (Length("init") - 1) =>
        /\ ~c.oip
        /\ ~protected /\ i + 1 > 6 => ~c.prot
  <2>1. SUFFICES ASSUME i + 1 \in 4 .. (Length("init") - 1)
                 PROVE  ~c.oip /\ (~protected /\ i + 1 > 6 => ~c.prot)
    OBVIOUS
  <2>2. i \in 4 .. (Length("init") - 1) /\ Length("init") \in Nat
    BY <1>1, <1>2, <2>1, LengthNat DEF Names
  <2>3. ~chip.oip /\ (~protected /\ i > 6 => ~chip.prot)
    BY <1>1, <2>2 DEF CallInv, OpenOK
  <2>4. ~protected /\ i = 6 => s = "unlock_all_blocks"
    BY <1>1, InitPlan
  <2>5. QED BY <2>2, <2>3, <2>4
<1>4. QED BY <1>3, InitTransfers

\* These steps are taken in init only.
LEMMA OnlyInit ==
  ASSUME NEW fn \in Names, NEW i \in 1 .. Length(fn),
         plan(fn)[i] \in {"allocate", "add_device", "nand_reset", "read_id",
                          "configure_ecc", "verify_ecc"}
  PROVE  fn = "init"
<1>1. fn \notin {"page_read", "block_is_bad", "page_is_free"}
  BY ReadPlan, IsFreePlan DEF Length
<1>2. fn \notin {"page_program", "block_mark_bad"}
  BY ProgramPlan DEF Length
<1>3. fn \notin {"page_copy", "block_erase"}
  BY CopyPlan, ErasePlan DEF Length
<1>4. fn # "deinit"
  BY DeinitPlan DEF Length
<1>5. QED BY <1>1, <1>2, <1>3, <1>4 DEF Names

\* The setup commands of init keep CallInv.
LEMMA SetupCall ==
  ASSUME EXCLUSIVE, CallInv, NEW t \in Tasks,
         add_device(t) \/ read_id(t) \/ configure_ecc(t) \/ verify_ecc(t)
  PROVE  CallInv'
<1>1. ASSUME NEW s \in {"add_device", "read_id", "configure_ecc", "verify_ecc"},
             Transfer(t, s, chip)
      PROVE  CallInv'
  <2>1. /\ task[t].fn \in Names /\ plan(task[t].fn)[task[t].at] = s
        /\ task[t].at \in 1 .. Length(task[t].fn)
    BY <1>1, StepOf DEF Transfer, CallInv
  <2>2. task[t].fn = "init"
    BY <2>1, OnlyInit
  <2>3. Alone(t)
    BY <1>1, <2>2, Actor DEF Transfer, CallInv, Ends, Holds
  <2>4. ChipOK(chip)
    BY DEF CallInv, DriverInv, Types
  <2>5. QED BY <1>1, <2>3, <2>4, InitCommand DEF Special, CallInv, OpenOK
<1>2. QED BY <1>1 DEF add_device, read_id, configure_ecc, verify_ecc

\* The reset in init keeps CallInv: nobody has called yet.
LEMMA ResetCall ==
  ASSUME EXCLUSIVE, CallInv, NEW t \in Tasks, nand_reset(t)
  PROVE  CallInv'
<1>1. /\ task[t].fn \in Names /\ plan(task[t].fn)[task[t].at] = "nand_reset"
      /\ task[t].at \in 1 .. Length(task[t].fn) /\ step_of(t) = "nand_reset"
  BY StepOf DEF nand_reset, Transfer, CallInv
<1>2. task[t].fn = "init"
  BY <1>1, OnlyInit
<1>3. Alone(t)
  BY <1>1, <1>2, Actor DEF CallInv, Ends, Holds
<1>4. ChipOK(ResetChip) /\ Transfer(t, "nand_reset", ResetChip)
  BY ResetOK DEF CallInv, nand_reset, ResetChip
<1>5. ~ResetChip.oip
  <2>1. CASE chip.oip /\ chip.job.kind # "read"
    <3>1. ChipOK(finished(chip, TRUE))
      BY <2>1, FinishedChip DEF CallInv, DriverInv, Types
    <3>2. QED BY <2>1, <3>1 DEF ResetChip, ChipOK, ChipRecords
  <2>2. CASE ~(chip.oip /\ chip.job.kind # "read")
    BY <2>2 DEF ResetChip, CallInv, DriverInv, Types, ChipOK, ChipRecords
  <2>3. QED BY <2>1, <2>2
<1>6. task[t].at = 3
  BY <1>1, <1>2, InitPlan DEF Length
<1>7. QED BY <1>3, <1>4, <1>5, <1>6, InitTransfers DEF Special

\* page_read keeps CallInv: the job under way is the read of the call's row.
LEMMA PageReadCall ==
  ASSUME EXCLUSIVE, CallInv, NEW t \in Tasks, page_read(t)
  PROVE  CallInv'
<1> DEFINE fn == task[t].fn
           i == task[t].at
           row == IF fn = "page_copy" THEN task[t].src ELSE task[t].row
           c == accepted([chip EXCEPT !.oip = TRUE,
                                      !.job = [kind |-> "read", row |-> row]])
<1>1. /\ fn \in Names /\ plan(fn)[i] = "page_read" /\ i \in 1 .. Length(fn)
      /\ step_of(t) = "page_read" /\ Transfer(t, "page_read", c)
  BY StepOf DEF page_read, Transfer, CallInv
<1>2. ChipOK(c) /\ ChipOK(chip)
  <2>1. row \in Rows
    BY DEF CallInv, DriverInv, Types, TaskRecords
  <2> HIDE DEF row
  <2>2. QED BY <2>1, CommandsOK DEF CallInv, DriverInv, Types
<1>3. /\ c.oip /\ c.array = chip.array /\ c.cache = chip.cache
      /\ c.wel = chip.wel /\ c.prot = chip.prot
      /\ c.job = IF chip.oip THEN chip.job ELSE [kind |-> "read", row |-> row]
  BY <1>2, Commands, ZenonT(60)
<1>4. Holds(t)
  <2>1. fn # "init"
    BY <1>1, InitPlan DEF Length
  <2>2. QED BY <1>1, <2>1, Actor DEF CallInv, Ends, Alone
<1>5. /\ ~seen.oip /\ fn \in Reads => ReadOK(t)
      /\ ~seen.oip /\ fn \in Writes => WriteOK(t)
  BY <1>4 DEF CallInv, CallOK, Holds
<1> HIDE DEF c
<1>6. ASSUME fn \in Reads, ReadOK(t)
      PROVE  ReadState(t, i + 1, task[t].ret = "OK", task[t].out, c)
  <2>1. i = ReadAt(fn) /\ fn # "page_copy" /\ ReadAt(fn) \in Nat
    BY <1>1, <1>6, ReadSteps DEF Reads, ReadAt
  <2>2. QED BY <1>3, <1>6, <2>1 DEF ReadOK, ReadState
<1>7. ASSUME fn \in Writes, WriteOK(t)
      PROVE  WriteState(t, i + 1, task[t].ret = "OK", c)
  <2>1. fn = "page_copy" /\ i = 2
    BY <1>1, <1>7, WriteSteps
  <2>2. Exec(fn) \in Nat /\ Enable(fn) \in 4 .. (Exec(fn) - 1)
    BY <1>7, <2>1, WritePlaces
  <2>3. WriteArray(t, i + 1, c)
    BY <1>3, <1>7, <2>1, <2>2 DEF WriteOK, WriteState, WriteArray
  <2>4. ASSUME task[t].ret = "OK" PROVE WriteProgress(t, i + 1, c)
    <3>1. ~chip.oip
      BY <1>7, <2>1, <2>2, <2>4 DEF WriteOK, WriteState, WriteProgress
    <3>2. QED BY <1>3, <2>1, <2>2, <3>1 DEF WriteProgress, Programs
  <2>5. QED BY <2>3, <2>4 DEF WriteState
<1>8. QED BY <1>1, <1>2, <1>3, <1>4, <1>5, <1>6, <1>7, HolderTransfers DEF Special

\* A function with such a step is a write that has the lock, or init.
LEMMA WriterHolds ==
  ASSUME EXCLUSIVE, CallInv, NEW t \in Tasks,
         NEW s \in {"write_enable", "program_load", "program_execute", "block_erase",
                    "write_disable_if_failed", "write_disable", "lock_all_blocks",
                    "unlock_all_blocks"},
         step_of(t) = s
  PROVE  /\ plan(task[t].fn)[task[t].at] = s /\ task[t].at \in 1 .. Length(task[t].fn)
         /\ \/ Holds(t) /\ task[t].fn \in Writes /\ task[t].fn \notin Reads
               /\ (~seen.oip => WriteOK(t))
            \/ Alone(t) /\ s \in {"write_disable", "lock_all_blocks", "unlock_all_blocks"}
<1>1. /\ task[t].fn \in Names /\ plan(task[t].fn)[task[t].at] = s
      /\ task[t].at \in 1 .. Length(task[t].fn)
  BY StepOf DEF CallInv
<1>2. Holds(t) \/ Alone(t)
  BY Actor DEF CallInv, Ends
<1>3. task[t].fn # "deinit" /\ task[t].fn \notin Reads
  <2>1. task[t].fn # "deinit"
    BY <1>1, DeinitPlan DEF Length
  <2>2. ASSUME task[t].fn \in Reads PROVE FALSE
    <3>1. s \in {"page_read", "wait_ready", "read_from_cache", "NAND_LOCK", "NAND_UNLOCK"}
      BY <1>1, <2>2, ReadSteps
    <3>2. QED BY <3>1
  <2>3. QED BY <2>1, <2>2
<1>4. task[t].fn = "init" =>
        s \in {"write_disable", "lock_all_blocks", "unlock_all_blocks"}
  BY <1>1, InitPlan DEF Length, CallInv, DriverInv, Types
<1>5. task[t].fn \in Writes \cup {"init"}
  BY <1>1, <1>3 DEF Names, Reads, Writes, Programs
<1>6. QED
  BY <1>1, <1>2, <1>3, <1>4, <1>5 DEF Holds, Alone, CallInv, CallOK

\* write_enable keeps CallInv.
LEMMA WriteEnableCall ==
  ASSUME EXCLUSIVE, CallInv, NEW t \in Tasks, write_enable(t)
  PROVE  CallInv'
<1> DEFINE fn == task[t].fn
           i == task[t].at
           c == accepted([chip EXCEPT !.wel = TRUE])
<1>1. step_of(t) = "write_enable" /\ Transfer(t, "write_enable", c)
  BY DEF write_enable, Transfer
<1>2. /\ plan(fn)[i] = "write_enable" /\ i \in 1 .. Length(fn) /\ Holds(t)
      /\ fn \in Writes /\ fn \notin Reads /\ (~seen.oip => WriteOK(t))
  BY <1>1, WriterHolds
<1>3. ChipOK(c) /\ ChipOK(chip)
  BY CommandsOK DEF CallInv, DriverInv, Types
<1>4. /\ c.oip = chip.oip /\ c.job = chip.job /\ c.array = chip.array
      /\ c.cache = chip.cache /\ c.status = chip.status
      /\ c.prot = chip.prot /\ c.wel = IF chip.oip THEN chip.wel ELSE TRUE
  BY <1>3, Commands
<1> HIDE DEF c
<1>5. i = Enable(fn) /\ Exec(fn) \in Nat /\ Enable(fn) \in 2 .. (Exec(fn) - 1)
      /\ (fn = "page_copy" => Enable(fn) >= 4)
  BY <1>2, WriteSteps, WritePlaces
<1>6. ASSUME WriteOK(t) PROVE WriteState(t, i + 1, task[t].ret = "OK", c)
  <2>1. WriteArray(t, i + 1, c)
    BY <1>4, <1>5, <1>6 DEF WriteOK, WriteState, WriteArray
  <2>2. ASSUME task[t].ret = "OK" PROVE WriteProgress(t, i + 1, c)
    <3>1. WriteProgress(t, i, chip)
      BY <1>6, <2>2 DEF WriteOK, WriteState
    <3>2. fn \in Programs => i + 1 < Exec(fn)
      BY <1>5 DEF Enable, Exec
    <3>3. QED BY <1>4, <1>5, <3>1, <3>2 DEF WriteProgress
  <2>3. QED BY <2>1, <2>2 DEF WriteState
<1>7. QED BY <1>1, <1>2, <1>3, <1>4, <1>6, HolderTransfers DEF Special

\* program_load keeps CallInv: the cache holds what the call programs.
LEMMA ProgramLoadCall ==
  ASSUME EXCLUSIVE, CallInv, NEW t \in Tasks, program_load(t)
  PROVE  CallInv'
<1> DEFINE fn == task[t].fn
           i == task[t].at
           c == accepted([chip EXCEPT !.cache = task[t].data])
<1>1. step_of(t) = "program_load" /\ Transfer(t, "program_load", c)
  BY DEF program_load, Transfer
<1>2. /\ plan(fn)[i] = "program_load" /\ i \in 1 .. Length(fn) /\ Holds(t)
      /\ fn \in Writes /\ fn \notin Reads /\ (~seen.oip => WriteOK(t))
  BY <1>1, WriterHolds
<1>3. ChipOK(c) /\ ChipOK(chip)
  BY CommandsOK DEF CallInv, DriverInv, Types, TaskRecords
<1>4. /\ c.oip = chip.oip /\ c.job = chip.job /\ c.array = chip.array
      /\ c.wel = chip.wel /\ c.prot = chip.prot
      /\ c.cache = IF chip.oip THEN chip.cache ELSE task[t].data
  BY <1>3, Commands
<1> HIDE DEF c
<1>5. fn \in Programs /\ i = Exec(fn) - 1 /\ Exec(fn) \in Nat
      /\ Enable(fn) = Exec(fn) - 2 /\ fn # "page_copy"
  BY <1>2, WriteSteps, WritePlaces DEF Enable, Programs
<1>6. ASSUME WriteOK(t) PROVE WriteState(t, i + 1, task[t].ret = "OK", c)
  <2>1. WriteArray(t, i + 1, c)
    BY <1>4, <1>5, <1>6 DEF WriteOK, WriteState, WriteArray
  <2>2. ASSUME task[t].ret = "OK" PROVE WriteProgress(t, i + 1, c)
    <3>1. WriteProgress(t, i, chip)
      BY <1>6, <2>2 DEF WriteOK, WriteState
    <3>2. QED BY <1>4, <1>5, <3>1 DEF WriteProgress
  <2>3. QED BY <2>1, <2>2 DEF WriteState
<1>7. QED BY <1>1, <1>2, <1>3, <1>4, <1>6, HolderTransfers DEF Special

\* program_execute and block_erase
LEMMA ExecuteCall ==
  ASSUME EXCLUSIVE, CallInv, NEW t \in Tasks, program_execute(t) \/ block_erase(t)
  PROVE  CallInv'
<1> DEFINE fn == task[t].fn
           i == task[t].at
           c == IF step_of(t) = "block_erase" THEN started("erase", task[t].row, "E_FAIL")
                ELSE started("program", task[t].row, "P_FAIL")
<1>1. PICK s \in {"program_execute", "block_erase"} :
        step_of(t) = s /\ Transfer(t, s, c)
  BY DEF program_execute, block_erase, Transfer
<1>2. /\ plan(fn)[i] = s /\ i \in 1 .. Length(fn) /\ Holds(t)
      /\ fn \in Writes /\ fn \notin Reads /\ (~seen.oip => WriteOK(t))
  BY <1>1, WriterHolds
<1>3. ChipOK(c) /\ ChipOK(chip)
  BY CommandsOK DEF CallInv, DriverInv, Types, TaskRecords
<1>4. i = Exec(fn) /\ Exec(fn) \in Nat /\ Enable(fn) \in 2 .. (Exec(fn) - 1)
      /\ (fn = "page_copy" => Enable(fn) >= 4)
      /\ (s = "block_erase" <=> fn = "block_erase")
      /\ Kind(fn) = IF s = "block_erase" THEN "erase" ELSE "program"
  BY <1>2, WriteSteps, WritePlaces DEF Kind
<1>5. LET runs == ~chip.oip /\ chip.wel /\ ~chip.prot IN
      /\ c.array = chip.array /\ c.cache = chip.cache
      /\ c.wel = chip.wel /\ c.prot = chip.prot
      /\ c.oip = IF runs THEN TRUE ELSE chip.oip
      /\ c.job = IF runs THEN [kind |-> Kind(fn), row |-> task[t].row] ELSE chip.job
      /\ c.status = IF ~chip.oip /\ chip.wel /\ chip.prot
                    THEN chip.status \cup {Flag(fn)} ELSE chip.status
  <2>1. c = started(Kind(fn), task[t].row, Flag(fn))
    BY <1>1, <1>4 DEF Flag
  <2> HIDE DEF c
  <2>2. QED BY <1>3, <2>1, Started, ZenonT(60)
<1> HIDE DEF c
<1>6. ASSUME WriteOK(t) PROVE WriteState(t, i + 1, task[t].ret = "OK", c)
  <2>1. WriteArray(t, i + 1, c)
    BY <1>4, <1>5, <1>6 DEF WriteOK, WriteState, WriteArray
  <2>2. ASSUME task[t].ret = "OK" PROVE WriteProgress(t, i + 1, c)
    <3>1. WriteProgress(t, i, chip)
      BY <1>6, <2>2 DEF WriteOK, WriteState
    <3>2. chip.array = seen.array
      BY <1>4, <1>6 DEF WriteOK, WriteState, WriteArray
    <3>3. /\ ~chip.oip /\ chip.wel
          /\ fn = "page_copy" => chip.cache = seen.array[task[t].src]
          /\ fn \in Programs => chip.cache = task[t].data
      BY <1>4, <3>1 DEF WriteProgress
    <3>4. /\ chip.prot => ~c.oip /\ Flag(fn) \in c.status
          /\ ~chip.prot => c.oip /\ c.job.kind = Kind(fn)
      BY <1>5, <3>3
    <3>5. i + 1 # 3 \/ fn # "page_copy"
      BY <1>4
    <3>6. QED BY <1>4, <1>5, <3>2, <3>3, <3>4, <3>5 DEF WriteProgress
  <2>3. QED BY <2>1, <2>2 DEF WriteState
<1>7. QED BY <1>1, <1>2, <1>3, <1>5, <1>6, HolderTransfers DEF Special

\* The steps that init has, too.
LEMMA WriteEndCall ==
  ASSUME EXCLUSIVE, CallInv, NEW t \in Tasks,
         \/ write_disable(t)
         \/ lock_all_blocks(t)
         \/ write_disable_if_failed(t)
            /\ Transfer(t, "write_disable_if_failed", accepted([chip EXCEPT !.wel = FALSE]))
  PROVE  CallInv'
<1> DEFINE fn == task[t].fn
           i == task[t].at
           c == IF step_of(t) = "lock_all_blocks" THEN accepted([chip EXCEPT !.prot = TRUE])
                ELSE accepted([chip EXCEPT !.wel = FALSE])
<1>1. PICK s \in {"write_disable", "lock_all_blocks", "write_disable_if_failed"} :
        step_of(t) = s /\ Transfer(t, s, c)
  BY DEF write_disable, lock_all_blocks, Transfer
<1>2. /\ plan(fn)[i] = s /\ i \in 1 .. Length(fn)
      /\ \/ Holds(t) /\ fn \in Writes /\ fn \notin Reads /\ (~seen.oip => WriteOK(t))
         \/ Alone(t)
  BY <1>1, WriterHolds
<1>3. ChipOK(c) /\ ChipOK(chip)
  BY CommandsOK DEF CallInv, DriverInv, Types
<1>4. /\ c.oip = chip.oip /\ c.job = chip.job /\ c.array = chip.array
      /\ c.cache = chip.cache /\ c.status = chip.status
      /\ s # "lock_all_blocks" => c.prot = chip.prot
  BY <1>1, <1>3, Commands, ZenonT(60)
<1> HIDE DEF c
<1>5. s = "lock_all_blocks" => protected
  <2>1. ASSUME s = "lock_all_blocks", fn \in Writes PROVE protected
    BY <1>2, <2>1, WriteSteps
  <2>2. ASSUME s = "lock_all_blocks", fn = "init" PROVE protected
    BY <1>2, <2>2, InitPlan DEF Length, CallInv, DriverInv, Types
  <2>3. QED BY <1>2, <2>1, <2>2 DEF Alone
<1>6. ~protected /\ ~chip.prot => ~c.prot
  BY <1>4, <1>5
<1>7. CASE Alone(t)
  BY <1>1, <1>3, <1>4, <1>6, <1>7, InitCommand DEF Special
<1>8. CASE Holds(t) /\ fn \in Writes /\ fn \notin Reads /\ (~seen.oip => WriteOK(t))
  <2>1. i \in {Exec(fn) + 2, Exec(fn) + 3} /\ Exec(fn) \in Nat /\ Enable(fn) \in 2 .. (Exec(fn) - 1)
        /\ (fn = "page_copy" => Enable(fn) >= 4)
    BY <1>2, <1>8, WriteSteps, WritePlaces
  <2>2. ASSUME WriteOK(t) PROVE WriteState(t, i + 1, task[t].ret = "OK", c)
    <3>1. WriteArray(t, i + 1, c)
      BY <1>4, <2>1, <2>2 DEF WriteOK, WriteState, WriteArray
    <3>2. ASSUME task[t].ret = "OK" PROVE WriteProgress(t, i + 1, c)
      <4>1. WriteProgress(t, i, chip)
        BY <2>2, <3>2 DEF WriteOK, WriteState
      <4>2. QED BY <1>4, <2>1, <4>1 DEF WriteProgress
    <3>3. QED BY <3>1, <3>2 DEF WriteState
  <2>3. QED BY <1>1, <1>3, <1>6, <1>8, <2>2, HolderTransfers DEF Special
<1>9. QED BY <1>2, <1>7, <1>8

\* unlock_all_blocks keeps CallInv.
LEMMA UnlockBlocksCall ==
  ASSUME EXCLUSIVE, CallInv, NEW t \in Tasks, unlock_all_blocks(t)
  PROVE  CallInv'
<1> DEFINE fn == task[t].fn
           i == task[t].at
           c == accepted([chip EXCEPT !.prot = FALSE])
<1>1. step_of(t) = "unlock_all_blocks" /\ Transfer(t, "unlock_all_blocks", c)
  BY DEF unlock_all_blocks, Transfer
<1>2. /\ plan(fn)[i] = "unlock_all_blocks" /\ i \in 1 .. Length(fn)
      /\ \/ Holds(t) /\ fn \in Writes /\ fn \notin Reads /\ (~seen.oip => WriteOK(t))
         \/ Alone(t)
  BY <1>1, WriterHolds
<1>3. ChipOK(c) /\ ChipOK(chip)
  BY CommandsOK DEF CallInv, DriverInv, Types
<1>4. /\ c.oip = chip.oip /\ c.job = chip.job /\ c.array = chip.array
      /\ c.cache = chip.cache /\ c.status = chip.status /\ c.wel = chip.wel
      /\ c.prot = IF chip.oip THEN chip.prot ELSE FALSE
  BY <1>3, Commands
<1> HIDE DEF c
<1>5. CASE Alone(t)
  <2>1. /\ ~protected /\ ~chip.prot => ~c.prot
        /\ ~chip.oip => ~c.prot
    BY <1>4
  <2>2. QED BY <1>1, <1>3, <1>4, <1>5, <2>1, InitCommand DEF Special
<1>6. CASE Holds(t) /\ fn \in Writes /\ fn \notin Reads /\ (~seen.oip => WriteOK(t))
  <2>1. i = Enable(fn) - 1 /\ Exec(fn) \in Nat /\ Enable(fn) \in 2 .. (Exec(fn) - 1)
        /\ (fn = "page_copy" => Enable(fn) >= 4)
    BY <1>2, <1>6, WriteSteps, WritePlaces
  <2>2. fn = "page_copy" => protected /\ Enable(fn) = 5
    BY <1>2, <1>6, WriteSteps DEF Enable, Exec, Programs
  <2>3. ASSUME WriteOK(t) PROVE WriteState(t, i + 1, task[t].ret = "OK", c)
    <3>1. WriteArray(t, i + 1, c)
      BY <1>4, <2>1, <2>3 DEF WriteOK, WriteState, WriteArray
    <3>2. ASSUME task[t].ret = "OK" PROVE WriteProgress(t, i + 1, c)
      <4>1. WriteProgress(t, i, chip)
        BY <2>3, <3>2 DEF WriteOK, WriteState
      <4>2. ~chip.oip
        BY <2>1, <2>2, <4>1 DEF WriteProgress
      <4>3. QED BY <1>4, <2>1, <2>2, <4>1, <4>2 DEF WriteProgress
    <3>3. QED BY <3>1, <3>2 DEF WriteState
  <2>4. QED BY <1>1, <1>3, <1>4, <1>6, <2>3, HolderTransfers DEF Special
<1>7. QED BY <1>2, <1>5, <1>6

\* The write_disable of the unprotected build keeps CallInv.
LEMMA WriteDisableIfFailedCall ==
  ASSUME EXCLUSIVE, CallInv, NEW t \in Tasks, write_disable_if_failed(t)
  PROVE  CallInv'
<1> DEFINE fn == task[t].fn
           i == task[t].at
<1>1. CASE Transfer(t, "write_disable_if_failed", accepted([chip EXCEPT !.wel = FALSE]))
  BY <1>1, WriteEndCall
<1>2. CASE /\ step_of(t) = "write_disable_if_failed" /\ task[t].ret = "OK"
           /\ Advance(t) /\ UNCHANGED <<protected, handle, lock, chip, seen, faults>>
  <2>1. /\ plan(fn)[i] = "write_disable_if_failed" /\ i \in 1 .. Length(fn) /\ Holds(t)
        /\ fn \in Writes /\ fn \notin Reads /\ (~seen.oip => WriteOK(t))
    BY <1>2, WriterHolds
  <2>2. i = Exec(fn) + 2 /\ Exec(fn) \in Nat /\ Enable(fn) \in 2 .. (Exec(fn) - 1)
        /\ (fn = "page_copy" => Enable(fn) >= 4)
    BY <2>1, WriteSteps, WritePlaces
  <2>3. ASSUME WriteOK(t) PROVE WriteState(t, i + 1, task[t].ret = "OK", chip)
    BY <2>2, <2>3 DEF WriteOK, WriteState, WriteArray, WriteProgress
  <2>4. Moved(t, i + 1) /\ task'[t].ret = task[t].ret /\ DriverInv'
    BY <1>2, AdvanceMoves, WriteDisableIfFailedStep DEF CallInv, DriverInv
  <2>5. QED BY <1>2, <2>1, <2>3, <2>4, HolderMoves
<1>3. QED BY <1>1, <1>2 DEF write_disable_if_failed

\* read_from_cache keeps CallInv: the result is the page that was read.
LEMMA ReadFromCacheCall ==
  ASSUME EXCLUSIVE, CallInv, NEW t \in Tasks, read_from_cache(t)
  PROVE  CallInv'
<1> DEFINE fn == task[t].fn
           i == task[t].at
<1>1. /\ step_of(t) = "read_from_cache" /\ plan(fn)[i] = "read_from_cache"
      /\ i \in 1 .. Length(fn) /\ fn \in Names /\ DriverInv /\ DriverInv'
  BY StepOf, ReadFromCacheStep DEF read_from_cache, CallInv
<1>2. fn \in Reads
  <2>1. fn \notin {"init", "deinit"}
    BY <1>1, InitPlan, DeinitPlan DEF Length
  <2>2. ASSUME fn \in Writes PROVE FALSE
    <3>1. plan(fn)[i] # "read_from_cache"
      BY <1>1, <2>2, WriteSteps
    <3>2. QED BY <1>1, <3>1
  <2>3. QED BY <1>1, <2>1, <2>2 DEF Names, Reads, Writes, Programs
<1>3. i = ReadAt(fn) + 2 /\ ReadAt(fn) \in Nat
  BY <1>1, <1>2, ReadSteps DEF ReadAt
<1>4. Holds(t) /\ (~seen.oip => ReadOK(t))
  BY <1>1, <1>2, Actor DEF Ends, Holds, Alone, Reads, CallInv, CallOK
<1>5. fn # "deinit" /\ fn \notin Writes
  BY <1>2 DEF Reads, Writes, Programs
<1>6. UNCHANGED <<protected, handle, lock, chip, seen>>
  BY DEF read_from_cache
<1>7. CASE Moved(t, i + 1) /\ task'[t].ret = task[t].ret /\ task'[t].out = chip.cache
  <2>1. ASSUME ReadOK(t)
        PROVE  ReadState(t, i + 1, task'[t].ret = "OK", task'[t].out, chip)
    BY <1>3, <1>7, <2>1 DEF ReadOK, ReadState
  <2>2. QED BY <1>1, <1>4, <1>5, <1>6, <1>7, <2>1, HolderMoves
<1>8. CASE Moved(t, cleanup(fn, i)) /\ task'[t].ret # "OK" /\ task'[t].out = task[t].out
  <2>1. ~seen.oip => ReadState(t, cleanup(fn, i), FALSE, task'[t].out, chip)
    BY <1>1, <1>2, <1>4, FailState DEF Special
  <2>2. (task'[t].ret = "OK") = FALSE
    BY <1>8
  <2>3. QED BY <1>1, <1>4, <1>5, <1>6, <1>8, <2>1, <2>2, HolderMoves
<1>9. QED BY <1>7, <1>8, ReadFromCacheMoves DEF CallInv

\* wait_ready keeps CallInv: when it succeeds the job is done.
LEMMA WaitReadyCall ==
  ASSUME EXCLUSIVE, CallInv, NEW t \in Tasks, wait_ready(t)
  PROVE  CallInv'
<1> DEFINE fn == task[t].fn
           i == task[t].at
<1>1. /\ step_of(t) = "wait_ready" /\ plan(fn)[i] = "wait_ready"
      /\ i \in 1 .. Length(fn) /\ fn \in Names /\ DriverInv /\ DriverInv'
  BY StepOf, WaitReadyStep DEF wait_ready, CallInv
<1>2. UNCHANGED <<protected, handle, lock, chip, seen>>
  BY DEF wait_ready
<1>3. fn # "deinit"
  BY <1>1, DeinitPlan DEF Length
<1>4. Holds(t) \/ Alone(t)
  BY <1>1, Actor DEF Ends
<1>5. CASE Alone(t)
  <2>1. i \in 4 .. (Length("init") - 1) /\ Length("init") \in Nat
        /\ cleanup("init", i) = Length("init")
    <3>1. i \notin {1, 2, 3} /\ i # Length("init")
      BY <1>1, <1>5, InitPlan DEF Alone, Length
    <3>2. Length("init") \in Nat
      BY LengthNat DEF Names
    <3>3. QED BY <1>1, <1>5, <3>1, <3>2, InitCleanup DEF Alone
  <2>2. ~chip.oip /\ (~protected /\ i > 6 => ~chip.prot) /\ ~handle.initialized
    BY <1>1, <1>5, <2>1 DEF Alone, CallInv, OpenOK, DriverInv, HandleOK
  <2>3. ~protected => i # 6
    BY <1>1, <1>5, InitPlan DEF Alone
  <2>4. CASE Moved(t, i + 1)
    BY <1>1, <1>2, <1>5, <2>1, <2>2, <2>3, <2>4, AloneMoves
  <2>5. CASE Moved(t, cleanup(fn, i))
    BY <1>1, <1>2, <1>5, <2>1, <2>2, <2>5, AloneMoves DEF Alone
  <2>6. QED BY <1>1, <2>4, <2>5, WaitReadyMoves
<1>6. CASE Holds(t)
  <2>1. /\ ~seen.oip /\ fn \in Reads => ReadOK(t)
        /\ ~seen.oip /\ fn \in Writes => WriteOK(t)
    BY <1>6 DEF Holds, CallInv, CallOK
  <2>2. CASE Moved(t, cleanup(fn, i)) /\ task'[t].ret # "OK"
    <3>1. /\ ~seen.oip /\ fn \in Reads =>
               ReadState(t, cleanup(fn, i), FALSE, task'[t].out, chip)
          /\ ~seen.oip /\ fn \in Writes => WriteState(t, cleanup(fn, i), FALSE, chip)
      BY <1>1, <2>1, FailState DEF Special
    <3>2. (task'[t].ret = "OK") = FALSE
      BY <2>2
    <3>3. QED BY <1>1, <1>2, <1>3, <1>6, <2>2, <3>1, <3>2, HolderMoves
  <2>3. CASE /\ Moved(t, i + 1) /\ task'[t].ret = task[t].ret /\ task'[t].out = task[t].out
             /\ ~chip.oip /\ failure(t) \notin chip.status
    <3>1. ASSUME fn \in Reads, ReadOK(t)
          PROVE  ReadState(t, i + 1, task[t].ret = "OK", task[t].out, chip)
      <4>1. i = ReadAt(fn) + 1 /\ ReadAt(fn) \in Nat
        BY <1>1, <3>1, ReadSteps DEF ReadAt
      <4>2. QED BY <2>3, <3>1, <4>1 DEF ReadOK, ReadState
    <3>2. ASSUME fn \in Writes, WriteOK(t)
          PROVE  WriteState(t, i + 1, task[t].ret = "OK", chip)
      <4>1. /\ i = Exec(fn) + 1 \/ (fn = "page_copy" /\ i = 3)
            /\ Exec(fn) \in Nat /\ Enable(fn) \in 2 .. (Exec(fn) - 1)
            /\ fn = "page_copy" => Enable(fn) >= 4
            /\ fn \in Programs => Enable(fn) = Exec(fn) - 2
        BY <1>1, <3>2, WriteSteps, WritePlaces DEF Enable
      <4>2. WriteArray(t, i + 1, chip)
        BY <3>2, <4>1 DEF WriteOK, WriteState, WriteArray
      <4>3. ASSUME task[t].ret = "OK" PROVE WriteProgress(t, i + 1, chip)
        <5>1. WriteProgress(t, i, chip)
          BY <3>2, <4>3 DEF WriteOK, WriteState
        <5>2. CASE i = Exec(fn) + 1
          <6>1. failure(t) = Flag(fn)
            <7>1. plan(fn)[i - 1] = IF fn = "block_erase" THEN "block_erase"
                                    ELSE "program_execute"
              <8>1. CASE fn \in Programs
                BY <5>2, <8>1, ProgramPlan DEF Exec, Programs
              <8>2. CASE fn = "page_copy"
                BY <5>2, <8>2, CopyPlan DEF Exec, Programs
              <8>3. CASE fn = "block_erase"
                BY <5>2, <8>3, ErasePlan DEF Exec, Programs
              <8>4. QED BY <3>2, <8>1, <8>2, <8>3 DEF Writes, Programs
            <7>2. QED BY <7>1 DEF failure, Flag
          <6>2. chip.array = effect(t, seen.array)
            BY <2>3, <4>1, <5>1, <5>2, <6>1 DEF WriteProgress
          <6>3. QED BY <2>3, <4>1, <5>1, <5>2, <6>2 DEF WriteProgress
        <5>3. CASE i # Exec(fn) + 1
          <6>1. i = 3 /\ fn = "page_copy" /\ fn \notin Programs
            BY <4>1, <5>3 DEF Programs
          <6>2. chip.cache = seen.array[task[t].src]
            BY <2>3, <5>1, <6>1 DEF WriteProgress
          <6>3. protected => Enable(fn) > 4
            BY <6>1 DEF Enable, Exec, Programs
          <6>4. QED BY <2>3, <4>1, <5>1, <6>1, <6>2, <6>3 DEF WriteProgress
        <5>4. QED BY <5>2, <5>3
      <4>4. QED BY <4>2, <4>3 DEF WriteState
    <3>3. QED BY <1>1, <1>2, <1>3, <1>6, <2>1, <2>3, <3>1, <3>2, HolderMoves
  <2>4. QED BY <1>1, <2>2, <2>3, WaitReadyMoves
<1>7. QED BY <1>4, <1>5, <1>6

\* The chip comes to the end of the job of the task with the lock.
LEMMA ChipReadyCall ==
  ASSUME EXCLUSIVE, CallInv, ChipReady
  PROVE  CallInv'
<1>1. ChipOK(chip) /\ chip.oip /\ UNCHANGED <<protected, handle, lock, task, seen>>
      /\ DriverInv /\ DriverInv'
  BY ChipReadyStep DEF CallInv, DriverInv, Types, ChipReady
<1>2. PICK fails \in BOOLEAN : chip' = finished(chip, fails)
  BY DEF ChipReady
<1> DEFINE d == finished(chip, fails)
<1>3. ~d.oip /\ d.prot = chip.prot
  BY <1>1, <1>2, Finished
<1>4. OpenOK'
  <2>1. Length("init")' = Length("init")
    BY <1>1, SameLength
  <2>2. QED BY <1>1, <1>2, <1>3, <2>1 DEF CallInv, OpenOK
<1>5. ASSUME NEW t \in Tasks, lock.owner = t, ~seen.oip
      PROVE  /\ task[t].fn \in Reads => ReadOK(t)'
             /\ task[t].fn \in Writes => WriteOK(t)'
             /\ task[t].fn # "deinit"
  <2> DEFINE fn == task[t].fn
             i == task[t].at
  <2>1. Moved(t, i) /\ i \in Nat
    BY <1>1 DEF Moved, DriverInv, Types, TaskRecords
  <2>2. /\ ReadOK(t)' <=> ReadState(t, i, task[t].ret = "OK", task[t].out, d)
        /\ WriteOK(t)' <=> WriteState(t, i, task[t].ret = "OK", d)
    BY <1>1, <1>2, <2>1, SameCall
  <2>3. ASSUME fn \in Reads PROVE ReadState(t, i, task[t].ret = "OK", task[t].out, d)
    <3>1. ReadOK(t)
      BY <1>5, <2>3 DEF CallInv, CallOK
    <3>2. d.array = chip.array /\ d.cache = chip.array[chip.job.row]
      BY <1>1, <3>1, Finished DEF ReadOK, ReadState
    <3>3. QED
      BY <1>1, <1>3, <3>1, <3>2 DEF ReadOK, ReadState
  <2>4. ASSUME fn \in Writes PROVE WriteState(t, i, task[t].ret = "OK", d)
    <3>1. WriteOK(t)
      BY <1>5, <2>4 DEF CallInv, CallOK
    <3>2. PICK x : x = Exec(fn) /\ x \in Nat /\ Enable(fn) \in 2 .. (x - 1)
      BY <2>4, WritePlaces
    <3>3. CASE chip.job.kind = "read"
      <4>1. d.array = chip.array /\ d.cache = chip.array[chip.job.row]
        BY <1>1, <3>3, Finished
      <4>2. WriteArray(t, i, d)
        BY <1>3, <3>1, <4>1 DEF WriteOK, WriteState, WriteArray
      <4>3. ASSUME task[t].ret = "OK" PROVE WriteProgress(t, i, d)
        <5>1. WriteProgress(t, i, chip)
          BY <3>1, <4>3 DEF WriteOK, WriteState
        <5>2. i = x + 1 => FALSE
          BY <1>1, <3>2, <3>3, <5>1 DEF WriteProgress, Kind
        <5>3. i <= x
          BY <1>1, <2>1, <3>2, <5>1, <5>2 DEF WriteProgress
        <5>4. fn = "page_copy" /\ i = 3
          BY <1>1, <2>1, <3>2, <5>1, <5>3 DEF WriteProgress
        <5>5. chip.array = seen.array /\ chip.job.row = task[t].src
          BY <1>1, <3>1, <3>2, <5>1, <5>3, <5>4
             DEF WriteOK, WriteState, WriteArray, WriteProgress
        <5>6. Enable(fn) >= 4
          BY <2>4, <5>4, WritePlaces
        <5>7. fn \notin Programs
          BY <5>4 DEF Programs
        <5>8. QED BY <1>3, <3>2, <4>1, <5>4, <5>5, <5>6, <5>7 DEF WriteProgress
      <4>4. QED BY <4>2, <4>3 DEF WriteState
    <3>4. CASE chip.job.kind # "read"
      <4>1. i > x /\ chip.job.kind = Kind(fn) /\ chip.job.row = task[t].row
        BY <1>1, <2>1, <3>1, <3>2, <3>4 DEF WriteOK, WriteState, WriteArray
      <4>2. /\ \A r \in Rows \ touched(t) : d.array[r] = chip.array[r]
            /\ d.cache = chip.cache
            /\ IF fails THEN d.status = chip.status \cup {Flag(fn)}
               ELSE d.array = IF fn = "block_erase"
                 THEN [y \in Rows |-> IF y \in block_rows(task[t].row) THEN Blank
                                      ELSE chip.array[y]]
                 ELSE [chip.array EXCEPT ![task[t].row] = programmed(@, chip.cache)]
        <5>1. CASE fn = "block_erase"
          <6>1. chip.job.kind = "erase" /\ touched(t) = block_rows(task[t].row)
            BY <4>1, <5>1 DEF Kind, touched
          <6>2. /\ \A r \in Rows \ block_rows(chip.job.row) : d.array[r] = chip.array[r]
                /\ d.cache = chip.cache
                /\ fails => d.status = chip.status \cup {"E_FAIL"}
                /\ ~fails => d.array = [y \in Rows |->
                     IF y \in block_rows(chip.job.row) THEN Blank ELSE chip.array[y]]
            BY <1>1, <6>1, Finished, ZenonT(60)
          <6> HIDE DEF d
          <6>3. QED BY <4>1, <5>1, <6>1, <6>2 DEF Flag
        <5>2. CASE fn # "block_erase"
          <6>1. chip.job.kind = "program" /\ touched(t) = {task[t].row}
            BY <2>4, <4>1, <5>2 DEF Kind, touched, Writes, Programs
          <6>2. /\ \A r \in Rows \ {chip.job.row} : d.array[r] = chip.array[r]
                /\ d.cache = chip.cache
                /\ fails => d.status = chip.status \cup {"P_FAIL"}
                /\ ~fails => d.array = [chip.array EXCEPT ![chip.job.row] =
                                         programmed(@, chip.cache)]
            BY <1>1, <6>1, Finished
          <6> HIDE DEF d
          <6>3. QED BY <4>1, <5>2, <6>1, <6>2 DEF Flag
        <5>3. QED BY <5>1, <5>2
      <4>3. WriteArray(t, i, d)
        BY <1>3, <2>1, <3>1, <3>2, <4>1, <4>2 DEF WriteOK, WriteState, WriteArray
      <4>4. ASSUME task[t].ret = "OK" PROVE WriteProgress(t, i, d)
        <5>1. WriteProgress(t, i, chip)
          BY <3>1, <4>4 DEF WriteOK, WriteState
        <5>2. i = x + 1
          BY <1>1, <2>1, <3>2, <4>1, <5>1 DEF WriteProgress
        <5>3. chip.array = seen.array
          BY <1>1, <3>2, <5>1, <5>2 DEF WriteProgress
        <5>4. /\ fn = "page_copy" => chip.cache = seen.array[task[t].src]
              /\ fn \in Programs => chip.cache = task[t].data
          <6>1. fn = "page_copy" => Enable(fn) >= 4
            BY <2>4, WritePlaces
          <6>2. QED BY <3>2, <5>1, <5>2, <6>1 DEF WriteProgress
        <5>5. Flag(fn) \in d.status \/ d.array = effect(t, seen.array)
          <6>1. CASE fails
            BY <4>2, <6>1
          <6>2. CASE ~fails /\ fn = "block_erase"
            BY <4>2, <5>3, <6>2 DEF effect
          <6>3. CASE ~fails /\ fn \in Programs
            BY <4>2, <5>3, <5>4, <6>3 DEF effect, Programs
          <6>4. CASE ~fails /\ fn = "page_copy"
            BY <4>2, <5>3, <5>4, <6>4 DEF effect
          <6>5. QED BY <2>4, <6>1, <6>2, <6>3, <6>4 DEF Writes
        <5>6. ~(fn = "page_copy" /\ i = 3)
          BY <2>4, <3>2, <5>2, WritePlaces
        <5>7. QED BY <1>3, <3>2, <4>2, <5>2, <5>4, <5>5, <5>6 DEF WriteProgress
      <4>5. QED BY <4>3, <4>4 DEF WriteState
    <3>5. QED BY <3>3, <3>4
  <2>5. fn # "deinit"
    BY <1>1, <1>5 DEF CallInv, CallOK
  <2>6. QED BY <1>1, <1>2, <2>2, <2>3, <2>4, <2>5
<1>6. CallOK'
  BY <1>1, <1>5 DEF CallOK
<1>7. QED BY <1>1, <1>4, <1>6 DEF CallInv

\* The lock is taken: what the chip holds is what the call starts from.
LEMMA LockCall ==
  ASSUME EXCLUSIVE, CallInv, NEW t \in Tasks, NAND_LOCK(t)
  PROVE  CallInv'
<1> DEFINE fn == task[t].fn
           i == task[t].at
<1>1. /\ fn \in Names /\ plan(fn)[i] = "NAND_LOCK" /\ i \in 1 .. Length(fn)
      /\ DriverInv /\ DriverInv' /\ Moved(t, i + 1)
      /\ task'[t].ret = task[t].ret /\ task'[t].out = task[t].out
  BY StepOf, LockStep DEF NAND_LOCK, CallInv
<1>2. /\ lock'.owner = t /\ UNCHANGED <<protected, handle, chip, faults>>
      /\ seen' = IF lock.depth = 0 THEN [oip |-> chip.oip, array |-> chip.array]
                 ELSE seen
      /\ lock.owner \in {NOBODY, t}
  BY DEF NAND_LOCK, may_lock
<1>3. \A u \in Tasks : task'[u].fn # "init"
  <2>1. fn # "init"
    BY <1>1, InitPlan DEF Length
  <2>2. \A u \in Tasks : task[u].fn # "init"
    BY <1>1, <2>1 DEF DriverInv, HandleOK, Names
  <2>3. QED BY <1>1, <2>2 DEF Moved
<1>4. OpenOK'
  BY <1>2, <1>3 DEF OpenOK, CallInv
<1>5. CASE lock.depth = 0
  <2>1. seen'.oip = chip.oip /\ seen'.array = chip.array
    BY <1>2, <1>5
  <2>2. i = 1 \/ fn = "page_is_free"
    <3>1. DepthOf(t) = 0
      BY <1>1, <1>5 DEF DriverInv, LockOK
    <3>2. Depth(fn, i) = 0 /\ fn # "init"
      BY <1>1, <3>1, InitPlan DEF DepthOf, Names, Length
    <3>3. fn = "deinit" => i = 1
      BY <1>1, DeinitPlan DEF Length
    <3>4. QED BY <3>2, <3>3 DEF Depth
  <2>3. fn = "page_is_free" => i = 1
    <3>1. DepthOf(t) = 0
      BY <1>1, <1>5 DEF DriverInv, LockOK
    <3>2. QED BY <1>1, <3>1 DEF DepthOf, Depth, Names
  <2>4. i = 1
    BY <2>2, <2>3
  <2>5. /\ task'[t].fn = fn /\ task'[t].at = 2 /\ task'[t].row = task[t].row
        /\ protected' = protected
    BY <1>1, <1>2, <2>4 DEF Moved
  <2>6. ASSUME ~chip.oip, fn \in Reads PROVE ReadOK(t)'
    <3>1. ReadAt(fn) >= 2 /\ ReadAt(fn) \in Nat
      BY DEF ReadAt
    <3>2. QED BY <1>2, <2>1, <2>5, <2>6, <3>1 DEF ReadOK, ReadState, ReadAt
  <2>7. ASSUME ~chip.oip, fn \in Writes PROVE WriteOK(t)'
    <3>1. /\ Exec(fn) \in Nat /\ Enable(fn) \in 2 .. (Exec(fn) - 1)
          /\ protected => Enable(fn) >= 3
      BY <2>7, WritePlaces
    <3>2. Exec(task[t].fn)' = Exec(fn) /\ Enable(task[t].fn)' = Enable(fn)
      BY <2>5 DEF Exec, Enable
    <3>3. WriteArray(t, 2, chip)'
      BY <1>2, <2>1, <2>5, <2>7, <3>1, <3>2 DEF WriteArray
    <3>4. WriteProgress(t, 2, chip)'
      BY <1>2, <2>1, <2>5, <2>7, <3>1, <3>2 DEF WriteProgress
    <3>5. QED BY <2>5, <3>3, <3>4 DEF WriteOK, WriteState
  <2>8. CallOK'
    BY <1>2, <2>1, <2>5, <2>6, <2>7 DEF CallOK
  <2>9. QED BY <1>1, <1>4, <2>8 DEF CallInv
<1>6. CASE lock.depth # 0
  <2>1. seen' = seen /\ lock.owner = t
    BY <1>1, <1>2, <1>6 DEF DriverInv, LockOK
  <2>2. fn = "page_is_free" /\ i < 3
    <3>1. Depth(fn, i) \in {1, 2} \cup Nat /\ Depth(fn, i) # 0
      BY <1>1, <1>6, <2>1 DEF DriverInv, Types, LockOK, DepthOf, Names
    <3>2. ASSUME fn \in Writes PROVE FALSE
      BY <1>1, <3>1, <3>2, WriteSteps DEF Depth, Writes, Programs
    <3>3. fn # "deinit" /\ fn # "init"
      BY <1>1, <3>1, DeinitPlan DEF Length, Depth
    <3>4. fn \notin {"page_read", "block_is_bad"}
      BY <1>1, <3>1, ReadPlan DEF Length, Depth
    <3>5. fn = "page_is_free"
      BY <1>1, <3>2, <3>3, <3>4 DEF Names, Writes, Programs
    <3>6. QED BY <1>1, <3>5, IsFreePlan DEF Length
  <2>3. ASSUME ~seen.oip PROVE ReadState(t, i + 1, task'[t].ret = "OK", task'[t].out, chip)
    <3>1. ReadOK(t) /\ ReadAt(fn) = 3
      BY <2>1, <2>2, <2>3 DEF CallInv, CallOK, Reads, ReadAt
    <3>2. QED BY <1>1, <2>2, <3>1 DEF ReadOK, ReadState
  <2>4. ~seen.oip => ReadOK(t)'
    BY <1>1, <1>2, <2>1, <2>3, SameCall
  <2>5. task'[t].fn = fn
    BY <1>1 DEF Moved
  <2>6. CallOK'
    BY <1>2, <2>1, <2>2, <2>4, <2>5 DEF CallOK, Writes, Programs
  <2>7. QED BY <1>1, <1>4, <2>6 DEF CallInv
<1>7. QED BY <1>5, <1>6

\* A call that gives the lock back keeps CallInv.
LEMMA UnlockCall ==
  ASSUME EXCLUSIVE, CallInv, NEW t \in Tasks, NAND_UNLOCK(t)
  PROVE  CallInv'
<1> DEFINE fn == task[t].fn
           i == task[t].at
<1>1. /\ fn \in Names /\ plan(fn)[i] = "NAND_UNLOCK" /\ i \in 1 .. Length(fn)
      /\ Len(plan(fn)) = Length(fn) /\ DriverInv /\ DriverInv'
      /\ Depth(fn, i) \in {1, 2} /\ (i = Length(fn) => Depth(fn, i) = 1)
      /\ fn # "none"
  BY StepOf, UnlockStep, PlanLength, LockSteps DEF NAND_UNLOCK, CallInv
<1>2. /\ UNCHANGED <<protected, handle, chip, faults>>
      /\ lock' = IF lock.depth = 1 THEN [owner |-> NOBODY, depth |-> 0]
                 ELSE [lock EXCEPT !.depth = @ - 1]
      /\ seen' = IF lock.depth = 1 THEN Unseen ELSE seen
  BY DEF NAND_UNLOCK
<1>3. lock.owner = t /\ lock.depth = Depth(fn, i)
  BY <1>1 DEF DriverInv, LockOK, DepthOf
<1>4. CASE lock.depth = 1
  <2>1. lock'.owner = NOBODY
    BY <1>2, <1>4
  <2>2. CallOK'
    BY <2>1, DriverAssumption DEF CallOK
  <2>3. \A u \in Tasks : task'[u].fn # "init"
    <3>1. \A u \in Tasks : task[u].fn # "init"
      BY <1>1, <1>3, NoInit
    <3>2. task' = [task EXCEPT ![t] = returned(t)] \/ task' = [task EXCEPT ![t].at = i + 1]
      BY DEF NAND_UNLOCK, Advance, Goto
    <3>3. returned(t).fn # "init"
      BY <1>1, ReturnedRecord
    <3>4. CASE task' = [task EXCEPT ![t] = returned(t)]
      BY <3>1, <3>3, <3>4 DEF CallInv, DriverInv, Types
    <3>5. CASE task' = [task EXCEPT ![t].at = i + 1]
      BY <1>1, <3>1, <3>5 DEF DriverInv, Types, TaskRecords
    <3>6. QED BY <3>2, <3>4, <3>5
  <2>4. OpenOK'
    BY <1>2, <2>3 DEF OpenOK, CallInv
  <2>5. QED BY <1>1, <2>2, <2>4 DEF CallInv
<1>5. CASE lock.depth # 1
  <2>1. i # Length(fn) /\ seen' = seen /\ lock'.owner = t /\ lock.depth = 2
    BY <1>1, <1>2, <1>3, <1>5 DEF DriverInv, Types
  <2>2. fn = "page_is_free" /\ i = 6
    <3>1. fn = "page_is_free"
      BY <1>1, <1>3, <2>1 DEF Depth
    <3>2. QED BY <1>1, <2>1, <3>1, IsFreePlan DEF Length
  <2>3. Moved(t, i + 1) /\ task'[t].ret = task[t].ret /\ task'[t].out = task[t].out
    BY <1>1, <2>1, AdvanceMoves DEF NAND_UNLOCK, DriverInv
  <2>4. ASSUME ~seen.oip
        PROVE  ReadState(t, i + 1, task'[t].ret = "OK", task'[t].out, chip)
    <3>1. ReadOK(t) /\ ReadAt(fn) = 3
      BY <1>3, <2>2, <2>4 DEF CallInv, CallOK, Reads, ReadAt
    <3>2. QED BY <2>2, <2>3, <3>1 DEF ReadOK, ReadState
  <2>5. ~seen.oip => ReadOK(t)'
    BY <1>2, <2>1, <2>3, <2>4, SameCall
  <2>6. \A u \in Tasks : task'[u].fn # "init"
    BY <1>1, <1>3, <2>3, NoInit DEF Moved
  <2>7. OpenOK'
    BY <1>2, <2>6 DEF OpenOK, CallInv
  <2>8. CallOK'
    BY <2>1, <2>2, <2>3, <2>5 DEF CallOK, Writes, Programs, Moved
  <2>9. QED BY <1>1, <2>7, <2>8 DEF CallInv
<1>6. QED BY <1>4, <1>5

\* A call starts: its task does not have the lock yet.
LEMMA BeginCall ==
  ASSUME EXCLUSIVE, CallInv, NEW t \in Tasks, NEW fn \in Fns, NEW row \in Rows,
         NEW src \in Rows, NEW data \in Data, Begin(t, fn, row, src, data)
  PROVE  CallInv'
<1>1. DriverInv /\ DriverInv'
  BY BeginStep DEF CallInv
<1>2. PICK new \in TaskRecords : task' = [task EXCEPT ![t] = new] /\ new.at = 1
  BY <1>1, BegunRecord
<1>3. /\ task'[t] = new /\ \A u \in Tasks \ {t} : task'[u] = task[u]
      /\ UNCHANGED <<protected, handle, lock, chip, seen>> /\ task[t].fn = "none"
  BY <1>1, <1>2 DEF DriverInv, Types, Begin
<1>4. lock.owner # t
  BY <1>1, <1>3, DriverAssumption DEF DriverInv, LockOK, DepthOf
<1>5. OpenOK'
  <2>1. Length("init")' = Length("init")
    BY <1>3, SameLength
  <2>2. QED BY <1>2, <1>3, <2>1 DEF CallInv, OpenOK
<1>6. ASSUME NEW u \in Tasks \ {t}
      PROVE  (ReadOK(u)' <=> ReadOK(u)) /\ (WriteOK(u)' <=> WriteOK(u))
  <2>1. Moved(u, task[u].at) \/ task'[u] = task[u]
    BY <1>3
  <2>2. task'[u] = task[u]
    BY <1>3
  <2>3. /\ touched(u)' = touched(u) /\ \A a : effect(u, a)' = effect(u, a)
        /\ Exec(task[u].fn)' = Exec(task[u].fn)
        /\ Enable(task[u].fn)' = Enable(task[u].fn)
    BY <1>3, <2>2 DEF touched, effect, Exec, Enable
  <2>4. QED
    BY <1>3, <2>2, <2>3 DEF ReadOK, ReadState, WriteOK, WriteState, WriteArray,
       WriteProgress, ReadAt, Kind, Flag
<1>7. CallOK'
  BY <1>3, <1>4, <1>6 DEF CallInv, CallOK
<1>8. QED BY <1>1, <1>5, <1>7 DEF CallInv

\* allocate, and the two ends of init and of deinit, leave the chip alone.
LEMMA AllocateCall ==
  ASSUME EXCLUSIVE, CallInv, NEW t \in Tasks, allocate(t)
  PROVE  CallInv'
<1>1. /\ task[t].fn \in Names /\ plan(task[t].fn)[task[t].at] = "allocate"
      /\ task[t].at \in 1 .. Length(task[t].fn) /\ step_of(t) = "allocate"
      /\ DriverInv /\ DriverInv'
  BY StepOf, AllocateStep DEF allocate, CallInv
<1>2. task[t].fn = "init" /\ task[t].at = 1
  <2>1. task[t].fn = "init"
    BY <1>1, OnlyInit
  <2>2. QED BY <1>1, <2>1, InitPlan DEF Length
<1>3. Alone(t)
  BY <1>1, <1>2, Actor DEF Ends, Holds
<1>4. UNCHANGED <<protected, lock>> /\ ~handle'.initialized
  BY DEF allocate
<1>5. CASE Moved(t, 2)
  BY <1>1, <1>3, <1>4, <1>5, AloneMoves
<1>6. CASE Moved(t, cleanup("init", 1))
  <2>1. cleanup("init", 1) = Length("init") /\ Length("init") \in Nat
    BY <1>1, <1>2, InitCleanup, LengthNat DEF Length, Names
  <2>2. QED BY <1>1, <1>3, <1>4, <1>6, <2>1, AloneMoves
<1>7. Moved(t, 2) \/ Moved(t, cleanup("init", 1))
  <2>1. "NO_MEM" \in Results
    BY DEF Results
  <2>2. CASE Fail(t, "NO_MEM")
    BY <1>1, <1>2, <2>1, <2>2, PlainFail DEF Special
  <2>3. CASE Advance(t)
    BY <1>1, <1>2, <2>3, AdvanceMoves DEF DriverInv
  <2>4. QED BY <2>2, <2>3 DEF allocate
<1>8. QED BY <1>5, <1>6, <1>7

\* deinit clears the handle.
LEMMA ClearInitializedCall ==
  ASSUME EXCLUSIVE, CallInv, NEW t \in Tasks, clear_initialized(t)
  PROVE  CallInv'
<1>1. /\ task[t].fn \in Names /\ plan(task[t].fn)[task[t].at] = "clear_initialized"
      /\ task[t].at \in 1 .. Length(task[t].fn) /\ step_of(t) = "clear_initialized"
      /\ DriverInv /\ DriverInv' /\ Moved(t, task[t].at + 1)
  BY StepOf, ClearInitializedStep, AdvanceMoves DEF clear_initialized, CallInv, DriverInv
<1>2. UNCHANGED <<protected, lock, chip, seen>> /\ ~handle'.initialized
  BY HandleRecord DEF clear_initialized, CallInv, DriverInv, Types
<1>3. task[t].fn \notin {"init"} \cup Reads
  <2>1. task[t].fn # "init"
    BY <1>1, InitPlan DEF Length
  <2>2. ASSUME task[t].fn \in Reads PROVE FALSE
    BY <1>1, <2>2, ReadSteps
  <2>3. QED BY <2>1, <2>2
<1>4. task[t].fn \notin Writes
  <2>1. ASSUME task[t].fn \in Writes PROVE FALSE
    BY <1>1, <2>1, WriteSteps
  <2>2. QED BY <2>1
<1>5. Holds(t)
  BY <1>1, <1>3, Actor DEF Ends, Alone
<1>6. QED BY <1>1, <1>2, <1>3, <1>4, <1>5, HolderMoves

\* The ends of init and deinit keep CallInv.
LEMMA HandleEndCall ==
  ASSUME EXCLUSIVE, CallInv, NEW t \in Tasks, set_initialized(t) \/ release_resources(t)
  PROVE  CallInv'
<1>1. /\ task[t].fn \in Names /\ DriverInv /\ DriverInv'
      /\ plan(task[t].fn)[task[t].at] \in {"set_initialized", "release_resources"}
      /\ task[t].at \in 1 .. Length(task[t].fn)
  BY StepOf, HandleEndStep DEF set_initialized, release_resources, CallInv
<1>2. /\ UNCHANGED <<protected, lock, chip>> /\ task' = [task EXCEPT ![t] = Idle]
      /\ \/ plan(task[t].fn)[task[t].at] = "set_initialized"
         \/ ~handle'.initialized
  BY StepOf DEF set_initialized, release_resources, CallInv
<1>3. task[t].fn \in {"init", "deinit"} /\ DepthOf(t) = 0
  BY <1>1, LockSteps DEF DepthOf
<1>4. \A u \in Tasks : task'[u].fn = "none"
  BY <1>1, <1>2, <1>3, IdleRecord DEF DriverInv, HandleOK, Types
<1>5. lock'.owner = NOBODY
  <2>1. \A u \in Tasks : DepthOf(u) = 0
    BY <1>1, <1>3 DEF DriverInv, HandleOK, DepthOf
  <2>2. QED BY <1>1, <1>2, <2>1, DriverAssumption DEF DriverInv, Types, LockOK
<1>6. CallOK'
  BY <1>5, DriverAssumption DEF CallOK
<1>7. OpenOK'
  <2>1. CASE plan(task[t].fn)[task[t].at] = "set_initialized"
    <3>1. task[t].fn = "init"
      BY <1>1, <1>3, <2>1, DeinitPlan DEF Length
    <3>2. task[t].at = Length("init") - 1 /\ task[t].at > 6
      BY <1>1, <2>1, <3>1, InitPlan DEF Length, DriverInv, Types
    <3>3. task[t].at \in 4 .. (Length("init") - 1)
      BY <3>2, LengthNat DEF Names
    <3>4. ~protected => ~chip.prot
      BY <3>1, <3>2, <3>3 DEF CallInv, OpenOK
    <3>5. QED BY <1>2, <1>4, <3>4 DEF OpenOK
  <2>2. CASE ~handle'.initialized
    BY <1>4, <2>2 DEF OpenOK
  <2>3. QED BY <1>2, <2>1, <2>2
<1>8. QED BY <1>1, <1>6, <1>7 DEF CallInv

-----------------------------------------------------------------------------
(* The invariant and what follows from it                                  *)

\* At first no call runs.
LEMMA CallInitInv == DriverInit => CallInv
<1> SUFFICES ASSUME DriverInit PROVE CallInv
  OBVIOUS
<1>1. /\ \A t \in Tasks : task[t].fn = "none"
      /\ lock.owner = NOBODY /\ ~handle.initialized
  BY IdleRecord DEF DriverInit
<1>2. QED
  BY <1>1, DriverInitInv, DriverAssumption DEF CallInv, OpenOK, CallOK

\* Every step keeps CallInv.
LEMMA CallNextInv ==
  ASSUME EXCLUSIVE
  PROVE  CallInv /\ [DriverNext]_driverVars => CallInv'
<1> SUFFICES ASSUME CallInv, [DriverNext]_driverVars PROVE CallInv'
  OBVIOUS
<1>1. CASE UNCHANGED driverVars
  <2>1. DriverInv'
    BY <1>1, DriverNextInv DEF CallInv
  <2>2. Length("init")' = Length("init")
    BY <1>1, SameLength DEF driverVars
  <2>3. OpenOK'
    BY <1>1, <2>2 DEF driverVars, CallInv, OpenOK
  <2>4. ASSUME NEW t \in Tasks
        PROVE  (ReadOK(t)' <=> ReadOK(t)) /\ (WriteOK(t)' <=> WriteOK(t))
    <3>1. Moved(t, task[t].at)
      BY <1>1 DEF driverVars, Moved, CallInv, DriverInv, Types
    <3>2. UNCHANGED <<protected, seen>> /\ chip' = chip /\ task'[t] = task[t]
      BY <1>1 DEF driverVars
    <3>3. QED BY <3>1, <3>2, SameCall DEF ReadOK, WriteOK
  <2>5. CallOK'
    BY <1>1, <2>4 DEF driverVars, CallInv, CallOK
  <2>6. QED BY <2>1, <2>3, <2>5 DEF CallInv
<1>2. ASSUME NEW t \in Tasks, Step(t) PROVE CallInv'
  BY <1>2, UnlockCall, WriteEnableCall, WriteEndCall, UnlockBlocksCall,
     WriteDisableIfFailedCall, ProgramLoadCall, ExecuteCall, PageReadCall,
     ReadFromCacheCall, WaitReadyCall, AllocateCall, SetupCall, ResetCall,
     HandleEndCall, ClearInitializedCall DEF Step
<1>3. QED BY <1>1, <1>2, BeginCall, LockCall, ChipReadyCall DEF DriverNext

\* Every step of every interleaving keeps CallInv.
THEOREM CallInvariance ==
  ASSUME EXCLUSIVE
  PROVE  DriverSpec => []CallInv
BY CallInitInv, CallNextInv, PTL DEF DriverSpec

\* A function of the driver works alone on the chip from NAND_LOCK to
\* NAND_UNLOCK (CallsAreAtomic): if it returns success, the array is what it
\* should make of it and what it read is what was there; if it fails, it has
\* touched no other row.
THEOREM CallsWorkAlone ==
  ASSUME EXCLUSIVE
  PROVE  DriverSpec => []CallsAreAtomic
<1>1. ASSUME CallInv, NEW t \in Tasks, step_of(t) = "NAND_UNLOCK", lock.owner = t,
             ~seen.oip
      PROVE  /\ task[t].ret = "OK" =>
                  /\ chip.array = effect(t, seen.array)
                  /\ task[t].fn \in Reads => task[t].out = seen.array[task[t].row]
             /\ \A r \in Rows \ touched(t) : chip.array[r] = seen.array[r]
  <2> DEFINE fn == task[t].fn
             i == task[t].at
  <2>1. /\ fn \in Names /\ plan(fn)[i] = "NAND_UNLOCK" /\ i \in 1 .. Length(fn)
    BY <1>1, StepOf DEF CallInv
  <2>2. CASE fn \in Reads
    <3>1. i >= ReadAt(fn) + 3 /\ ReadOK(t)
      BY <1>1, <2>1, <2>2, ReadSteps DEF CallInv, CallOK
    <3>2. effect(t, seen.array) = seen.array
      BY <2>2 DEF effect, Reads
    <3>3. QED BY <2>2, <3>1, <3>2 DEF ReadOK, ReadState
  <2>3. CASE fn \in Writes
    <3>1. i = Length(fn) /\ Exec(fn) \in Nat /\ WriteOK(t)
          /\ Length(fn) = IF protected THEN Exec(fn) + 4 ELSE Exec(fn) + 3
      BY <1>1, <2>1, <2>3, WriteSteps, WritePlaces DEF CallInv, CallOK
    <3>2. i > Exec(fn) + 1 /\ fn \notin Reads
      BY <2>3, <3>1 DEF Reads, Writes, Programs
    <3>3. QED BY <3>1, <3>2 DEF WriteOK, WriteState, WriteArray, WriteProgress
  <2>4. CASE fn \in {"init", "deinit"}
    <3>1. fn = "deinit"
      BY <2>1, <2>4, InitPlan DEF Length
    <3>2. chip.array = seen.array /\ effect(t, seen.array) = seen.array
      BY <1>1, <3>1 DEF CallInv, CallOK, effect
    <3>3. QED BY <3>1, <3>2 DEF Reads
  <2>5. QED BY <2>1, <2>2, <2>3, <2>4 DEF Names, Reads, Writes, Programs
<1>2. CallInv => CallsAreAtomic
  BY <1>1 DEF CallsAreAtomic, Reads
<1>3. QED BY <1>2, CallInvariance, PTL

-----------------------------------------------------------------------------
(* Faults, and the chip that is left open                                  *)

\* The functions do not change while they run.
LEMMA SamePlan ==
  ASSUME protected' = protected, NEW fn
  PROVE  /\ plan(fn)' = plan(fn) /\ Exec(fn)' = Exec(fn) /\ Enable(fn)' = Enable(fn)
         /\ \A i : JobOf(fn, i)' = JobOf(fn, i)
         /\ \A i, ok, c, f : SafeWrite(fn, i, ok, c, f)' <=> SafeWrite(fn, i, ok, c, f)
<1>1. plan(fn)' = plan(fn)
  BY DEF plan, nand_mx35lf1_init, nand_mx35lf1_deinit, nand_mx35lf1_page_program,
     nand_mx35lf1_page_read, nand_mx35lf1_page_copy, nand_mx35lf1_block_erase,
     nand_mx35lf1_block_is_bad, nand_mx35lf1_block_mark_bad,
     nand_mx35lf1_page_is_free, write_begin, write_end
<1>2. Exec(fn)' = Exec(fn) /\ Enable(fn)' = Enable(fn)
  BY DEF Exec, Enable
<1>3. \A i : JobOf(fn, i)' = JobOf(fn, i)
  BY <1>2 DEF JobOf, Kind
<1>4. \A i, ok, c, f : SafeWrite(fn, i, ok, c, f)' <=> SafeWrite(fn, i, ok, c, f)
  BY <1>2 DEF SafeWrite, Flag, Closed
<1>5. QED BY <1>1, <1>2, <1>3, <1>4

\* The task with the lock goes to step k.
LEMMA HolderSafe ==
  ASSUME EXCLUSIVE, SafeInv, CallInv', NEW t \in Tasks, Holds(t), NEW k, Moved(t, k),
         UNCHANGED <<protected, lock>>,
         faults' = 0 => "P_FAIL" \notin chip'.status /\ "E_FAIL" \notin chip'.status,
         chip'.oip /\ faults' = 0 =>
           plan(task[t].fn)[k] = "wait_ready" /\ chip'.job.kind = JobOf(task[t].fn, k),
         task[t].fn \in Writes =>
           SafeWrite(task[t].fn, k, task'[t].ret = "OK", chip', faults'),
         task[t].fn \notin Writes /\ faults' <= 1 => Closed(chip')
  PROVE  SafeInv'
<1>1. /\ task'[t].fn = task[t].fn /\ task'[t].at = k /\ task[t].fn \in Names
      /\ lock'.owner = t
  BY NoInit DEF SafeInv, CallInv, Holds, Moved
<1>2. chip'.oip /\ faults' = 0 =>
        Waits(t)' /\ chip'.job.kind = JobOf(task[t].fn, task[t].at)'
  BY <1>1, SamePlan DEF Waits, step_of, Names
<1>3. task[t].fn \in Writes =>
        SafeWrite(task[t].fn, task[t].at, task[t].ret = "OK", chip, faults)'
  BY <1>1, SamePlan
<1>4. Closed(chip)' <=> Closed(chip')
  BY DEF Closed
<1>5. SafeOK'
  BY <1>1, <1>2, <1>3, <1>4 DEF SafeOK
<1>6. QED BY <1>5 DEF SafeInv

\* init moves: nobody waits, and there is no write.
LEMMA AloneSafe ==
  ASSUME EXCLUSIVE, SafeInv, CallInv', NEW t \in Tasks, Alone(t), lock' = lock,
         faults' = 0 => "P_FAIL" \notin chip'.status /\ "E_FAIL" \notin chip'.status,
         ~(chip'.oip /\ faults' = 0), faults' <= 1 => Closed(chip')
  PROVE  SafeInv'
<1>1. \A u \in Tasks : lock'.owner # u
  BY DriverAssumption DEF Alone
<1>2. Closed(chip)' <=> Closed(chip')
  BY DEF Closed
<1>3. QED BY <1>1, <1>2 DEF SafeInv, SafeOK

\* While no task waits the chip is at work only after a fault.
LEMMA NotBusy ==
  ASSUME SafeInv, faults = 0, NEW t \in Tasks, Holds(t) \/ Alone(t),
         Alone(t) \/ step_of(t) # "wait_ready"
  PROVE  ~chip.oip
BY DriverAssumption DEF SafeInv, SafeOK, Waits, Holds, Alone

\* A step at which a write fails through a fault.
LEMMA FaultSafe ==
  ASSUME EXCLUSIVE, SafeInv, NEW t \in Tasks, Holds(t), task[t].fn \in Writes,
         NEW s, step_of(t) = s, s \notin Special
  PROVE  SafeWrite(task[t].fn, cleanup(task[t].fn, task[t].at), FALSE, chip, faults + 1)
<1> DEFINE fn == task[t].fn
           i == task[t].at
           x == Exec(fn)
           k == cleanup(fn, i)
<1>1. /\ fn \in Names /\ plan(fn)[i] = s /\ i \in 1 .. Length(fn)
      /\ protected \in BOOLEAN /\ faults \in Nat
  BY StepOf DEF Special, SafeInv, CallInv, DriverInv, Types
<1>2. /\ Length(fn) = IF protected THEN x + 4 ELSE x + 3
      /\ x \in Nat /\ Enable(fn) \in 2 .. (x - 1)
  BY WritePlaces
<1>3. i # 1 /\ i # Length(fn)
  <2>1. CASE fn \in Programs
    BY <1>1, <2>1, ProgramPlan DEF Length, Programs, Special
  <2>2. CASE fn = "page_copy"
    BY <1>1, <2>2, CopyPlan DEF Length, Special
  <2>3. CASE fn = "block_erase"
    BY <1>1, <2>3, ErasePlan DEF Length, Special
  <2>4. QED BY <2>1, <2>2, <2>3 DEF Writes
<1>4. i \in 2 .. (Length(fn) - 1)
  BY <1>1, <1>2, <1>3
<1>5. k = IF i \in Enable(fn) .. (x + 1) THEN x + 2 ELSE Length(fn)
  BY <1>1, <1>4, WriteCleanup
<1>6. SafeWrite(fn, i, task[t].ret = "OK", chip, faults)
  BY DEF SafeInv, SafeOK, Holds
<1>7. CASE faults # 0
  BY <1>1, <1>2, <1>5, <1>7 DEF SafeWrite
<1>8. CASE faults = 0
  <2>1. (faults + 1 <= 1) /\ faults + 1 # 0 /\ faults <= 1
    BY <1>8
  <2>2. CASE i \in Enable(fn) .. (x + 1)
    <3>1. chip.oip /\ chip.wel => chip.job.kind # "read"
      BY <1>2, <1>6, <2>1, <2>2 DEF SafeWrite, Closed
    <3>2. k = x + 2
      BY <1>5, <2>2
    <3> HIDE DEF k
    <3>3. SafeWrite(fn, k, FALSE, chip, faults + 1)
      BY <1>2, <2>1, <3>1, <3>2 DEF SafeWrite
    <3>4. QED BY <3>3 DEF k
  <2>3. CASE i \notin Enable(fn) .. (x + 1)
    <3>1. Closed(chip)
      BY <1>1, <1>2, <1>6, <1>8, <2>1, <2>3 DEF SafeWrite
    <3>2. k > x + 2 /\ k \in Nat
      BY <1>2, <1>5, <2>3
    <3> HIDE DEF k
    <3>3. SafeWrite(fn, k, FALSE, chip, faults + 1)
      BY <1>2, <2>1, <3>1, <3>2 DEF SafeWrite
    <3>4. QED BY <3>3 DEF k
  <2>4. QED BY <2>2, <2>3
<1>9. QED BY <1>7, <1>8

\* A transfer of the task with the lock.
LEMMA HolderTransferSafe ==
  ASSUME EXCLUSIVE, SafeInv, CallInv', NEW t \in Tasks, Holds(t), NEW s, s \notin Special,
         s # "wait_ready", NEW c, Transfer(t, s, c),
         faults = 0 => "P_FAIL" \notin c.status /\ "E_FAIL" \notin c.status,
         c.oip /\ faults = 0 =>
           /\ plan(task[t].fn)[task[t].at + 1] = "wait_ready"
           /\ c.job.kind = JobOf(task[t].fn, task[t].at + 1),
         task[t].fn \in Writes =>
           SafeWrite(task[t].fn, task[t].at + 1, task[t].ret = "OK", c, faults),
         task[t].fn \notin Writes /\ faults <= 1 => Closed(c)
  PROVE  SafeInv'
<1>1. DriverInv /\ faults \in Nat /\ UNCHANGED <<protected, lock>> /\ step_of(t) = s
  BY DEF SafeInv, CallInv, DriverInv, Types, Transfer
<1>2. CASE /\ Moved(t, task[t].at + 1) /\ task'[t].ret = task[t].ret
           /\ chip' = c /\ faults' = faults
  BY <1>1, <1>2, HolderSafe
<1>3. CASE /\ Moved(t, cleanup(task[t].fn, task[t].at)) /\ task'[t].ret # "OK"
           /\ chip' = chip /\ faults' = faults + 1
  <2>1. task[t].fn \in Writes =>
          SafeWrite(task[t].fn, cleanup(task[t].fn, task[t].at), FALSE, chip, faults + 1)
    BY <1>1, FaultSafe
  <2>2. (task'[t].ret = "OK") = FALSE /\ faults' # 0 /\ (faults' <= 1 => faults = 0)
    BY <1>1, <1>3
  <2>3. task[t].fn \notin Writes /\ faults <= 1 => Closed(chip)
    BY DEF Holds, SafeInv, SafeOK
  <2>4. task[t].fn \notin Writes /\ faults' <= 1 => Closed(chip')
    BY <1>3, <2>2, <2>3
  <2>5. QED BY <1>1, <1>3, <2>1, <2>2, <2>4, HolderSafe
<1>4. QED BY <1>1, <1>2, <1>3, TransferMoves

\* A transfer of init.
LEMMA AloneTransferSafe ==
  ASSUME EXCLUSIVE, SafeInv, CallInv', NEW t \in Tasks, Alone(t), NEW s, s \notin Special,
         NEW c, Transfer(t, s, c),
         faults = 0 => "P_FAIL" \notin c.status /\ "E_FAIL" \notin c.status /\ ~c.oip,
         faults <= 1 => Closed(c)
  PROVE  SafeInv'
<1>1. DriverInv /\ faults \in Nat /\ lock' = lock
  BY DEF SafeInv, CallInv, DriverInv, Types, Transfer
<1>2. faults <= 1 => Closed(chip)
  BY DriverAssumption DEF Alone, SafeInv, SafeOK
<1>3. CASE chip' = c /\ faults' = faults
  BY <1>1, <1>3, AloneSafe
<1>4. CASE chip' = chip /\ faults' = faults + 1
  <2>1. faults' # 0 /\ (faults' <= 1 => Closed(chip'))
    BY <1>1, <1>2, <1>4
  <2>2. QED BY <1>1, <2>1, AloneSafe
<1>5. QED BY <1>1, <1>3, <1>4, TransferMoves

\* What the chip is like while init sends commands.
LEMMA AloneChip ==
  ASSUME SafeInv, NEW t \in Tasks, Alone(t)
  PROVE  /\ faults <= 1 => Closed(chip)
         /\ faults = 0 => /\ ~chip.oip
                          /\ "P_FAIL" \notin chip.status /\ "E_FAIL" \notin chip.status
BY NotBusy, DriverAssumption DEF Alone, SafeInv, SafeOK

\* The setup commands of init keep SafeInv.
LEMMA SetupSafe ==
  ASSUME EXCLUSIVE, SafeInv, NEW t \in Tasks,
         add_device(t) \/ read_id(t) \/ configure_ecc(t) \/ verify_ecc(t)
  PROVE  SafeInv'
<1>1. CallInv'
  BY SetupCall DEF SafeInv
<1>2. ASSUME NEW s \in {"add_device", "read_id", "configure_ecc", "verify_ecc"},
             Transfer(t, s, chip)
      PROVE  SafeInv'
  <2>1. /\ task[t].fn \in Names /\ plan(task[t].fn)[task[t].at] = s
        /\ task[t].at \in 1 .. Length(task[t].fn)
    BY <1>2, StepOf DEF Transfer, SafeInv, CallInv
  <2>2. task[t].fn = "init"
    BY <2>1, OnlyInit
  <2>3. Alone(t)
    BY <1>2, <2>2, Actor DEF Transfer, SafeInv, CallInv, Ends, Holds
  <2>4. QED BY <1>1, <1>2, <2>3, AloneChip, AloneTransferSafe DEF Special
<1>3. QED BY <1>2 DEF add_device, read_id, configure_ecc, verify_ecc

\* A reset leaves the chip closed.
LEMMA ResetSafe ==
  ASSUME EXCLUSIVE, SafeInv, NEW t \in Tasks, nand_reset(t)
  PROVE  SafeInv'
<1>1. /\ task[t].fn \in Names /\ plan(task[t].fn)[task[t].at] = "nand_reset"
      /\ task[t].at \in 1 .. Length(task[t].fn) /\ step_of(t) = "nand_reset"
      /\ CallInv' /\ DriverInv
  BY StepOf, ResetCall DEF nand_reset, Transfer, SafeInv, CallInv
<1>2. task[t].fn = "init"
  BY <1>1, OnlyInit
<1>3. Alone(t)
  BY <1>1, <1>2, Actor DEF Ends, Holds
<1>4. ~ResetChip.oip /\ ~ResetChip.wel /\ ResetChip.status = {}
  <2>1. CASE chip.oip /\ chip.job.kind # "read"
    <3>1. ChipOK(finished(chip, TRUE))
      BY <1>1, <2>1, FinishedChip DEF DriverInv, Types
    <3>2. QED BY <2>1, <3>1 DEF ResetChip, ChipOK, ChipRecords
  <2>2. CASE ~(chip.oip /\ chip.job.kind # "read")
    BY <1>1, <2>2 DEF ResetChip, DriverInv, Types, ChipOK, ChipRecords
  <2>3. QED BY <2>1, <2>2
<1>5. Transfer(t, "nand_reset", ResetChip)
  BY DEF nand_reset, ResetChip
<1>6. QED BY <1>1, <1>3, <1>4, <1>5, AloneTransferSafe DEF Special, Closed

\* page_read keeps SafeInv.
LEMMA PageReadSafe ==
  ASSUME EXCLUSIVE, SafeInv, NEW t \in Tasks, page_read(t)
  PROVE  SafeInv'
<1> DEFINE fn == task[t].fn
           i == task[t].at
           row == IF fn = "page_copy" THEN task[t].src ELSE task[t].row
           c == accepted([chip EXCEPT !.oip = TRUE,
                                      !.job = [kind |-> "read", row |-> row]])
<1>1. /\ fn \in Names /\ plan(fn)[i] = "page_read" /\ i \in 1 .. Length(fn)
      /\ step_of(t) = "page_read" /\ Transfer(t, "page_read", c) /\ CallInv'
      /\ DriverInv
  BY StepOf, PageReadCall DEF page_read, Transfer, SafeInv, CallInv
<1>2. /\ c.oip /\ c.status = chip.status /\ c.wel = chip.wel /\ c.prot = chip.prot
      /\ c.job = IF chip.oip THEN chip.job ELSE [kind |-> "read", row |-> row]
  BY <1>1, Commands, ZenonT(60) DEF DriverInv, Types
<1>3. Holds(t)
  <2>1. fn # "init"
    BY <1>1, InitPlan DEF Length
  <2>2. QED BY <1>1, <2>1, Actor DEF Ends, Alone
<1>4. faults = 0 => ~chip.oip
  BY <1>1, <1>3, NotBusy
<1> HIDE DEF c
<1>5. Closed(chip) => Closed(c)
  BY <1>2 DEF Closed
<1>6. ASSUME fn \in Writes
      PROVE  /\ SafeWrite(fn, i + 1, task[t].ret = "OK", c, faults)
             /\ plan(fn)[i + 1] = "wait_ready" /\ JobOf(fn, i + 1) = "read"
  <2>1. fn = "page_copy" /\ i = 2
    BY <1>1, <1>6, WriteSteps
  <2>2. /\ Exec(fn) \in Nat /\ Enable(fn) \in 4 .. (Exec(fn) - 1)
        /\ plan(fn)[3] = "wait_ready"
    BY <1>6, <2>1, WritePlaces
  <2>3. SafeWrite(fn, i, task[t].ret = "OK", chip, faults)
    BY <1>3, <1>6 DEF SafeInv, SafeOK, Holds
  <2>4. QED BY <1>5, <2>1, <2>2, <2>3 DEF SafeWrite, JobOf
<1>7. ASSUME fn \notin Writes
      PROVE  /\ plan(fn)[i + 1] = "wait_ready" /\ JobOf(fn, i + 1) = "read"
             /\ faults <= 1 => Closed(c)
  <2>1. faults <= 1 => Closed(chip)
    BY <1>3, <1>7 DEF SafeInv, SafeOK, Holds
  <2>2. fn \notin {"init", "deinit"}
    BY <1>1, InitPlan, DeinitPlan DEF Length
  <2>3. plan(fn)[i + 1] = "wait_ready"
    <3>1. CASE fn \in {"page_read", "block_is_bad"}
      BY <1>1, <3>1, ReadPlan DEF Length
    <3>2. CASE fn = "page_is_free"
      BY <1>1, <3>2, IsFreePlan DEF Length
    <3>3. QED BY <1>1, <1>7, <2>2, <3>1, <3>2 DEF Names, Writes, Programs
  <2>4. QED BY <1>5, <1>7, <2>1, <2>3 DEF JobOf
<1>8. faults = 0 => /\ "P_FAIL" \notin c.status /\ "E_FAIL" \notin c.status
                    /\ c.job.kind = "read"
  BY <1>2, <1>4 DEF SafeInv, SafeOK
<1>9. QED
  BY <1>1, <1>3, <1>6, <1>7, <1>8, HolderTransferSafe DEF Special

\* What the task with the lock knows at a step of a write.
LEMMA WriterSafe ==
  ASSUME EXCLUSIVE, SafeInv, NEW t \in Tasks,
         NEW s \in {"write_enable", "program_load", "program_execute", "block_erase",
                    "write_disable_if_failed", "write_disable", "lock_all_blocks",
                    "unlock_all_blocks"},
         step_of(t) = s
  PROVE  LET fn == task[t].fn
             i == task[t].at IN
         /\ plan(fn)[i] = s /\ i \in 1 .. Length(fn) /\ ChipOK(chip)
         /\ faults = 0 => /\ ~chip.oip
                          /\ "P_FAIL" \notin chip.status /\ "E_FAIL" \notin chip.status
         /\ \/ /\ Holds(t) /\ fn \in Writes
               /\ SafeWrite(fn, i, task[t].ret = "OK", chip, faults)
               /\ Exec(fn) \in Nat /\ Enable(fn) \in 2 .. (Exec(fn) - 1)
               /\ fn = "page_copy" => Enable(fn) >= 4
            \/ /\ Alone(t) /\ s \in {"write_disable", "lock_all_blocks", "unlock_all_blocks"}
               /\ faults <= 1 => Closed(chip)
<1>1. CallInv /\ ChipOK(chip)
  BY DEF SafeInv, CallInv, DriverInv, Types
<1>2. /\ plan(task[t].fn)[task[t].at] = s /\ task[t].at \in 1 .. Length(task[t].fn)
      /\ \/ Holds(t) /\ task[t].fn \in Writes
         \/ Alone(t) /\ s \in {"write_disable", "lock_all_blocks", "unlock_all_blocks"}
  BY <1>1, WriterHolds
<1>3. faults = 0 => /\ ~chip.oip
                    /\ "P_FAIL" \notin chip.status /\ "E_FAIL" \notin chip.status
  BY <1>2, NotBusy DEF SafeInv, SafeOK
<1>4. CASE Holds(t) /\ task[t].fn \in Writes
  <2>1. SafeWrite(task[t].fn, task[t].at, task[t].ret = "OK", chip, faults)
    BY <1>4 DEF SafeInv, SafeOK, Holds
  <2>2. QED BY <1>1, <1>2, <1>3, <1>4, <2>1, WritePlaces
<1>5. CASE Alone(t) /\ s \in {"write_disable", "lock_all_blocks", "unlock_all_blocks"}
  BY <1>1, <1>2, <1>3, <1>5, AloneChip
<1>6. QED BY <1>2, <1>4, <1>5

\* write_enable opens the chip inside of a write only.
LEMMA WriteEnableSafe ==
  ASSUME EXCLUSIVE, SafeInv, NEW t \in Tasks, write_enable(t)
  PROVE  SafeInv'
<1> DEFINE fn == task[t].fn
           i == task[t].at
           c == accepted([chip EXCEPT !.wel = TRUE])
<1>1. step_of(t) = "write_enable" /\ Transfer(t, "write_enable", c) /\ CallInv'
  BY WriteEnableCall DEF write_enable, Transfer, SafeInv
<1>2. /\ plan(fn)[i] = "write_enable" /\ i \in 1 .. Length(fn) /\ ChipOK(chip)
      /\ faults = 0 => /\ ~chip.oip
                       /\ "P_FAIL" \notin chip.status /\ "E_FAIL" \notin chip.status
      /\ Holds(t) /\ fn \in Writes
      /\ SafeWrite(fn, i, task[t].ret = "OK", chip, faults)
      /\ Exec(fn) \in Nat /\ Enable(fn) \in 2 .. (Exec(fn) - 1)
  BY <1>1, WriterSafe
<1>3. /\ c.oip = chip.oip /\ c.job = chip.job /\ c.status = chip.status
      /\ c.prot = chip.prot /\ c.wel = IF chip.oip THEN chip.wel ELSE TRUE
  BY <1>2, Commands
<1> HIDE DEF c
<1>4. i = Enable(fn)
  BY <1>2, WriteSteps
<1>5. SafeWrite(fn, i + 1, task[t].ret = "OK", c, faults)
  BY <1>2, <1>3, <1>4 DEF SafeWrite, Closed
<1>6. QED BY <1>1, <1>2, <1>3, <1>5, HolderTransferSafe DEF Special

\* program_load keeps SafeInv.
LEMMA ProgramLoadSafe ==
  ASSUME EXCLUSIVE, SafeInv, NEW t \in Tasks, program_load(t)
  PROVE  SafeInv'
<1> DEFINE fn == task[t].fn
           i == task[t].at
           c == accepted([chip EXCEPT !.cache = task[t].data])
<1>1. step_of(t) = "program_load" /\ Transfer(t, "program_load", c) /\ CallInv'
  BY ProgramLoadCall DEF program_load, Transfer, SafeInv
<1>2. /\ plan(fn)[i] = "program_load" /\ i \in 1 .. Length(fn) /\ ChipOK(chip)
      /\ faults = 0 => /\ ~chip.oip
                       /\ "P_FAIL" \notin chip.status /\ "E_FAIL" \notin chip.status
      /\ Holds(t) /\ fn \in Writes
      /\ SafeWrite(fn, i, task[t].ret = "OK", chip, faults)
      /\ Exec(fn) \in Nat /\ Enable(fn) \in 2 .. (Exec(fn) - 1)
  BY <1>1, WriterSafe
<1>3. /\ c.oip = chip.oip /\ c.job = chip.job /\ c.status = chip.status
      /\ c.prot = chip.prot /\ c.wel = chip.wel
  BY <1>2, Commands
<1> HIDE DEF c
<1>4. i = Exec(fn) - 1 /\ Enable(fn) = Exec(fn) - 2
  BY <1>2, WriteSteps DEF Enable
<1>5. SafeWrite(fn, i + 1, task[t].ret = "OK", c, faults)
  BY <1>2, <1>3, <1>4 DEF SafeWrite, Closed
<1>6. QED BY <1>1, <1>2, <1>3, <1>5, HolderTransferSafe DEF Special

\* program_execute and block_erase
LEMMA ExecuteSafe ==
  ASSUME EXCLUSIVE, SafeInv, NEW t \in Tasks, program_execute(t) \/ block_erase(t)
  PROVE  SafeInv'
<1> DEFINE fn == task[t].fn
           i == task[t].at
           c == IF step_of(t) = "block_erase" THEN started("erase", task[t].row, "E_FAIL")
                ELSE started("program", task[t].row, "P_FAIL")
<1>1. PICK s \in {"program_execute", "block_erase"} :
        step_of(t) = s /\ Transfer(t, s, c)
  BY DEF program_execute, block_erase, Transfer
<1>2. /\ plan(fn)[i] = s /\ i \in 1 .. Length(fn) /\ ChipOK(chip)
      /\ faults = 0 => /\ ~chip.oip
                       /\ "P_FAIL" \notin chip.status /\ "E_FAIL" \notin chip.status
      /\ Holds(t) /\ fn \in Writes
      /\ SafeWrite(fn, i, task[t].ret = "OK", chip, faults)
      /\ Exec(fn) \in Nat /\ Enable(fn) \in 2 .. (Exec(fn) - 1)
  BY <1>1, WriterSafe
<1>3. /\ i = Exec(fn) /\ (s = "block_erase" <=> fn = "block_erase")
      /\ Kind(fn) = IF s = "block_erase" THEN "erase" ELSE "program"
      /\ plan(fn)[i + 1] = "wait_ready"
  <2>1. fn \in Writes /\ plan(fn)[i] = s /\ i \in 1 .. Length(fn)
    BY <1>2
  <2>2. i = Exec(fn) /\ (s = "block_erase" <=> fn = "block_erase")
    BY <2>1, WriteSteps
  <2>3. plan(fn)[Exec(fn) + 1] = "wait_ready"
    BY <2>1, WritePlaces
  <2>4. QED BY <2>2, <2>3 DEF Kind
<1>4. LET runs == ~chip.oip /\ chip.wel /\ ~chip.prot IN
      /\ c.wel = chip.wel /\ c.prot = chip.prot
      /\ c.oip = IF runs THEN TRUE ELSE chip.oip
      /\ c.job = IF runs THEN [kind |-> Kind(fn), row |-> task[t].row] ELSE chip.job
      /\ c.status = IF ~chip.oip /\ chip.wel /\ chip.prot
                    THEN chip.status \cup {Flag(fn)} ELSE chip.status
  <2>1. c = started(Kind(fn), task[t].row, Flag(fn))
    BY <1>1, <1>3 DEF Flag
  <2>2. ChipOK(chip)
    BY <1>2
  <2> HIDE DEF c
  <2>3. QED BY <2>1, <2>2, Started, ZenonT(60)
<1> HIDE DEF c
<1>5. /\ faults = 0 => ~chip.prot
      /\ chip.oip /\ chip.wel /\ faults <= 1 => chip.job.kind # "read"
  BY <1>2, <1>3 DEF SafeWrite
<1>6. SafeWrite(fn, i + 1, task[t].ret = "OK", c, faults)
  <2>1. c.wel /\ faults <= 1 => IF c.oip THEN c.job.kind # "read" ELSE Flag(fn) \in c.status
    <3>1. CASE chip.oip
      BY <1>4, <1>5, <3>1
    <3>2. CASE ~chip.oip /\ chip.prot
      BY <1>4, <3>2
    <3>3. CASE ~chip.oip /\ ~chip.prot
      BY <1>4, <3>3 DEF Kind
    <3>4. QED BY <3>1, <3>2, <3>3
  <2>2. QED BY <1>2, <1>3, <2>1 DEF SafeWrite
<1>7. faults = 0 => "P_FAIL" \notin c.status /\ "E_FAIL" \notin c.status
  BY <1>2, <1>4, <1>5
<1>8. c.oip /\ faults = 0 => c.job.kind = JobOf(fn, i + 1)
  <2>1. JobOf(fn, i + 1) = Kind(fn)
    BY <1>2, <1>3 DEF JobOf
  <2>2. CASE ~chip.oip /\ chip.wel /\ ~chip.prot
    <3>1. c.job = [kind |-> Kind(fn), row |-> task[t].row]
      BY <1>4, <2>2
    <3>2. QED BY <2>1, <3>1
  <2>3. CASE ~(~chip.oip /\ chip.wel /\ ~chip.prot)
    <3>1. c.oip = chip.oip
      BY <1>4, <2>3
    <3>2. QED BY <1>2, <3>1
  <2>4. QED BY <2>2, <2>3
<1>9. CallInv'
  BY ExecuteCall DEF SafeInv
<1>10. QED
  BY <1>1, <1>2, <1>3, <1>6, <1>7, <1>8, <1>9, HolderTransferSafe DEF Special

\* write_end closes the chip again, unless it fails itself.
LEMMA WriteEndSafe ==
  ASSUME EXCLUSIVE, SafeInv, NEW t \in Tasks,
         \/ write_disable(t)
         \/ lock_all_blocks(t)
         \/ write_disable_if_failed(t)
            /\ Transfer(t, "write_disable_if_failed", accepted([chip EXCEPT !.wel = FALSE]))
  PROVE  SafeInv'
<1> DEFINE fn == task[t].fn
           i == task[t].at
           c == IF step_of(t) = "lock_all_blocks" THEN accepted([chip EXCEPT !.prot = TRUE])
                ELSE accepted([chip EXCEPT !.wel = FALSE])
<1>1. PICK s \in {"write_disable", "lock_all_blocks", "write_disable_if_failed"} :
        step_of(t) = s /\ Transfer(t, s, c)
  BY DEF write_disable, lock_all_blocks, Transfer
<1>2. /\ plan(fn)[i] = s /\ i \in 1 .. Length(fn) /\ ChipOK(chip)
      /\ faults = 0 => /\ ~chip.oip
                       /\ "P_FAIL" \notin chip.status /\ "E_FAIL" \notin chip.status
      /\ \/ /\ Holds(t) /\ fn \in Writes
            /\ SafeWrite(fn, i, task[t].ret = "OK", chip, faults)
            /\ Exec(fn) \in Nat /\ Enable(fn) \in 2 .. (Exec(fn) - 1)
         \/ Alone(t) /\ (faults <= 1 => Closed(chip))
  BY <1>1, WriterSafe
<1>3. /\ c.oip = chip.oip /\ c.job = chip.job /\ c.status = chip.status
      /\ IF s = "lock_all_blocks" THEN c.wel = chip.wel
         ELSE c.wel = IF chip.oip THEN chip.wel ELSE FALSE
  <2>1. ChipOK(chip)
    BY <1>2
  <2>2. QED BY <1>1, <2>1, Commands
<1>4. CallInv'
  BY WriteEndCall DEF SafeInv
<1> HIDE DEF c
<1>5. Closed(chip) => Closed(c)
  BY <1>3 DEF Closed
<1>6. CASE Alone(t) /\ (faults <= 1 => Closed(chip))
  BY <1>1, <1>2, <1>3, <1>4, <1>5, <1>6, AloneTransferSafe DEF Special
<1>7. CASE /\ Holds(t) /\ fn \in Writes
           /\ SafeWrite(fn, i, task[t].ret = "OK", chip, faults)
           /\ Exec(fn) \in Nat /\ Enable(fn) \in 2 .. (Exec(fn) - 1)
  <2>1. i = IF s = "lock_all_blocks" THEN Exec(fn) + 3 ELSE Exec(fn) + 2
    BY <1>2, <1>7, WriteSteps
  <2>2. faults <= 1 => Closed(c)
    <3>1. CASE s = "lock_all_blocks"
      BY <1>5, <1>7, <2>1, <3>1 DEF SafeWrite
    <3>2. CASE s # "lock_all_blocks"
      <4>1. faults <= 1 /\ chip.oip /\ chip.wel => chip.job.kind # "read"
        BY <1>7, <2>1, <3>2 DEF SafeWrite
      <4>2. QED BY <1>3, <3>2, <4>1 DEF Closed
    <3>3. QED BY <3>1, <3>2
  <2>3. i + 1 > Exec(fn) + 2
    BY <1>7, <2>1
  <2>4. SafeWrite(fn, i + 1, task[t].ret = "OK", c, faults)
    BY <1>7, <2>1, <2>2, <2>3 DEF SafeWrite
  <2>5. QED BY <1>1, <1>2, <1>3, <1>4, <1>7, <2>4, HolderTransferSafe DEF Special
<1>8. QED BY <1>2, <1>6, <1>7

\* unlock_all_blocks keeps SafeInv.
LEMMA UnlockBlocksSafe ==
  ASSUME EXCLUSIVE, SafeInv, NEW t \in Tasks, unlock_all_blocks(t)
  PROVE  SafeInv'
<1> DEFINE fn == task[t].fn
           i == task[t].at
           c == accepted([chip EXCEPT !.prot = FALSE])
<1>1. step_of(t) = "unlock_all_blocks" /\ Transfer(t, "unlock_all_blocks", c) /\ CallInv'
  BY UnlockBlocksCall DEF unlock_all_blocks, Transfer, SafeInv
<1>2. /\ plan(fn)[i] = "unlock_all_blocks" /\ i \in 1 .. Length(fn) /\ ChipOK(chip)
      /\ faults = 0 => /\ ~chip.oip
                       /\ "P_FAIL" \notin chip.status /\ "E_FAIL" \notin chip.status
      /\ \/ /\ Holds(t) /\ fn \in Writes
            /\ SafeWrite(fn, i, task[t].ret = "OK", chip, faults)
            /\ Exec(fn) \in Nat /\ Enable(fn) \in 2 .. (Exec(fn) - 1)
         \/ Alone(t) /\ (faults <= 1 => Closed(chip))
  BY <1>1, WriterSafe
<1>3. /\ c.oip = chip.oip /\ c.job = chip.job /\ c.status = chip.status
      /\ c.wel = chip.wel /\ c.prot = IF chip.oip THEN chip.prot ELSE FALSE
  <2>1. ChipOK(chip)
    BY <1>2
  <2>2. QED BY <2>1, Commands
<1> HIDE DEF c
<1>4. Closed(chip) => Closed(c)
  BY <1>3 DEF Closed
<1>5. CASE Alone(t) /\ (faults <= 1 => Closed(chip))
  BY <1>1, <1>2, <1>3, <1>4, <1>5, AloneTransferSafe DEF Special
<1>6. CASE /\ Holds(t) /\ fn \in Writes
           /\ SafeWrite(fn, i, task[t].ret = "OK", chip, faults)
           /\ Exec(fn) \in Nat /\ Enable(fn) \in 2 .. (Exec(fn) - 1)
  <2>1. i = Enable(fn) - 1
    BY <1>2, <1>6, WriteSteps
  <2>2. faults <= 1 => Closed(c)
    BY <1>4, <1>6, <2>1 DEF SafeWrite
  <2>3. SafeWrite(fn, i + 1, task[t].ret = "OK", c, faults)
    BY <1>2, <1>3, <1>6, <2>1, <2>2 DEF SafeWrite
  <2>4. QED BY <1>1, <1>2, <1>3, <1>6, <2>3, HolderTransferSafe DEF Special
<1>7. QED BY <1>2, <1>5, <1>6

\* The unprotected build closes the chip after a write that failed.
LEMMA WriteDisableIfFailedSafe ==
  ASSUME EXCLUSIVE, SafeInv, NEW t \in Tasks, write_disable_if_failed(t)
  PROVE  SafeInv'
<1> DEFINE fn == task[t].fn
           i == task[t].at
<1>1. CASE Transfer(t, "write_disable_if_failed", accepted([chip EXCEPT !.wel = FALSE]))
  BY <1>1, WriteEndSafe
<1>2. CASE /\ step_of(t) = "write_disable_if_failed" /\ task[t].ret = "OK"
           /\ Advance(t) /\ UNCHANGED <<protected, handle, lock, chip, seen, faults>>
  <2>1. /\ plan(fn)[i] = "write_disable_if_failed" /\ i \in 1 .. Length(fn)
        /\ faults = 0 => /\ ~chip.oip
                         /\ "P_FAIL" \notin chip.status /\ "E_FAIL" \notin chip.status
        /\ Holds(t) /\ fn \in Writes
        /\ SafeWrite(fn, i, task[t].ret = "OK", chip, faults)
        /\ Exec(fn) \in Nat /\ Enable(fn) \in 2 .. (Exec(fn) - 1)
    BY <1>2, WriterSafe
  <2>2. i = Exec(fn) + 2
    BY <2>1, WriteSteps
  <2>3. SafeWrite(fn, i + 1, task[t].ret = "OK", chip, faults)
    BY <1>2, <2>1, <2>2 DEF SafeWrite
  <2>4. Moved(t, i + 1) /\ task'[t].ret = task[t].ret /\ CallInv'
    BY <1>2, AdvanceMoves, WriteDisableIfFailedCall DEF SafeInv, CallInv, DriverInv
  <2>5. QED BY <1>2, <2>1, <2>3, <2>4, HolderSafe
<1>3. QED BY <1>1, <1>2 DEF write_disable_if_failed

\* read_from_cache keeps SafeInv.
LEMMA ReadFromCacheSafe ==
  ASSUME EXCLUSIVE, SafeInv, NEW t \in Tasks, read_from_cache(t)
  PROVE  SafeInv'
<1> DEFINE fn == task[t].fn
           i == task[t].at
<1>1. /\ step_of(t) = "read_from_cache" /\ plan(fn)[i] = "read_from_cache"
      /\ i \in 1 .. Length(fn) /\ fn \in Names /\ DriverInv /\ CallInv'
      /\ faults \in Nat
  BY StepOf, ReadFromCacheCall DEF read_from_cache, SafeInv, CallInv, DriverInv, Types
<1>2. fn \notin Writes
  <2>1. ASSUME fn \in Writes PROVE FALSE
    <3>1. plan(fn)[i] # "read_from_cache"
      BY <1>1, <2>1, WriteSteps
    <3>2. QED BY <1>1, <3>1
  <2>2. QED BY <2>1
<1>3. fn # "init"
  BY <1>1, InitPlan DEF Length
<1>4. Holds(t)
  BY <1>1, <1>3, Actor DEF Ends, Alone
<1>5. /\ UNCHANGED <<protected, lock, chip>>
      /\ faults = 0 => /\ ~chip.oip
                       /\ "P_FAIL" \notin chip.status /\ "E_FAIL" \notin chip.status
      /\ faults <= 1 => Closed(chip)
  BY <1>1, <1>2, <1>4, NotBusy DEF read_from_cache, SafeInv, SafeOK, Holds
<1>6. \/ Moved(t, i + 1) /\ faults' = faults
      \/ Moved(t, cleanup(fn, i)) /\ faults' = faults + 1
  BY <1>1, ReadFromCacheMoves
<1>7. /\ faults' = 0 => faults = 0
      /\ faults' <= 1 => faults <= 1
  BY <1>1, <1>6
<1>8. QED BY <1>1, <1>2, <1>4, <1>5, <1>6, <1>7, HolderSafe

\* wait_ready keeps SafeInv, also when it times out.
LEMMA WaitReadySafe ==
  ASSUME EXCLUSIVE, SafeInv, NEW t \in Tasks, wait_ready(t)
  PROVE  SafeInv'
<1> DEFINE fn == task[t].fn
           i == task[t].at
<1>1. /\ step_of(t) = "wait_ready" /\ plan(fn)[i] = "wait_ready"
      /\ i \in 1 .. Length(fn) /\ fn \in Names /\ DriverInv /\ CallInv'
      /\ faults \in Nat
  BY StepOf, WaitReadyCall DEF wait_ready, SafeInv, CallInv, DriverInv, Types
<1>2. UNCHANGED <<protected, lock, chip>>
  BY DEF wait_ready
<1>3. Holds(t) \/ Alone(t)
  BY <1>1, Actor DEF Ends
<1>4. faults = 0 => "P_FAIL" \notin chip.status /\ "E_FAIL" \notin chip.status
  BY DEF SafeInv, SafeOK
<1>5. \/ /\ Moved(t, i + 1) /\ task'[t].ret = task[t].ret
         /\ ~chip.oip /\ failure(t) \notin chip.status /\ faults' = faults
      \/ /\ Moved(t, cleanup(fn, i)) /\ task'[t].ret # "OK"
         /\ ~chip.oip /\ failure(t) \in chip.status /\ faults' = faults
      \/ /\ Moved(t, cleanup(fn, i)) /\ task'[t].ret # "OK" /\ faults' = faults + 1
  BY <1>1, WaitReadyMoves
<1>6. /\ chip.oip => faults' # 0
      /\ faults' = 0 => faults = 0
      /\ faults' <= 1 => faults <= 1
  <2>1. faults' = faults => ~chip.oip
    BY <1>1, <1>5
  <2>2. faults' = faults \/ faults' = faults + 1
    BY <1>5
  <2>3. CASE faults' = faults + 1
    BY <1>1, <2>3
  <2>4. CASE faults' = faults
    <3>1. chip.oip => faults # 0
      BY <2>1, <2>4
    <3>2. QED BY <2>4, <3>1
  <2>5. QED BY <2>2, <2>3, <2>4
<1>7. CASE Alone(t)
  BY <1>1, <1>2, <1>4, <1>6, <1>7, AloneChip, AloneSafe
<1>8. CASE Holds(t) /\ fn \notin Writes
  <2>1. faults <= 1 => Closed(chip)
    BY <1>8 DEF SafeInv, SafeOK, Holds
  <2>2. PICK k : Moved(t, k)
    BY <1>5
  <2>3. QED BY <1>1, <1>2, <1>4, <1>6, <1>8, <2>1, <2>2, HolderSafe
<1>9. CASE Holds(t) /\ fn \in Writes
  <2>1. /\ SafeWrite(fn, i, task[t].ret = "OK", chip, faults)
        /\ i = Exec(fn) + 1 \/ (fn = "page_copy" /\ i = 3)
        /\ Exec(fn) \in Nat /\ Enable(fn) \in 2 .. (Exec(fn) - 1)
        /\ fn = "page_copy" => Enable(fn) >= 4
    BY <1>1, <1>9, WriteSteps, WritePlaces DEF SafeInv, SafeOK, Holds
  <2>2. i = Exec(fn) + 1 => failure(t) = Flag(fn) /\ Flag(fn) \in {"P_FAIL", "E_FAIL"}
    <3>1. ASSUME i = Exec(fn) + 1 PROVE failure(t) = Flag(fn)
      <4>1. plan(fn)[i - 1] = IF fn = "block_erase" THEN "block_erase"
                              ELSE "program_execute"
        <5>1. CASE fn \in Programs
          BY <3>1, <5>1, ProgramPlan DEF Exec, Programs
        <5>2. CASE fn = "page_copy"
          BY <3>1, <5>2, CopyPlan DEF Exec, Programs
        <5>3. CASE fn = "block_erase"
          BY <3>1, <5>3, ErasePlan DEF Exec, Programs
        <5>4. QED BY <1>9, <5>1, <5>2, <5>3 DEF Writes, Programs
      <4>2. QED BY <4>1 DEF failure, Flag
    <3>2. QED BY <3>1 DEF Flag
  <2>3. CASE Moved(t, cleanup(fn, i)) /\ task'[t].ret # "OK" /\ faults' = faults + 1
    <3>1. SafeWrite(fn, cleanup(fn, i), FALSE, chip, faults + 1)
      BY <1>1, <1>9, FaultSafe DEF Special
    <3>2. (task'[t].ret = "OK") = FALSE
      BY <2>3
    <3>3. QED BY <1>1, <1>2, <1>4, <1>6, <1>9, <2>3, <3>1, <3>2, HolderSafe
  <2>4. CASE /\ Moved(t, i + 1) /\ task'[t].ret = task[t].ret
             /\ ~chip.oip /\ failure(t) \notin chip.status /\ faults' = faults
    <3>1. CASE i = Exec(fn) + 1
      <4>1. faults <= 1 => ~chip.wel
        BY <2>1, <2>2, <2>4, <3>1 DEF SafeWrite
      <4>2. SafeWrite(fn, i + 1, task[t].ret = "OK", chip, faults)
        BY <2>1, <2>4, <3>1, <4>1 DEF SafeWrite, Closed
      <4>3. QED BY <1>1, <1>2, <1>4, <1>6, <1>9, <2>4, <4>2, HolderSafe
    <3>2. CASE fn = "page_copy" /\ i = 3
      <4>1. faults <= 1 => Closed(chip)
        BY <2>1, <3>2 DEF SafeWrite
      <4>2. i + 1 = Enable(fn) => ~chip.prot
        <5>1. protected => Enable(fn) # 4
          BY <3>2 DEF Enable, Exec, Programs
        <5>2. ~protected => ~chip.prot
          <6>1. handle.alive /\ \A u \in Tasks : task[u].fn \notin {"init", "deinit"}
            BY <1>1, <3>2 DEF DriverInv, HandleOK
          <6>2. handle.initialized
            BY <1>1, <6>1 DEF DriverInv, HandleOK
          <6>3. QED BY <6>2 DEF SafeInv, CallInv, OpenOK
        <5>3. QED BY <3>2, <5>1, <5>2
      <4>3. SafeWrite(fn, i + 1, task[t].ret = "OK", chip, faults)
        BY <2>1, <3>2, <4>1, <4>2 DEF SafeWrite
      <4>4. QED BY <1>1, <1>2, <1>4, <1>6, <1>9, <2>4, <4>3, HolderSafe
    <3>3. QED BY <2>1, <3>1, <3>2
  <2>5. CASE /\ Moved(t, cleanup(fn, i)) /\ task'[t].ret # "OK"
             /\ ~chip.oip /\ failure(t) \in chip.status /\ faults' = faults
    <3>1. i \in 2 .. (Length(fn) - 1) /\ protected \in BOOLEAN
          /\ Length(fn) = IF protected THEN Exec(fn) + 4 ELSE Exec(fn) + 3
      BY <1>1, <1>9, <2>1, WritePlaces DEF DriverInv, Types
    <3>2. cleanup(fn, i) = IF i \in Enable(fn) .. (Exec(fn) + 1) THEN Exec(fn) + 2
                           ELSE Length(fn)
      BY <1>9, <3>1, WriteCleanup
    <3>3. SafeWrite(fn, cleanup(fn, i), FALSE, chip, faults)
      <4>1. CASE i = Exec(fn) + 1
        <5>1. cleanup(fn, i) = Exec(fn) + 2
          BY <2>1, <3>2, <4>1
        <5>2. faults # 0
          BY <1>4, <2>2, <2>5, <4>1
        <5>3. QED BY <2>1, <2>5, <5>1, <5>2 DEF SafeWrite
      <4>2. CASE fn = "page_copy" /\ i = 3
        <5>1. cleanup(fn, i) = Length(fn) /\ Length(fn) > Exec(fn) + 2
          BY <2>1, <3>1, <3>2, <4>2
        <5>2. faults <= 1 => Closed(chip)
          BY <2>1, <4>2 DEF SafeWrite
        <5>3. QED BY <2>1, <5>1, <5>2 DEF SafeWrite
      <4>3. QED BY <2>1, <4>1, <4>2
    <3>4. (task'[t].ret = "OK") = FALSE
      BY <2>5
    <3>5. QED BY <1>1, <1>2, <1>4, <1>6, <1>9, <2>5, <3>3, <3>4, HolderSafe
  <2>6. QED BY <1>5, <2>3, <2>4, <2>5
<1>10. QED BY <1>3, <1>7, <1>8, <1>9

\* The chip comes to the end of a job, well or badly.
LEMMA ChipReadySafe ==
  ASSUME EXCLUSIVE, SafeInv, ChipReady
  PROVE  SafeInv'
<1>1. /\ ChipOK(chip) /\ chip.oip /\ UNCHANGED <<protected, handle, lock, task, seen>>
      /\ DriverInv /\ CallInv' /\ faults \in Nat
  BY ChipReadyCall DEF SafeInv, CallInv, DriverInv, Types, ChipReady
<1>2. PICK fails \in BOOLEAN :
        /\ chip' = finished(chip, fails)
        /\ faults' = IF fails THEN faults + 1 ELSE faults
        /\ fails => chip.job.kind # "read"
  <2>1. CASE chip' = finished(chip, FALSE) /\ UNCHANGED faults
    BY <2>1
  <2>2. CASE chip.job.kind # "read" /\ Fault /\ chip' = finished(chip, TRUE)
    BY <2>2 DEF Fault
  <2>3. QED BY <2>1, <2>2 DEF ChipReady
<1> DEFINE d == finished(chip, fails)
<1>3. /\ ~d.oip /\ d.prot = chip.prot
      /\ chip.job.kind = "read" => d.wel = chip.wel
      /\ chip.job.kind # "read" /\ ~fails => ~d.wel
  BY <1>1, Finished
<1>4. faults' = 0 => "P_FAIL" \notin d.status /\ "E_FAIL" \notin d.status
  <2>1. SUFFICES ASSUME faults' = 0
                 PROVE  "P_FAIL" \notin d.status /\ "E_FAIL" \notin d.status
    OBVIOUS
  <2>2. ~fails /\ faults = 0
    BY <1>1, <1>2, <2>1
  <2>3. "P_FAIL" \notin chip.status /\ "E_FAIL" \notin chip.status
    BY <2>2 DEF SafeInv, SafeOK
  <2>4. CASE chip.job.kind = "read"
    <3>1. d.status \ {"ECC_ERR"} = chip.status \ {"ECC_ERR"}
      BY <1>1, <2>4, Finished
    <3>2. QED BY <2>3, <3>1
  <2>5. CASE chip.job.kind # "read"
    <3>1. d.status = chip.status \ {"P_FAIL"} \/ d.status = chip.status \ {"E_FAIL"}
      BY <1>1, <2>2, <2>5, Finished, ZenonT(60)
    <3>2. QED BY <2>3, <3>1
  <2>6. QED BY <2>4, <2>5
<1>5. faults' <= 1 => faults <= 1 /\ (fails => faults = 0)
  BY <1>1, <1>2
<1>6. ASSUME fails, faults = 0
      PROVE  \E t \in Tasks : /\ Waits(t) /\ task[t].fn \in Writes
                              /\ task[t].at = Exec(task[t].fn) + 1
                              /\ chip.job.kind = Kind(task[t].fn)
  BY <1>1, <1>2, <1>6 DEF SafeInv, SafeOK, JobOf
<1>7. Closed(chip) /\ ~fails => Closed(d)
  BY <1>1, <1>3 DEF Closed
<1>8. ASSUME NEW t \in Tasks, lock.owner = t, task[t].fn \in Writes
      PROVE  SafeWrite(task[t].fn, task[t].at, task[t].ret = "OK", d, faults')
  <2> DEFINE fn == task[t].fn
             i == task[t].at
             x == Exec(fn)
  <2>1. /\ SafeWrite(fn, i, task[t].ret = "OK", chip, faults)
        /\ x \in Nat /\ Enable(fn) \in 2 .. (x - 1) /\ i \in Nat
    BY <1>1, <1>8, WritePlaces DEF SafeInv, SafeOK, DriverInv, Types, TaskRecords
  <2>2. fails /\ faults = 0 => i = x + 1 /\ chip.job.kind = Kind(fn)
    BY <1>6, <1>8 DEF Waits
  <2>3. CASE i = x + 1
    <3>1. d.wel /\ faults' <= 1 => Flag(fn) \in d.status
      <4>1. SUFFICES ASSUME d.wel, faults' <= 1 PROVE Flag(fn) \in d.status
        OBVIOUS
      <4>2. chip.job.kind # "read"
        <5>1. CASE chip.job.kind = "read"
          <6>1. chip.wel /\ faults <= 1
            BY <1>3, <1>5, <4>1, <5>1
          <6>2. QED BY <1>1, <2>1, <2>3, <6>1 DEF SafeWrite
        <5>2. QED BY <5>1
      <4>3. fails
        BY <1>3, <4>1, <4>2
      <4>4. chip.job.kind = Kind(fn)
        BY <1>5, <2>2, <4>1, <4>3
      <4>5. CASE fn = "block_erase"
        <5>1. chip.job.kind = "erase" /\ Flag(fn) = "E_FAIL"
          BY <4>4, <4>5 DEF Kind, Flag
        <5>2. d.status = chip.status \cup {"E_FAIL"}
          BY <1>1, <4>3, <5>1, Finished
        <5>3. QED BY <5>1, <5>2
      <4>6. CASE fn # "block_erase"
        <5>1. chip.job.kind = "program" /\ Flag(fn) = "P_FAIL"
          BY <4>4, <4>6 DEF Kind, Flag
        <5>2. d.status = chip.status \cup {"P_FAIL"}
          BY <1>1, <4>3, <5>1, Finished
        <5>3. QED BY <5>1, <5>2
      <4>7. QED BY <4>5, <4>6
    <3> HIDE DEF d
    <3>2. QED BY <1>3, <2>1, <2>3, <3>1 DEF SafeWrite
  <2>4. CASE i # x + 1
    <3>1. faults' <= 1 => ~fails /\ faults' = faults
      BY <1>2, <1>5, <2>2, <2>4
    <3>2. faults' = 0 => faults = 0
      BY <3>1
    <3> HIDE DEF d
    <3>3. CASE i \in (Enable(fn) + 1) .. x
      BY <1>3, <2>1, <3>2, <3>3 DEF SafeWrite
    <3>4. CASE i = x + 2
      BY <1>3, <1>7, <2>1, <3>1, <3>4 DEF SafeWrite
    <3>5. CASE i \notin (Enable(fn) + 1) .. (x + 2)
      BY <1>3, <1>7, <2>1, <3>1, <3>2, <3>5 DEF SafeWrite
    <3>6. QED BY <2>1, <2>4, <3>3, <3>4, <3>5
  <2>5. QED BY <2>3, <2>4
<1>9. ASSUME \A t \in Tasks : lock.owner = t => task[t].fn \notin Writes, faults' <= 1
      PROVE  Closed(d)
  <2>1. ~fails /\ Closed(chip)
    BY <1>5, <1>6, <1>9 DEF Waits, SafeInv, SafeOK
  <2>2. QED BY <1>7, <2>1
<1> HIDE DEF d
<1>10. chip' = d
  BY <1>2 DEF d
<1>11. \A t \in Tasks :
         SafeWrite(task[t].fn, task[t].at, task[t].ret = "OK", chip, faults)'
           <=> SafeWrite(task[t].fn, task[t].at, task[t].ret = "OK", d, faults')
  BY <1>1, <1>10, SamePlan
<1>12. Closed(chip)' <=> Closed(d)
  BY <1>10 DEF Closed
<1>13. SafeOK'
  BY <1>1, <1>3, <1>4, <1>8, <1>9, <1>10, <1>11, <1>12 DEF SafeOK
<1>14. QED BY <1>1, <1>13 DEF SafeInv

\* A call takes over a chip that is closed, or one a fault has left open.
LEMMA LockSafe ==
  ASSUME EXCLUSIVE, SafeInv, NEW t \in Tasks, NAND_LOCK(t)
  PROVE  SafeInv'
<1> DEFINE fn == task[t].fn
           i == task[t].at
<1>1. /\ fn \in Names /\ plan(fn)[i] = "NAND_LOCK" /\ i \in 1 .. Length(fn)
      /\ step_of(t) = "NAND_LOCK" /\ fn # "none"
      /\ DriverInv /\ CallInv' /\ Moved(t, i + 1)
  BY StepOf, LockStep, LockCall DEF NAND_LOCK, SafeInv, CallInv
<1>2. /\ lock'.owner = t /\ UNCHANGED <<protected, handle, chip, faults>>
      /\ lock.owner \in {NOBODY, t}
  BY DEF NAND_LOCK, may_lock
<1>3. \A u \in Tasks : ~Waits(u)
  BY <1>1, <1>2, DriverAssumption DEF Waits
<1>4. faults = 0 => ~chip.oip
  BY <1>3 DEF SafeInv, SafeOK
<1>5. task'[t].fn = fn /\ task'[t].at = i + 1
  BY <1>1 DEF Moved
<1>6. Closed(chip)' <=> Closed(chip)
  BY <1>2 DEF Closed
<1>7. CASE fn \in Writes
  <2>1. i = 1
    BY <1>1, <1>7, WriteSteps
  <2>2. lock.owner = NOBODY
    <3>1. DepthOf(t) = 0
      BY <1>1, <1>7, <2>1 DEF DepthOf, Depth, Writes, Programs
    <3>2. QED BY <1>1, <1>2, <3>1 DEF DriverInv, LockOK
  <2>3. faults <= 1 => Closed(chip)
    BY <2>2, DriverAssumption DEF SafeInv, SafeOK
  <2>4. /\ Exec(fn) \in Nat /\ Enable(fn) \in 2 .. (Exec(fn) - 1)
        /\ protected => Enable(fn) >= 3
    BY <1>7, WritePlaces
  <2>5. ~protected => ~chip.prot
    <3>1. handle.alive /\ \A u \in Tasks : task[u].fn \notin {"init", "deinit"}
      BY <1>1, <1>7 DEF DriverInv, HandleOK, Writes, Programs
    <3>2. handle.initialized
      BY <1>1, <3>1 DEF DriverInv, HandleOK
    <3>3. QED BY <3>2 DEF SafeInv, CallInv, OpenOK
  <2>6. \A ok : SafeWrite(fn, 2, ok, chip, faults)
    BY <2>3, <2>4, <2>5 DEF SafeWrite
  <2>7. SafeWrite(task[t].fn, task[t].at, task[t].ret = "OK", chip, faults)'
    BY <1>2, <1>5, <2>1, <2>6, SamePlan
  <2>8. SafeOK'
    BY <1>2, <1>4, <1>5, <1>7, <2>7 DEF SafeInv, SafeOK
  <2>9. QED BY <1>1, <2>8 DEF SafeInv
<1>8. CASE fn \notin Writes
  <2>1. faults <= 1 => Closed(chip)
    BY <1>2, <1>8, DriverAssumption DEF SafeInv, SafeOK
  <2>2. SafeOK'
    BY <1>2, <1>4, <1>5, <1>6, <1>8, <2>1 DEF SafeInv, SafeOK
  <2>3. QED BY <1>1, <2>2 DEF SafeInv
<1>9. QED BY <1>7, <1>8

\* A call gives back a chip that is closed, if nothing has failed.
LEMMA UnlockSafe ==
  ASSUME EXCLUSIVE, SafeInv, NEW t \in Tasks, NAND_UNLOCK(t)
  PROVE  SafeInv'
<1> DEFINE fn == task[t].fn
           i == task[t].at
<1>1. /\ fn \in Names /\ plan(fn)[i] = "NAND_UNLOCK" /\ i \in 1 .. Length(fn)
      /\ Len(plan(fn)) = Length(fn) /\ step_of(t) = "NAND_UNLOCK"
      /\ DriverInv /\ CallInv'
      /\ Depth(fn, i) \in {1, 2} /\ fn # "none"
  BY StepOf, UnlockCall, PlanLength, LockSteps DEF NAND_UNLOCK, SafeInv, CallInv
<1>2. /\ UNCHANGED <<protected, handle, chip, faults>>
      /\ lock' = IF lock.depth = 1 THEN [owner |-> NOBODY, depth |-> 0]
                 ELSE [lock EXCEPT !.depth = @ - 1]
  BY DEF NAND_UNLOCK
<1>3. lock.owner = t /\ lock.depth = Depth(fn, i)
  BY <1>1 DEF DriverInv, LockOK, DepthOf
<1>4. faults = 0 => ~chip.oip
  BY <1>1, <1>3 DEF SafeInv, SafeOK, Waits
<1>5. faults <= 1 => Closed(chip)
  <2>1. CASE fn \notin Writes
    BY <1>3, <2>1 DEF SafeInv, SafeOK
  <2>2. CASE fn \in Writes
    <3>1. i = Length(fn) /\ Exec(fn) \in Nat
          /\ Length(fn) = IF protected THEN Exec(fn) + 4 ELSE Exec(fn) + 3
      BY <1>1, <2>2, WriteSteps, WritePlaces
    <3>2. SafeWrite(fn, i, task[t].ret = "OK", chip, faults)
      BY <1>3, <2>2 DEF SafeInv, SafeOK
    <3>3. i > Exec(fn) + 2
      BY <3>1
    <3>4. i \notin (Enable(fn) + 1) .. (Exec(fn) + 2)
      BY <3>1, <3>3
    <3>5. QED BY <3>2, <3>4 DEF SafeWrite
  <2>3. QED BY <2>1, <2>2
<1>6. Closed(chip)' <=> Closed(chip)
  BY <1>2 DEF Closed
<1>7. \A u \in Tasks : lock'.owner = u => task'[u].fn \notin Writes
  <2>1. CASE lock.depth = 1
    BY <1>2, <2>1, DriverAssumption
  <2>2. CASE lock.depth # 1
    <3>1. Depth(fn, i) = 2
      BY <1>1, <1>3, <2>2
    <3>2. fn = "page_is_free" /\ i # Length(fn)
      BY <1>1, <3>1, LockSteps DEF Depth
    <3>3. task' = [task EXCEPT ![t].at = i + 1]
      BY <1>1, <3>2 DEF NAND_UNLOCK, Advance, Goto
    <3>4. task'[t].fn = "page_is_free"
      BY <1>1, <3>2, <3>3 DEF DriverInv, Types, TaskRecords
    <3>5. lock'.owner = t
      BY <1>1, <1>2, <1>3, <2>2 DEF DriverInv, Types
    <3>6. QED BY <3>4, <3>5 DEF Writes, Programs
  <2>3. QED BY <2>1, <2>2
<1>8. SafeOK'
  BY <1>2, <1>4, <1>5, <1>6, <1>7 DEF SafeInv, SafeOK
<1>9. QED BY <1>1, <1>8 DEF SafeInv

\* A call begins without a command.
LEMMA BeginSafe ==
  ASSUME EXCLUSIVE, SafeInv, NEW t \in Tasks, NEW fn \in Fns, NEW row \in Rows,
         NEW src \in Rows, NEW data \in Data, Begin(t, fn, row, src, data)
  PROVE  SafeInv'
<1>1. DriverInv /\ CallInv'
  BY BeginCall DEF SafeInv, CallInv
<1>2. PICK new \in TaskRecords : task' = [task EXCEPT ![t] = new]
  BY <1>1, BegunRecord
<1>3. /\ \A u \in Tasks \ {t} : task'[u] = task[u]
      /\ UNCHANGED <<protected, handle, lock, chip, faults>> /\ task[t].fn = "none"
  BY <1>1, <1>2 DEF DriverInv, Types, Begin
<1>4. lock.owner # t
  BY <1>1, <1>3, DriverAssumption DEF DriverInv, LockOK, DepthOf
<1>5. \A u \in Tasks \ {t} :
        /\ Waits(u)' <=> Waits(u)
        /\ JobOf(task[u].fn, task[u].at)' = JobOf(task[u].fn, task[u].at)
        /\ SafeWrite(task[u].fn, task[u].at, task[u].ret = "OK", chip, faults)'
             <=> SafeWrite(task[u].fn, task[u].at, task[u].ret = "OK", chip, faults)
  BY <1>3, SamePlan DEF Waits, step_of
<1>6. Closed(chip)' <=> Closed(chip)
  BY <1>3 DEF Closed
<1>7. SafeOK'
  <2>1. \A u \in Tasks : lock.owner = u => u # t
    BY <1>4
  <2>2. \A u \in Tasks : lock'.owner = u => task'[u] = task[u] /\ u # t
    BY <1>3, <2>1
  <2>3. chip'.oip /\ faults' = 0 =>
          \E u \in Tasks : Waits(u)' /\ chip'.job.kind = JobOf(task[u].fn, task[u].at)'
    <3>1. SUFFICES ASSUME chip'.oip, faults' = 0
                   PROVE  \E u \in Tasks : Waits(u)' /\ chip'.job.kind
                                             = JobOf(task[u].fn, task[u].at)'
      OBVIOUS
    <3>2. PICK u \in Tasks : Waits(u) /\ chip.job.kind = JobOf(task[u].fn, task[u].at)
      BY <1>3, <3>1 DEF SafeInv, SafeOK
    <3>3. u # t
      BY <2>1, <3>2 DEF Waits
    <3>4. Waits(u)' /\ chip'.job.kind = JobOf(task[u].fn, task[u].at)'
      BY <1>3, <1>5, <3>2, <3>3
    <3>5. QED BY <3>4
  <2>4. \A u \in Tasks : lock'.owner = u /\ task'[u].fn \in Writes =>
          SafeWrite(task[u].fn, task[u].at, task[u].ret = "OK", chip, faults)'
    BY <1>3, <1>5, <2>2 DEF SafeInv, SafeOK
  <2>5. (\A u \in Tasks : lock'.owner = u => task'[u].fn \notin Writes) /\ faults' <= 1 =>
          Closed(chip)'
    BY <1>3, <1>6, <2>2 DEF SafeInv, SafeOK
  <2>6. QED BY <1>3, <2>3, <2>4, <2>5 DEF SafeInv, SafeOK
<1>8. QED BY <1>1, <1>7 DEF SafeInv

\* allocate keeps SafeInv.
LEMMA AllocateSafe ==
  ASSUME EXCLUSIVE, SafeInv, NEW t \in Tasks, allocate(t)
  PROVE  SafeInv'
<1>1. /\ task[t].fn \in Names /\ plan(task[t].fn)[task[t].at] = "allocate"
      /\ task[t].at \in 1 .. Length(task[t].fn) /\ step_of(t) = "allocate"
      /\ CallInv /\ CallInv' /\ faults \in Nat
  BY StepOf, AllocateCall DEF allocate, SafeInv, CallInv, DriverInv, Types
<1>2. Alone(t)
  BY <1>1, OnlyInit, Actor DEF CallInv, Ends, Holds
<1>3. UNCHANGED <<lock, chip>> /\ faults' \in {faults, faults + 1}
  BY DEF allocate, Fault
<1>4. QED BY <1>1, <1>2, <1>3, AloneChip, AloneSafe

\* deinit clears the handle and sends no command.
LEMMA ClearInitializedSafe ==
  ASSUME EXCLUSIVE, SafeInv, NEW t \in Tasks, clear_initialized(t)
  PROVE  SafeInv'
<1>1. /\ task[t].fn \in Names /\ plan(task[t].fn)[task[t].at] = "clear_initialized"
      /\ task[t].at \in 1 .. Length(task[t].fn) /\ step_of(t) = "clear_initialized"
      /\ CallInv /\ CallInv' /\ Moved(t, task[t].at + 1)
  BY StepOf, ClearInitializedCall, AdvanceMoves
     DEF clear_initialized, SafeInv, CallInv, DriverInv
<1>2. UNCHANGED <<protected, lock, chip, faults>>
  BY DEF clear_initialized
<1>3. task[t].fn # "init"
  BY <1>1, InitPlan DEF Length
<1>4. task[t].fn \notin Writes
  <2>1. ASSUME task[t].fn \in Writes PROVE FALSE
    BY <1>1, <2>1, WriteSteps
  <2>2. QED BY <2>1
<1>5. Holds(t)
  BY <1>1, <1>3, Actor DEF CallInv, Ends, Alone
<1>6. /\ faults = 0 => /\ ~chip.oip
                       /\ "P_FAIL" \notin chip.status /\ "E_FAIL" \notin chip.status
      /\ faults <= 1 => Closed(chip)
  BY <1>1, <1>4, <1>5, NotBusy DEF SafeInv, SafeOK, Holds
<1>7. QED BY <1>1, <1>2, <1>4, <1>5, <1>6, HolderSafe

\* Nobody holds the lock when init or deinit returns.
LEMMA HandleEndSafe ==
  ASSUME EXCLUSIVE, SafeInv, NEW t \in Tasks, set_initialized(t) \/ release_resources(t)
  PROVE  SafeInv'
<1>1. /\ task[t].fn \in Names /\ DriverInv /\ CallInv'
      /\ plan(task[t].fn)[task[t].at] \in {"set_initialized", "release_resources"}
      /\ task[t].at \in 1 .. Length(task[t].fn)
  BY StepOf, HandleEndCall DEF set_initialized, release_resources, SafeInv, CallInv
<1>2. UNCHANGED <<lock, chip, faults>>
  BY DEF set_initialized, release_resources
<1>3. task[t].fn \in {"init", "deinit"} /\ DepthOf(t) = 0
  BY <1>1, LockSteps DEF DepthOf
<1>4. \A u \in Tasks : lock.owner # u
  <2>1. \A u \in Tasks : DepthOf(u) = 0
    BY <1>1, <1>3 DEF DriverInv, HandleOK, DepthOf
  <2>2. QED BY <1>1, <2>1, DriverAssumption DEF DriverInv, Types, LockOK
<1>5. Closed(chip)' <=> Closed(chip)
  BY <1>2 DEF Closed
<1>6. SafeOK'
  BY <1>2, <1>4, <1>5 DEF SafeInv, SafeOK, Waits
<1>7. QED BY <1>1, <1>6 DEF SafeInv

\* At first the chip is closed.
LEMMA SafeInitInv == DriverInit => SafeInv
<1> SUFFICES ASSUME DriverInit PROVE SafeInv
  OBVIOUS
<1>1. CallInv
  BY CallInitInv
<1>2. \A t \in Tasks : lock.owner # t
  BY DriverAssumption DEF DriverInit
<1>3. chip.status = {} /\ ~chip.oip /\ ~chip.wel
  BY DEF DriverInit, PowerOn
<1>4. QED BY <1>1, <1>2, <1>3 DEF SafeInv, SafeOK, Closed

\* Every step keeps SafeInv.
LEMMA SafeNextInv ==
  ASSUME EXCLUSIVE
  PROVE  SafeInv /\ [DriverNext]_driverVars => SafeInv'
<1> SUFFICES ASSUME SafeInv, [DriverNext]_driverVars PROVE SafeInv'
  OBVIOUS
<1>1. CASE UNCHANGED driverVars
  <2>1. CallInv'
    BY CallNextInv DEF SafeInv
  <2>2. \A t \in Tasks :
          /\ Waits(t)' <=> Waits(t)
          /\ JobOf(task[t].fn, task[t].at)' = JobOf(task[t].fn, task[t].at)
          /\ SafeWrite(task[t].fn, task[t].at, task[t].ret = "OK", chip, faults)'
               <=> SafeWrite(task[t].fn, task[t].at, task[t].ret = "OK", chip, faults)
    BY <1>1, SamePlan DEF driverVars, Waits, step_of
  <2>3. Closed(chip)' <=> Closed(chip)
    BY <1>1 DEF driverVars, Closed
  <2>4. chip'.oip /\ faults' = 0 =>
          \E t \in Tasks : Waits(t)' /\ chip'.job.kind = JobOf(task[t].fn, task[t].at)'
    BY <1>1, <2>2 DEF driverVars, SafeInv, SafeOK
  <2>5. SafeOK'
    BY <1>1, <2>2, <2>3, <2>4 DEF driverVars, SafeInv, SafeOK
  <2>6. QED BY <2>1, <2>5 DEF SafeInv
<1>2. ASSUME NEW t \in Tasks, Step(t) PROVE SafeInv'
  BY <1>2, UnlockSafe, WriteEnableSafe, WriteEndSafe, UnlockBlocksSafe,
     WriteDisableIfFailedSafe, ProgramLoadSafe, ExecuteSafe, PageReadSafe,
     ReadFromCacheSafe, WaitReadySafe, AllocateSafe, SetupSafe, ResetSafe,
     HandleEndSafe, ClearInitializedSafe DEF Step
<1>3. QED BY <1>1, <1>2, BeginSafe, LockSafe, ChipReadySafe DEF DriverNext

\* Every step of every interleaving, with any number of faults, keeps SafeInv.
THEOREM SafeInvariance ==
  ASSUME EXCLUSIVE
  PROVE  DriverSpec => []SafeInv
BY SafeInitInv, SafeNextInv, PTL DEF DriverSpec

\* One failing transfer, timeout or operation does not leave the chip open to
\* writes (NoSingleFaultOpens): the clean-up of every write disables or protects
\* it again, whichever step of it has failed.
THEOREM OneFaultIsSafe ==
  ASSUME EXCLUSIVE
  PROVE  DriverSpec => []NoSingleFaultOpens
<1>1. SafeInv => NoSingleFaultOpens
  <2> SUFFICES ASSUME SafeInv, lock.owner = NOBODY, chip.wel, ~chip.oip
               PROVE  faults >= 2
    BY DEF NoSingleFaultOpens
  <2>1. \A t \in Tasks : lock.owner # t
    BY DriverAssumption
  <2>2. ~(faults <= 1)
    BY <2>1 DEF SafeInv, SafeOK, Closed
  <2>3. QED BY <2>2 DEF SafeInv, CallInv, DriverInv, Types
<1>2. QED BY <1>1, SafeInvariance, PTL

=============================================================================
