------------------------------- MODULE Queue --------------------------------
(***************************************************************************)
(* The journal as the map layer sees it: a ring of user pages, each with   *)
(* its data and its metadata, one attempt of an enqueue or copy being one  *)
(* step.  Journal models the same code with every NAND command as a step;  *)
(* here its internal steps and the page buffer are left out, and of the    *)
(* failures those that Journal shows it to survive remain:                 *)
(*   - no program fails where the metadata of the root would be looked for *)
(*     on the wrong page, or where there is no root (Journal's findings    *)
(*     RecoveryReadsMeta and RecoverableInChip);                           *)
(*   - power does not fail while a recovery is unfinished (ResumeIsIntact);*)
(*   - there is a page for the metadata dumped from an incomplete group,   *)
(*     and it is programmed at the first attempt; markers of bad blocks    *)
(*     are programmed at all.                                              *)
(***************************************************************************)
EXTENDS JournalOps

CONSTANTS
  DEPTH,        \* DHARA_RADIX_DEPTH, the bits of a sector number (32)
  SECTOR_NONE,  \* DHARA_SECTOR_NONE
  MISSING,      \* what an unprogrammed page holds
  MaxFails      \* bound: erase and program commands that fail

VARIABLES
  j,       \* struct dhara_journal
  entry,   \* what each user page holds: its data, and its metadata slice
  saved,   \* the header and cookie of the last checkpoint
  bad,     \* blocks marked bad
  fails    \* failed NAND commands so far

queueVars == <<j, entry, saved, bad, fails>>

Levels == 0 .. (DEPTH - 1)
NoAlts == [l \in Levels |-> PAGE_NONE]

\* Metadata of 0xff bytes, on a page without data.
Filler == [id |-> SECTOR_NONE, alt |-> NoAlts, data |-> MISSING]

\* The page keeps its data and loses its metadata.
without_meta(e) == [Filler EXCEPT !.data = e.data]

NoCheckpoint == [root |-> PAGE_NONE, tail |-> 0, count |-> 0, epoch |-> 0,
                 bb_current |-> 0, bb_last |-> 0]

QueueInit ==
  /\ j = EmptyJournal
  /\ entry = [p \in UPages |-> Filler]
  /\ saved = NoCheckpoint
  /\ bad = {}
  /\ fails = 0

\* Good checkpoints * (checkpoint period - 1).  (Block counts are unsigned:
\* with as many bad blocks as blocks the difference would wrap around.)
dhara_journal_capacity(jj) ==
  LET max_bad == IF jj.bb_last > jj.bb_current THEN jj.bb_last
                 ELSE jj.bb_current
  IN  (num_blocks - max_bad - 1) * cpb * (ppc - 1)

\* dhara_journal_peek: a tail at the start of a block moves past bad blocks,
\* of which at most DHARA_MAX_RETRIES are looked at.
peek(jj) ==
  LET looked(i) == (block_of(jj.tail) + i) % num_blocks
      stops(i) == looked(i) = block_of(jj.head) \/ looked(i) \notin bad
      found == {i \in 0 .. (MAX_RETRIES - 1) :
                  stops(i) /\ \A k \in 0 .. (i - 1) : ~stops(k)}
      tail == first_page(looked(CHOOSE i \in found : TRUE))
  IN  IF jj.head = jj.tail \/ ~is_aligned(jj.tail, ppb) \/ found = {}
        THEN jj
        ELSE [jj EXCEPT !.tail = tail,
                        !.root = IF tail = jj.head THEN PAGE_NONE ELSE @]

dhara_journal_clear(jj) ==
  [jj EXCEPT !.tail = jj.head, !.root = PAGE_NONE, !.dirty = TRUE]

\* Mutant: the enumeration ends one page early.
next_recoverable_short(jj) ==
  IF jj.recover_next = jj.recover_root \/ next_upage(jj.recover_next) = jj.recover_root
    THEN [jj EXCEPT !.enum_done = TRUE]
    ELSE [jj EXCEPT !.recover_next = next_upage(@)]

\* What dhara_journal_next_recoverable leaves behind.
next_recoverable(jj) ==
  IF jj.recover_next = jj.recover_root
    THEN [jj EXCEPT !.enum_done = TRUE]
    ELSE [jj EXCEPT !.recover_next = next_upage(@)]

-----------------------------------------------------------------------------
(* One attempt to append a page                                            *)

counted(jj) == [jj EXCEPT !.bb_current = @ + 1]

\* prepare_head, with the journal it leaves behind: at the start of a block
\* it moves on past bad blocks, up to DHARA_MAX_RETRIES of them.
prepare_head(jj) ==
  LET next == next_upage(jj.head)
      onto_tail == /\ align_eq(next, jj.tail_sync, ppb)
                   /\ ~align_eq(next, jj.head, ppb)
      scan[i \in 0 .. MAX_RETRIES] ==
        IF i = 0 THEN [err |-> "TOO_BAD", j |-> [jj EXCEPT !.dirty = TRUE]]
        ELSE LET s == scan[i - 1]
             IN  IF s.err # "TOO_BAD" THEN s
                 ELSE IF block_of(s.j.head) \notin bad
                   THEN [s EXCEPT !.err = "OK"]
                 ELSE IF can_skip(s.j)
                   THEN [s EXCEPT !.j = skip_block(counted(s.j))]
                 ELSE [err |-> "JOURNAL_FULL", j |-> counted(s.j)]
  IN  IF onto_tail THEN [err |-> "JOURNAL_FULL", j |-> jj]
      ELSE IF is_aligned(jj.head, ppb) THEN scan[MAX_RETRIES]
      ELSE [err |-> "OK", j |-> [jj EXCEPT !.dirty = TRUE]]

\* The pages once the head is ready: entering a block erases it.
erased(head) ==
  IF is_aligned(head, ppb)
    THEN [p \in UPages |-> IF align_eq(p, head, ppb) THEN Filler ELSE entry[p]]
    ELSE entry

Outcome(err, jj) ==
  [err |-> err, j |-> jj, entry |-> entry, saved |-> saved, bad |-> bad,
   fails |-> fails]

\* The tail that a checkpoint releases, unless there is a recovery to finish.
released(jj) == IF jj.recovery THEN jj ELSE [jj EXCEPT !.tail_sync = jj.tail]

\* push_meta: page e is at the head; its group may be complete, and with it a
\* recovery.  The metadata dumped at the start of the recovery is then lost.
push_meta(jj, e, cookie) ==
  LET pages == [erased(jj.head) EXCEPT ![jj.head] = e]
      clean == move_head([jj EXCEPT !.dirty = FALSE, !.root = jj.head],
                         next_upage(jj.head))
      lost(p) == /\ jj.enum_done /\ jj.recover_meta # PAGE_NONE
                 /\ align_eq(p, jj.recover_root, ppc)
  IN  IF ~is_aligned(jj.head + 2, ppc)
        THEN [Outcome("OK", [jj EXCEPT !.root = jj.head, !.head = @ + 1])
                EXCEPT !.entry = pages]
        ELSE [err |-> "OK",
              j |-> released(IF jj.enum_done THEN clear_recovery(clean)
                             ELSE clean),
              entry |-> [p \in UPages |-> IF lost(p) THEN without_meta(pages[p])
                                     ELSE pages[p]],
              saved |-> [root |-> jj.head, tail |-> jj.tail, count |-> cookie,
                         epoch |-> jj.epoch, bb_current |-> jj.bb_current,
                         bb_last |-> jj.bb_last],
              bad |-> bad \cup
                      (IF jj.enum_done THEN {block_of(jj.recover_root)} ELSE {})
                      \cup
                      (IF jj.enum_done /\ jj.bad_meta
                       THEN {block_of(jj.recover_meta)} ELSE {}),
              fails |-> fails]

\* Another failure during a recovery starts it again.
restart_recovery(jj, old_head) ==
  LET holds_dump == /\ jj.recover_meta # PAGE_NONE
                    /\ align_eq(jj.recover_meta, old_head, ppb)
  IN  [Outcome("RECOVER",
               [jj EXCEPT !.enum_done = FALSE,
                          !.bad_meta = @ \/ holds_dump,
                          !.recover_next = align_down(jj.recover_root, ppb),
                          !.root = jj.recover_root])
         EXCEPT !.bad = IF holds_dump THEN @ ELSE @ \cup {block_of(old_head)}]

\* dump_meta: the metadata of the incomplete group goes to the next block.
dump_meta(jj) ==
  LET ready == prepare_head(jj)
      dumped == [move_head(ready.j, next_upage(ready.j.head)) EXCEPT
                   !.recover_meta = ready.j.head, !.recovery = TRUE]
  IN  IF ready.err # "OK" THEN Outcome(ready.err, ready.j)
      ELSE [Outcome("RECOVER", dumped) EXCEPT !.entry = erased(ready.j.head)]

\* recover_from, when erasing or programming at the head of jj has failed.
\* "RETRY" makes the loop of dhara_journal_enqueue or _copy try again.
recover_from(jj) ==
  LET skipped == skip_block(counted(jj))
      start == [skipped EXCEPT !.recover_root = jj.root,
                               !.recover_next = align_down(jj.root, ppb)]
      marked == [Outcome("RETRY", skipped) EXCEPT
                   !.bad = @ \cup {block_of(jj.head)}]
  IN  IF ~can_skip(jj) THEN Outcome("JOURNAL_FULL", counted(jj))
      ELSE IF jj.recovery THEN restart_recovery(skipped, jj.head)
      ELSE IF is_aligned(jj.head, ppb) THEN marked
      ELSE IF is_aligned(jj.head, ppc)
        THEN Outcome("RECOVER", [start EXCEPT !.recovery = TRUE])
      ELSE dump_meta(start)

\* A program can fail here, see above.
can_fail(jj) ==
  /\ fails < MaxFails
  /\ \/ is_aligned(jj.head, ppb)
     \/ jj.recovery
     \/ /\ jj.root # PAGE_NONE
        /\ is_aligned(jj.head, ppc)
     \/ /\ jj.root # PAGE_NONE
        /\ align_eq(jj.root, jj.head, ppc)
        /\ can_skip(jj) => recover_from(jj).err = "RECOVER"

\* The outcomes of one attempt of dhara_journal_enqueue or dhara_journal_copy
\* to append page e, with the sector count in the cookie.
append(jj, e, cookie) ==
  LET ready == prepare_head(jj)
      failed == [recover_from(ready.j) EXCEPT !.fails = fails + 1]
  IN  IF ready.err # "OK" THEN {Outcome(ready.err, ready.j)}
      ELSE {push_meta(ready.j, e, cookie)} \cup
           (IF can_fail(ready.j) THEN {failed} ELSE {})

-----------------------------------------------------------------------------
(* Power failure                                                           *)

\* find_head: the head does not chase over the tail.
chased(jj) ==
  IF align_eq(jj.head, jj.tail, ppb)
    THEN [jj EXCEPT !.tail = first_page(next_block(block_of(@)))]
    ELSE jj

\* dhara_journal_resume finds the last checkpoint, and the head behind the
\* pages programmed since, in the block of the checkpoint, or at the start of
\* the next block.  (A page enqueued without data counts as programmed.)
resumed ==
  LET after == align_down(saved.root, ppc) + ppc
      found == [EmptyJournal EXCEPT
                  !.root = saved.root, !.tail = saved.tail,
                  !.epoch = saved.epoch, !.bb_current = saved.bb_current,
                  !.bb_last = saved.bb_last]
      jj == IF is_aligned(after, ppb)
              THEN chased(move_head(found, after % chip_size))
              ELSE [found EXCEPT !.head = IF align_eq(j.head, after, ppb)
                                          THEN j.head ELSE after]
  IN  IF saved = NoCheckpoint THEN EmptyJournal
      ELSE [jj EXCEPT !.tail_sync = jj.tail]

\* The metadata of an incomplete group was in RAM only.
Restarted ==
  LET complete(p) ==
        /\ saved # NoCheckpoint
        /\ p \notin queue(next_upage(saved.root), j.head)
  IN  /\ ~j.recovery
      /\ j' = resumed
      /\ entry' = [p \in UPages |-> IF complete(p) THEN entry[p]
                                    ELSE without_meta(entry[p])]
      /\ UNCHANGED <<saved, bad, fails>>

=============================================================================
