----------------------------- MODULE JournalOps -----------------------------
(***************************************************************************)
(* struct dhara_journal as a value, and the functions of journal.c that    *)
(* only move its pointers and flags: they look neither at the flash nor at *)
(* the page buffer.  Journal uses them for the journal with all its NAND   *)
(* commands, and Map for the journal as its client sees it.                *)
(***************************************************************************)
EXTENDS Geometry

CONSTANT EPOCHS     \* values of the 8-bit epoch counter (256 in the code)

ASSUME EpochAssumption == EPOCHS \in Nat \ {0}

\* The flags are Booleans of their own.
EmptyJournal ==
  [epoch |-> 0, bb_last |-> num_blocks \div 64, bb_current |-> 0,
   head |-> 0, tail |-> 0, tail_sync |-> 0, root |-> PAGE_NONE,
   recover_next |-> PAGE_NONE, recover_root |-> PAGE_NONE,
   recover_meta |-> PAGE_NONE,
   dirty |-> FALSE, bad_meta |-> FALSE, recovery |-> FALSE,
   enum_done |-> FALSE]

\* Mutant: the end of the enumeration is remembered.
clear_recovery_keeps_enum_done(jj) ==
  [jj EXCEPT !.recover_next = PAGE_NONE, !.recover_root = PAGE_NONE,
             !.recover_meta = PAGE_NONE, !.bad_meta = FALSE, !.recovery = FALSE]

clear_recovery(jj) ==
  [jj EXCEPT !.recover_next = PAGE_NONE, !.recover_root = PAGE_NONE,
             !.recover_meta = PAGE_NONE,
             !.bad_meta = FALSE, !.recovery = FALSE, !.enum_done = FALSE]

roll_stats(jj) ==
  [jj EXCEPT !.bb_last = jj.bb_current, !.bb_current = 0,
             !.epoch = (@ + 1) % EPOCHS]

\* Mutant: passing the end of the chip does not start a new epoch.
move_head_same_epoch(jj, p) == [jj EXCEPT !.head = p]

\* Move the head; passing the end of the chip rolls the statistics.
move_head(jj, p) ==
  LET moved == [jj EXCEPT !.head = p]
  IN  IF p = 0 THEN roll_stats(moved) ELSE moved

\* Mutants: the guard looks at the tail, the statistics are not rolled, the
\* head keeps its offset in the block.
can_skip_unsynced(jj) == next_block(block_of(jj.head)) # block_of(jj.tail)
skip_block_same_epoch(jj) ==
  [jj EXCEPT !.head = first_page(next_block(block_of(@)))]
skip_block_unaligned(jj) == move_head(jj, (jj.head + ppb) % chip_size)

\* skip_block refuses to roll onto the block of the last-synced tail.
can_skip(jj) == next_block(block_of(jj.head)) # block_of(jj.tail_sync)
skip_block(jj) == move_head(jj, first_page(next_block(block_of(jj.head))))

-----------------------------------------------------------------------------
(* The queue                                                               *)

\* The queue in ring order: the user pages from the tail up to the head.
ring_distance(a, b) == IF b >= a THEN b - a ELSE b + chip_size - a
queue(from, to) ==
  {p \in UPages : ring_distance(from, p) < ring_distance(from, to)}

\* Mutant: the wrap around the end of the chip is forgotten.
user_pages_unwrapped(tail, head) ==
  (head - tail) - (head \div ppc - tail \div ppc)

\* User pages from a tail to the head: raw pages less checkpoint pages, the
\* computation of dhara_journal_size, which uses tail_sync.
user_pages(tail, head) ==
  LET top == IF head < tail THEN head + chip_size ELSE head
  IN  (top - tail) - (top \div ppc - tail \div ppc)

\* Mutant: the root stays when it has been dequeued.
dequeue_keeps_root(jj) ==
  IF jj.head = jj.tail THEN jj
  ELSE [jj EXCEPT !.tail = next_upage(@),
                  !.tail_sync = IF jj.dirty \/ jj.recovery THEN @
                                ELSE next_upage(jj.tail)]

\* Mutant: the last-synced tail follows the tail at once.
dequeue_releases(jj) ==
  IF jj.head = jj.tail THEN jj
  ELSE [jj EXCEPT !.tail = next_upage(@), !.tail_sync = next_upage(jj.tail),
                  !.root = IF @ = jj.tail THEN PAGE_NONE ELSE @]

\* dhara_journal_dequeue.  (wrap() compares the distances of the tail and of
\* the root to the head; PAGE_NONE stays PAGE_NONE either way.)
dequeue(jj) ==
  LET tail == next_upage(jj.tail)
      moved == [jj EXCEPT
        !.tail = tail,
        !.tail_sync = IF jj.dirty \/ jj.recovery THEN @ ELSE tail,
        !.root = IF @ # PAGE_NONE
                    /\ ring_distance(@, jj.head) > ring_distance(tail, jj.head)
                 THEN PAGE_NONE ELSE @]
  IN  IF jj.head = jj.tail THEN jj ELSE moved

=============================================================================
