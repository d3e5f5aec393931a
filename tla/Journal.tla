------------------------------ MODULE Journal -------------------------------
(***************************************************************************)
(* The Dhara journal (dhara/journal.c): a persistent queue of user pages   *)
(* kept in a ring of eraseblocks, with a checkpoint page at the end of     *)
(* every group of ppc pages, assisted recovery from program failures, and  *)
(* a binary search that finds the last checkpoint again after a restart.   *)
(*                                                                         *)
(* An enqueue, copy or resume is several steps, one for each NAND command  *)
(* it issues or each iteration of a search, so that a power failure can    *)
(* fall between any two commands and in the middle of one.  Loops are the  *)
(* control points "scan" (prepare_head), "prog" and "cp" (push_meta), and  *)
(* the "r_" points of dhara_journal_resume.                                *)
(*                                                                         *)
(* The journal's client is the map layer: its calls are nondeterministic,  *)
(* but it keeps to the protocol of map.c (raw_gc, pad_queue, try_recover): *)
(* E_RECOVER and nothing else makes it start or go on with a recovery, and *)
(* any other error makes it give up the call it was making.                *)
(***************************************************************************)
EXTENDS Nand, FiniteSets

CONSTANTS
  Calls,       \* the calls the client makes, of "enqueue", "copy", "pad", ...
  Capacity,    \* the client adds no data to a queue of this length
  MaxBad,      \* bound: blocks marked bad by the factory
  MaxFails,    \* bound: erase and program commands that fail
  MaxCrashes,  \* bound: power failures
  MaxBB        \* bound: no new call once bb_current has reached this value

VARIABLES
  j,        \* struct dhara_journal, its flags as Booleans
  buf,      \* page_buf: the cookie and the buffered metadata slices
  pc,       \* where the running call is; "idle" between calls
  call,     \* arguments and loop counters of the running call
  client,   \* "recovering" while try_recover is running, else "normal"
  search,   \* locals of the binary searches of dhara_journal_resume
  fails,    \* failed NAND commands so far
  crashes   \* power failures so far

vars == <<page, marked, j, buf, pc, call, client, search, fails, crashes>>

-----------------------------------------------------------------------------
(* Journal state                                                           *)

UPagesOrNone == UPages \cup {PAGE_NONE}

\* The page numbers recovery can walk through: with recover_root = PAGE_NONE
\* the walk starts in the block of PAGE_NONE, outside the chip.
RecoverPages == UPagesOrNone \cup {align_down(PAGE_NONE, ppb)}

NoMeta == [s \in Slots |-> NO_META]

NoCall == [op |-> "none", src |-> PAGE_NONE, meta |-> NO_META,
           dequeue |-> FALSE, tries |-> 0, scans |-> 0,
           dumping |-> FALSE, dumps |-> 0]

NoSearch == [low |-> 0, high |-> 0, at |-> 0]

\* Mutants: dumped metadata is not looked for; the buffer is taken to hold the
\* group of the root.
meta_page_no_dump(p) == cp_page(p)
buffered_with_root(p) == align_eq(p, j.root, ppc)

\* dhara_journal_read_meta: where the slice of page p is read from, whether
\* the read succeeds, and what it returns.
meta_page(p) ==
  IF j.recover_meta # PAGE_NONE /\ align_eq(p, j.recover_root, ppc)
    THEN j.recover_meta
    ELSE cp_page(p)
buffered(p) == align_eq(p, j.head, ppc)
meta_readable(p) == buffered(p) \/ readable(meta_page(p))
read_meta(p) ==
  IF buffered(p) THEN buf.meta[p % ppc]
  ELSE IF page[meta_page(p)].kind \in {"cp", "dump"}
    THEN page[meta_page(p)].meta[p % ppc]
    ELSE NO_META

dhara_journal_size == user_pages(j.tail_sync, j.head)

-----------------------------------------------------------------------------
(* Returning from a call                                                   *)

(***************************************************************************)
(* The call returns err with the journal in state jj.  raw_gc's caller     *)
(* dequeues the page it has copied.  try_recover starts on E_RECOVER, goes *)
(* on until the journal has left recovery, stops at once on another error, *)
(* and after DHARA_MAX_RETRIES restarts gives up on E_RECOVER as well (the *)
(* count of restarts is abstracted to a choice).                           *)
(***************************************************************************)
Return(jj, err) ==
  /\ j' = IF err = "OK" /\ call.dequeue THEN dequeue(jj) ELSE jj
  /\ pc' = "idle"
  /\ call' = NoCall
  /\ \/ err = "RECOVER" /\ client' = "recovering"
     \/ err = "RECOVER" /\ client = "recovering" /\ client' = "normal"
     \/ /\ err = "OK"
        /\ client' = IF jj.recovery THEN client ELSE "normal"
     \/ err \notin {"OK", "RECOVER"} /\ client' = "normal"

-----------------------------------------------------------------------------
(* Preparing the head                                                      *)

\* Mutant: the guard takes the block of the head for that of the next page.
rolls_onto_tail_late(jj) ==
  align_eq(jj.head, jj.tail_sync, ppb) /\ jj.head < jj.tail_sync

\* We can't write if doing so would cause the head pointer to roll onto the
\* same block as the last-synced tail.
rolls_onto_tail(jj) ==
  LET next == next_upage(jj.head)
  IN  align_eq(next, jj.tail_sync, ppb) /\ ~align_eq(next, jj.head, ppb)

prepare_head(jj, c) ==
  \/ rolls_onto_tail(jj) /\ Return(jj, "JOURNAL_FULL")
  \/ /\ ~rolls_onto_tail(jj)
     /\ j' = [jj EXCEPT !.dirty = TRUE]
     /\ pc' = IF is_aligned(jj.head, ppb) THEN "scan" ELSE "prog"
     /\ call' = [c EXCEPT !.scans = 0]
     /\ UNCHANGED client

(***************************************************************************)
(* A program or erase on the head's block has failed: E_BAD_BLOCK.  While  *)
(* dumping, the loop of dump_meta marks the block and tries the next one;  *)
(* otherwise this is recover_from.  Called with page' already set.         *)
(***************************************************************************)
counted == [j EXCEPT !.bb_current = @ + 1]

dump_failed ==
  /\ marked' \in mark_bad({block_of(j.head)})
  /\ \/ ~can_skip(counted) /\ Return(counted, "JOURNAL_FULL")
     \/ /\ can_skip(counted)
        /\ IF call.dumps + 1 >= MAX_RETRIES
             THEN Return(skip_block(counted), "TOO_BAD")
             ELSE prepare_head(skip_block(counted),
                               [call EXCEPT !.dumps = @ + 1])

\* Mutant: recovery begins with the second page of the block.
recover_start_second(root) == align_down(root, ppb) + 1

\* Where the enumeration of a recovery starts: the first page of the block.
recover_start(root) == align_down(root, ppb)

\* The head's block fails while an earlier one is being recovered: mark it,
\* unless it holds the dumped metadata, and enumerate again from the start.
restart_recovery(jj, old_head) ==
  LET holds_meta == /\ jj.recover_meta # PAGE_NONE
                    /\ align_eq(jj.recover_meta, old_head, ppb)
  IN  /\ IF holds_meta THEN UNCHANGED marked
         ELSE marked' \in mark_bad({block_of(old_head)})
      /\ Return([jj EXCEPT
                   !.bad_meta = @ \/ holds_meta,
                   !.enum_done = FALSE,
                   !.recover_next = recover_start(jj.recover_root),
                   !.root = jj.recover_root],
                "RECOVER")

recover_from ==
  LET skipped == skip_block(counted)
      start == [skipped EXCEPT !.recover_root = j.root,
                               !.recover_next = recover_start(j.root)]
  IN  \/ /\ ~can_skip(counted)
         /\ Return(counted, "JOURNAL_FULL")
         /\ UNCHANGED marked
      \/ /\ can_skip(counted)
         /\ j.recovery
         /\ restart_recovery(skipped, j.head)
      \/ /\ can_skip(counted)
         /\ ~j.recovery
         /\ is_aligned(j.head, ppb)
         /\ marked' \in mark_bad({block_of(j.head)})
         /\ IF call.tries + 1 >= MAX_RETRIES
              THEN Return(skipped, "TOO_BAD")
              ELSE prepare_head(skipped, [call EXCEPT !.tries = @ + 1])
      \/ /\ can_skip(counted)
         /\ ~j.recovery
         /\ ~is_aligned(j.head, ppb)
         /\ UNCHANGED marked
         /\ IF is_aligned(j.head, ppc)
              THEN Return([start EXCEPT !.recovery = TRUE], "RECOVER")
              ELSE prepare_head(start, [call EXCEPT !.dumping = TRUE])

BadBlock ==
  /\ fails < MaxFails
  /\ fails' = fails + 1
  /\ IF call.dumping THEN dump_failed ELSE recover_from
  /\ UNCHANGED <<buf, search, crashes>>

-----------------------------------------------------------------------------
(* The steps of an enqueue, copy or dump                                   *)

\* prepare_head finds the head on a block that is marked bad.
SkipBad ==
  /\ pc = "scan"
  /\ dhara_nand_is_bad(block_of(j.head))
  /\ \/ ~can_skip(counted) /\ Return(counted, "JOURNAL_FULL")
     \/ /\ can_skip(counted)
        /\ call.scans + 1 >= MAX_RETRIES
        /\ Return(skip_block(counted), "TOO_BAD")
     \/ /\ can_skip(counted)
        /\ call.scans + 1 < MAX_RETRIES
        /\ j' = skip_block(counted)
        /\ call' = [call EXCEPT !.scans = @ + 1]
        /\ UNCHANGED <<pc, client>>
  /\ UNCHANGED <<page, marked, buf, search, fails, crashes>>

erasing == pc = "scan" /\ ~dhara_nand_is_bad(block_of(j.head))

EraseOk ==
  /\ erasing
  /\ page' = erase_done(block_of(j.head))
  /\ pc' = "prog"
  /\ call' = [call EXCEPT !.scans = 0]
  /\ UNCHANGED <<marked, j, buf, client, search, fails, crashes>>

EraseFails ==
  /\ erasing
  /\ page' = erase_torn(block_of(j.head))
  /\ BadBlock

\* What the running call programs at the head: an enqueue without data
\* programs nothing, a copy needs a readable source.
programs == call.dumping \/ call.op \in {"enqueue", "copy"}
source_readable == call.op # "copy" \/ call.dumping \/ readable(call.src)
contents ==
  IF call.dumping THEN {[kind |-> "dump", meta |-> buf.meta]}
  ELSE IF call.op = "copy" THEN {page[call.src]}
  ELSE UserPages

ProgramOk ==
  /\ pc = "prog"
  /\ source_readable
  /\ IF programs THEN \E c \in contents : page' \in programmed(j.head, c)
     ELSE UNCHANGED page

\* The user page is on flash: push_meta buffers its metadata and, unless the
\* group is now full, returns.
PushMeta ==
  /\ ~call.dumping
  /\ ProgramOk
  /\ buf' = [buf EXCEPT !.meta[j.head % ppc] = call.meta]
  /\ IF is_aligned(j.head + 2, ppc)
       THEN pc' = "cp" /\ UNCHANGED <<j, call, client>>
       ELSE Return([j EXCEPT !.root = j.head, !.head = j.head + 1], "OK")
  /\ UNCHANGED <<marked, search, fails, crashes>>

\* The end of dump_meta, and of the recover_from that called it.
DumpMeta ==
  /\ call.dumping
  /\ ProgramOk
  /\ buf' = [buf EXCEPT !.meta = NoMeta]
  /\ Return([move_head(j, next_upage(j.head)) EXCEPT
               !.recover_meta = j.head, !.recovery = TRUE], "RECOVER")
  /\ UNCHANGED <<marked, search, fails, crashes>>

ProgramFails ==
  /\ pc = "prog"
  /\ programs /\ source_readable
  /\ page' = program_torn(j.head)
  /\ BadBlock

\* dhara_nand_copy: E_ECC, which recover_from passes on.
CopyUnreadable ==
  /\ pc = "prog"
  /\ ~source_readable
  /\ Return(j, "ECC")
  /\ UNCHANGED <<page, marked, buf, search, fails, crashes>>

\* Mutant: the checkpoint records the tail of the one before.
checkpoint_synced_tail ==
  [kind |-> "cp", epoch |-> j.epoch, tail |-> j.tail_sync,
   bb_current |-> j.bb_current, bb_last |-> j.bb_last,
   cookie |-> buf.cookie, meta |-> buf.meta]

\* The header, cookie and metadata push_meta programs on the checkpoint page.
checkpoint ==
  [kind |-> "cp", epoch |-> j.epoch, tail |-> j.tail,
   bb_current |-> j.bb_current, bb_last |-> j.bb_last,
   cookie |-> buf.cookie, meta |-> buf.meta]

\* The group is complete: the rest of push_meta, finish_recovery included.
Checkpoint ==
  LET clean == move_head([j EXCEPT !.dirty = FALSE, !.root = j.head],
                         next_upage(j.head))
      after == IF j.enum_done THEN clear_recovery(clean) ELSE clean
  IN  /\ pc = "cp"
      /\ page' \in programmed(j.head + 1, checkpoint)
      /\ IF j.enum_done
           THEN marked' \in mark_bad({block_of(j.recover_root)} \cup
                  (IF j.bad_meta THEN {block_of(j.recover_meta)} ELSE {}))
           ELSE UNCHANGED marked
      /\ Return([after EXCEPT !.tail_sync =
                   IF after.recovery THEN @ ELSE after.tail], "OK")
      /\ UNCHANGED <<buf, search, fails, crashes>>

CheckpointFails ==
  /\ pc = "cp"
  /\ page' = program_torn(j.head + 1)
  /\ BadBlock

-----------------------------------------------------------------------------
(* Calls of the client                                                     *)

\* Every writing call of map.c first stores the sector count in the cookie.
Begin(jj, op, src, meta, deq) ==
  /\ client = "recovering" \/ j.bb_current < MaxBB
  /\ \E c \in Cookies : buf' = [buf EXCEPT !.cookie = c]
  /\ prepare_head(jj, [NoCall EXCEPT !.op = op, !.src = src, !.meta = meta,
                                     !.dequeue = deq])
  /\ UNCHANGED <<page, marked, search, fails, crashes>>

Quiet == UNCHANGED <<page, marked, buf, pc, call, search, fails, crashes>>

\* Bound: the client adds no data to a queue of Capacity pages.  (The map's own
\* limit, in auto_gc, is a number of garbage collection steps per write.)
has_room == user_pages(j.tail, j.head) < Capacity

\* dhara_map_write, and the copies of dhara_map_copy_page and try_delete.
Enqueue ==
  /\ pc = "idle" /\ client = "normal" /\ "enqueue" \in Calls /\ has_room
  /\ \E m \in Meta : Begin(j, "enqueue", PAGE_NONE, m, FALSE)

Copy ==
  /\ pc = "idle" /\ client = "normal" /\ "copy" \in Calls /\ has_room
  /\ \E p \in queue(j.tail, j.head), m \in Meta : Begin(j, "copy", p, m, FALSE)

\* pad_queue: repeat the root, or enqueue filler when there is none.  jj is
\* the journal after the query that precedes the call.
pad_queue(jj) ==
  \/ j.root = PAGE_NONE /\ Begin(jj, "pad", PAGE_NONE, NO_META, FALSE)
  \/ /\ j.root # PAGE_NONE /\ meta_readable(j.root)
     /\ Begin(jj, "copy", j.root, read_meta(j.root), FALSE)
  \/ /\ j.root # PAGE_NONE /\ ~meta_readable(j.root)
     /\ \E c \in Cookies : buf' = [buf EXCEPT !.cookie = c]
     /\ j' = jj /\ client' = "normal"
     /\ UNCHANGED <<page, marked, pc, call, search, fails, crashes>>

\* dhara_map_sync goes on until the journal is clean, with an empty queue too.
Pad ==
  /\ pc = "idle" /\ client = "normal" /\ "pad" \in Calls
  /\ j.dirty /\ j.head = j.tail
  /\ pad_queue(j)

\* dhara_journal_peek moves a block-aligned tail past bad blocks; it looks at
\* no more than DHARA_MAX_RETRIES of them.
at_tail(b) ==
  LET looked(i) == (block_of(j.tail) + i) % num_blocks
      stops(c) == c = block_of(j.head) \/ ~dhara_nand_is_bad(c)
  IN  \E n \in 0 .. (MAX_RETRIES - 1) :
        /\ b = looked(n)
        /\ stops(b)
        /\ \A i \in 0 .. (n - 1) : ~stops(looked(i))
peeked(jj) ==
  IF j.head = j.tail \/ ~is_aligned(j.tail, ppb)
    THEN jj = j
    ELSE \/ /\ \A b \in Blocks : ~at_tail(b)
            /\ jj = j
         \/ \E b \in Blocks :
              /\ at_tail(b)
              /\ jj = [j EXCEPT !.tail = first_page(b),
                         !.root = IF first_page(b) = j.head
                                  THEN PAGE_NONE ELSE @]

\* raw_gc on page p reports an error before it writes anything: it cannot read
\* the metadata of p or, tracing the path of the sector p once held, that of
\* another page of the queue.
raw_gc_fails(p) ==
  \/ ~meta_readable(p)
  \/ /\ meta_readable(p) /\ read_meta(p) # NO_META
     /\ \E q \in queue(j.tail, j.head) : ~meta_readable(q)

\* dhara_map_gc and the loop of dhara_map_sync: peek, let raw_gc drop the
\* page at the tail or copy it to the head, and dequeue it.
Gc ==
  /\ pc = "idle" /\ client = "normal"
  /\ "gc" \in Calls \/ ("auto_gc" \in Calls /\ ~has_room)
  /\ j.head # j.tail
  /\ \E h \in UPages, r \in {j.root, PAGE_NONE} :
       LET jj == [j EXCEPT !.tail = h, !.root = r]
       IN  /\ peeked(jj)
           /\ \/ raw_gc_fails(h) /\ j' = jj /\ Quiet /\ UNCHANGED client
              \/ /\ meta_readable(h)
                 /\ j' = dequeue(jj) /\ Quiet /\ UNCHANGED client
              \/ /\ meta_readable(h) /\ read_meta(h) # NO_META
                 /\ r # PAGE_NONE /\ "copy" \in Calls
                 /\ \E m \in Meta : Begin(jj, "copy", h, m, TRUE)

\* dhara_journal_clear
Clear ==
  /\ pc = "idle" /\ client = "normal" /\ "clear" \in Calls
  /\ j' = [j EXCEPT !.tail = j.head, !.root = PAGE_NONE, !.dirty = TRUE]
  /\ buf' = [buf EXCEPT !.meta = NoMeta]
  /\ UNCHANGED <<page, marked, pc, call, client, search, fails, crashes>>

\* Mutants: the last page is never handed out; the enumeration never ends.
next_recoverable_short ==
  IF j.recover_next = j.recover_root \/ next_upage(j.recover_next) = j.recover_root
    THEN [j EXCEPT !.enum_done = TRUE, !.recover_next = j.recover_root]
    ELSE [j EXCEPT !.recover_next = next_upage(@)]
next_recoverable_endless == [j EXCEPT !.recover_next = next_upage(@)]

\* dhara_journal_next_recoverable
next_recoverable ==
  IF j.recover_next = j.recover_root
    THEN [j EXCEPT !.enum_done = TRUE]
    ELSE [j EXCEPT !.recover_next = next_upage(@)]

(***************************************************************************)
(* One iteration of try_recover.  raw_gc skips a page that holds filler or *)
(* is no longer current.  Reading the metadata of a page outside the chip  *)
(* fails without setting the error code: try_recover then acts on an       *)
(* uninitialized value, which may or may not be E_RECOVER.                 *)
(***************************************************************************)
Recover ==
  LET p == j.recover_next
      jj == next_recoverable
  IN  /\ pc = "idle" /\ client = "recovering"
      /\ \/ j.enum_done /\ pad_queue(j)
         \/ /\ ~j.enum_done /\ meta_readable(p)
            /\ j' = jj /\ Quiet /\ UNCHANGED client
         \/ /\ ~j.enum_done /\ meta_readable(p) /\ read_meta(p) # NO_META
            /\ j.root # PAGE_NONE
            /\ \E m \in Meta : Begin(jj, "copy", p, m, FALSE)
         \/ /\ ~j.enum_done /\ raw_gc_fails(p)
            /\ j' = jj /\ Quiet
            /\ client' \in IF p \in Pages THEN {"normal"}
                           ELSE {"normal", "recovering"}

-----------------------------------------------------------------------------
(* Power failure and restart                                               *)

\* RAM is lost; a command that is under way may leave its page or block torn.
torn_pages ==
  CASE erasing -> {erase_torn(block_of(j.head))}
    [] pc = "prog" /\ programs /\ source_readable -> {program_torn(j.head)}
    [] pc = "cp" -> {program_torn(j.head + 1)}
    [] OTHER -> {}

Crash ==
  /\ crashes < MaxCrashes
  /\ crashes' = crashes + 1
  /\ page' \in {page} \cup torn_pages
  /\ j' = EmptyJournal
  /\ \E c \in Cookies : buf' = [cookie |-> c, meta |-> NoMeta]
  /\ pc' = "resume"
  /\ call' = NoCall
  /\ client' = "normal"
  /\ search' = NoSearch
  /\ UNCHANGED <<marked, fails>>

\* Does the block hold a checkpoint in its first checkpoint location?
first_cp(b) == first_page(b) + (ppc - 1)
has_checkpoint(b) ==
  /\ ~dhara_nand_is_bad(b)
  /\ readable(first_cp(b))
  /\ page[first_cp(b)].kind = "cp"

\* find_checkblock(blk) succeeds with where = b.
find_checkblock(blk, b) ==
  /\ b \in blk .. (blk + MAX_RETRIES - 1) /\ b < num_blocks
  /\ has_checkpoint(b)
  /\ \A c \in blk .. (b - 1) : ~has_checkpoint(c)

\* Mutant: the epoch of the checkpoint is not compared.
of_any_epoch(blk, b) == find_checkblock(blk, b)

\* find_checkblock(blk) finds b, and its checkpoint is of the journal's epoch.
of_epoch(blk, b) == find_checkblock(blk, b) /\ page[first_cp(b)].epoch = j.epoch

\* Resuming has failed: the journal is empty and its client goes on with it.
ResumeFailed ==
  /\ j' = EmptyJournal
  /\ buf' = [buf EXCEPT !.meta = NoMeta]
  /\ pc' = "idle"
  /\ search' = NoSearch

FindFirst ==
  /\ pc = "resume"
  /\ \/ /\ \A b \in Blocks : ~find_checkblock(0, b)
        /\ ResumeFailed
     \/ \E b \in Blocks :
          /\ find_checkblock(0, b)
          /\ j' = [j EXCEPT !.epoch = page[first_cp(b)].epoch]
          /\ search' = [low |-> b, high |-> num_blocks - 1, at |-> b]
          /\ pc' = "r_last"
          /\ UNCHANGED buf
  /\ UNCHANGED <<page, marked, call, client, fails, crashes>>

\* Mutant: the lower bound of the search does not move.
search_above_stuck(b) == search

\* find_last_checkblock goes on with the blocks from b.
search_above(b) == [search EXCEPT !.low = b]

\* One iteration of find_last_checkblock; search.at is its first.
FindLast ==
  LET mid == (search.low + search.high) \div 2
      found(b) == /\ pc' = "r_group"
                  /\ search' = [low |-> 0, high |-> cpb - 1, at |-> b]
      narrow(s) == search' = s /\ UNCHANGED pc
  IN  /\ pc = "r_last"
      /\ \/ search.low > search.high /\ found(search.at)
         \/ /\ search.low <= search.high
            /\ \A b \in Blocks : ~of_epoch(mid, b)
            /\ IF mid = 0 THEN found(search.at)
               ELSE narrow([search EXCEPT !.high = mid - 1])
         \/ /\ search.low <= search.high
            /\ \E b \in Blocks :
                 /\ of_epoch(mid, b)
                 /\ \/ /\ \A n \in Blocks : ~of_epoch(b + 1, n)
                       /\ found(b)
                    \/ \E n \in Blocks : of_epoch(b + 1, n)
                                         /\ narrow(search_above(n))
      /\ UNCHANGED <<page, marked, j, buf, call, client, fails, crashes>>

\* No page of the checkpoint group that starts at p has been programmed.
cp_free(p) == \A i \in 0 .. (ppc - 1) : dhara_nand_is_free(p + i)

\* The checkpoint page of group i of block b can serve as the root.
good_cp(b, i) ==
  LET p == first_page(b) + (i + 1) * ppc - 1
  IN  readable(p) /\ page[p].kind = "cp" /\ page[p].epoch = j.epoch

\* find_root in group g of block b, and the settings of that checkpoint;
\* find_head starts from the group itself.
restore(b, g) ==
  \/ /\ \A i \in 0 .. g : ~good_cp(b, i)
     /\ ResumeFailed
  \/ \E i \in 0 .. g :
       LET p == first_page(b) + (i + 1) * ppc - 1
       IN  /\ good_cp(b, i)
           /\ \A k \in (i + 1) .. g : ~good_cp(b, k)
           /\ j' = [j EXCEPT !.root = p - 1, !.tail = page[p].tail,
                             !.bb_current = page[p].bb_current,
                             !.bb_last = page[p].bb_last,
                             !.head = next_upage(first_page(b) + g * ppc)]
           /\ buf' = [cookie |-> page[p].cookie, meta |-> NoMeta]
           /\ pc' = "r_head"
           /\ search' = NoSearch

\* One iteration of find_last_group in block search.at; then find_root.
FindGroup ==
  LET mid == (search.low + search.high) \div 2
      p == first_page(search.at) + mid * ppc
      narrow(s) == search' = s /\ UNCHANGED <<j, buf, pc>>
  IN  /\ pc = "r_group"
      /\ \/ search.low > search.high /\ restore(search.at, 0)
         \/ /\ search.low <= search.high /\ cp_free(p)
            /\ narrow([search EXCEPT !.high = mid - 1])
         \/ /\ search.low <= search.high /\ ~cp_free(p)
            /\ IF mid + 1 >= cpb \/ cp_free(p + ppc)
                 THEN restore(search.at, mid)
                 ELSE narrow([search EXCEPT !.low = mid + 1])
      /\ UNCHANGED <<page, marked, call, client, fails, crashes>>

\* n free pages trail the checkpoint group that starts at first.
trailing_free(first, n) ==
  /\ \A i \in 0 .. (n - 1) : dhara_nand_is_free(first + ppc - i - 1)
  /\ n = ppc \/ ~dhara_nand_is_free(first + ppc - n - 1)

\* The end of dhara_journal_resume.
Resumed(jj) ==
  /\ j' = clear_recovery([jj EXCEPT !.dirty = FALSE, !.tail_sync = jj.tail])
  /\ pc' = "idle"

\* One iteration of find_head, which stops at the first free user page of the
\* block or at the next block, and doesn't chase over the tail.
FindHead ==
  LET first == align_down(j.head, ppc)
      after == IF first + ppc >= chip_size THEN 0 ELSE first + ppc
      moved == move_head(j, after)
      chased == [moved EXCEPT !.tail = first_page(next_block(block_of(@)))]
  IN  /\ pc = "r_head"
      /\ \E n \in 0 .. ppc :
           /\ trailing_free(first, n)
           /\ \/ /\ n > 1
                 /\ Resumed([j EXCEPT !.head = first + ppc - n])
              \/ /\ n <= 1 /\ is_aligned(after, ppb)
                 /\ Resumed(IF align_eq(after, moved.tail, ppb)
                            THEN chased ELSE moved)
              \/ /\ n <= 1 /\ ~is_aligned(after, ppb)
                 /\ j' = moved /\ UNCHANGED pc
      /\ UNCHANGED <<page, marked, buf, call, client, search, fails, crashes>>

-----------------------------------------------------------------------------
(* Specification                                                           *)

\* A chip as it leaves the factory, and a journal about to be resumed.
Init ==
  /\ page = [p \in Pages |-> Erased]
  /\ marked \in {s \in SUBSET Blocks : Cardinality(s) <= MaxBad}
  /\ j = EmptyJournal
  /\ buf \in [cookie : Cookies, meta : {NoMeta}]
  /\ pc = "resume"
  /\ call = NoCall
  /\ client = "normal"
  /\ search = NoSearch
  /\ fails = 0
  /\ crashes = 0

\* The steps of a call that has begun, and of a restart.
CallStep ==
  \/ SkipBad \/ EraseOk \/ EraseFails
  \/ PushMeta \/ DumpMeta \/ ProgramFails \/ CopyUnreadable
  \/ Checkpoint \/ CheckpointFails
ResumeStep == FindFirst \/ FindLast \/ FindGroup \/ FindHead

\* The calls of the client.
ClientStep == Enqueue \/ Copy \/ Pad \/ Gc \/ Clear

Next == CallStep \/ ResumeStep \/ ClientStep \/ Recover \/ Crash

Spec == Init /\ [][Next]_vars

\* A call that has begun runs on, a restart runs on, and the map goes on with
\* the recovery it has started: nothing in them waits for anybody else.  The
\* client need not call at all.
Fairness == WF_vars(CallStep) /\ WF_vars(ResumeStep) /\ WF_vars(Recover)

-----------------------------------------------------------------------------
(* Types and properties of the journal itself                              *)

Journals ==
  [epoch : 0 .. (EPOCHS - 1), bb_last : Nat, bb_current : Nat,
   head : UPages, tail : UPages, tail_sync : UPages, root : UPagesOrNone,
   recover_next : RecoverPages, recover_root : UPagesOrNone,
   recover_meta : UPagesOrNone,
   dirty : BOOLEAN, bad_meta : BOOLEAN, recovery : BOOLEAN,
   enum_done : BOOLEAN]

CallRecords ==
  [op : {"none", "enqueue", "copy", "pad"}, src : RecoverPages,
   meta : Meta \cup {NO_META}, dequeue : BOOLEAN, tries : Nat, scans : Nat,
   dumping : BOOLEAN, dumps : Nat]

\* The control points of dhara_journal_resume.
Resuming == {"resume", "r_last", "r_group", "r_head"}

\* Head, tail and root are user pages of the chip, whatever is interrupted;
\* the searches of a restart stay inside the chip.
TypeOK ==
  /\ page \in [Pages -> Contents]
  /\ marked \subseteq Blocks
  /\ j \in Journals
  /\ buf \in [cookie : Cookies, meta : Slices]
  /\ pc \in {"idle", "scan", "prog", "cp"} \cup Resuming
  /\ call \in CallRecords
  /\ client \in {"normal", "recovering"}
  /\ search \in [low : Nat, high : Int, at : Blocks]
  /\ pc = "r_group" => search.high < cpb
  /\ fails \in Nat /\ crashes \in Nat

\* The recovery fields of the journal agree with its flags: a recovery has a
\* next page to hand out; the enumeration is done only when it has reached
\* the root, which is then a page of the chip, so that finish_recovery marks a
\* real block; F_BAD_META is only set while there is a dumped page, and there
\* is one only in recovery.
RecoveryFields(jj) ==
  /\ jj.recovery => jj.recover_next # PAGE_NONE
  /\ jj.enum_done => jj.recovery /\ jj.recover_next = jj.recover_root
  /\ jj.bad_meta => jj.recover_meta # PAGE_NONE
  /\ jj.recover_meta # PAGE_NONE => jj.recovery

\* The recovery state agrees with the control state: the client recovers only
\* a journal in recovery, and none is left behind by a restart; metadata is
\* dumped before the recovery begins and after its start is known; and the
\* checkpoint of a group is programmed right behind its last user page.
RecoveryState ==
  /\ RecoveryFields(j)
  /\ client = "recovering" => j.recovery
  /\ pc \in Resuming => client = "normal"
  /\ call.dumping => /\ ~j.recovery /\ j.recover_next # PAGE_NONE
                     /\ pc \in {"scan", "prog"}
  /\ pc = "cp" => is_aligned(j.head + 2, ppc)

\* Every call returns, and every restart ends, whatever fails on the way:
\* the retry loops and the binary searches terminate.
CallsReturn == (pc # "idle") ~> (pc = "idle")

\* try_recover ends: the journal leaves recovery or the client gives up.  This
\* is claimed of a recovery that has a root; see RecoverableInChip for others.
RecoveryEnds ==
  (client = "recovering" /\ j.recover_root # PAGE_NONE) ~> (client = "normal")

\* dhara_journal_size is the number of user pages from the last-synced tail
\* to the head, also across the end of the chip.
SizeCounts == dhara_journal_size = Cardinality(queue(j.tail_sync, j.head))

=============================================================================
