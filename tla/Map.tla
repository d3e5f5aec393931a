-------------------------------- MODULE Map ---------------------------------
(***************************************************************************)
(* The Dhara map (dhara/map.c): a dictionary from sectors to pages, kept   *)
(* in the journal as a radix tree.  Every user page is the root of a tree  *)
(* when it is written: its metadata names its sector and, for each bit of  *)
(* the sector number, the page (alt-pointer) that is the newest among the  *)
(* sectors that agree on the bits before and differ in this one.           *)
(*                                                                         *)
(* A step is one iteration of one of the map's loops, with the attempt to  *)
(* append to the journal it makes: write, copy, trim, garbage collection,  *)
(* sync, and the recovery that any of them may have to perform.            *)
(***************************************************************************)
EXTENDS Queue, FiniteSets, TLC

CONSTANTS
  Sectors,     \* sector numbers in use
  Data,        \* contents of a sector
  Ops,         \* the calls the user makes, see Dictionary
  gc_ratio,    \* garbage collection steps per write, less one
  MaxCrashes   \* bound: power failures

\* Which bit of a sector number a level of the tree looks at: 1 shifted left by
\* DEPTH - depth - 1.
d_bit[depth \in Levels] ==
  IF depth = DEPTH - 1 THEN 1 ELSE 2 * d_bit[depth + 1]

ASSUME MapAssumption ==
  /\ DEPTH \in Nat \ {0}
  /\ Sectors \subseteq 0 .. (2 * d_bit[0] - 1)
  /\ SECTOR_NONE \notin Sectors
  /\ MISSING \notin Data
  /\ gc_ratio \in Nat \ {0}      \* dhara_map_init

VARIABLES
  count,       \* m->count, the number of mapped sectors
  pc,          \* the loop that runs: "gc", "do", or "idle" between calls
  recovering,  \* it has called try_recover
  call,        \* the call and its loop counters
  ok,          \* the last call has succeeded
  crashes      \* power failures so far

mapVars == <<queueVars, count, pc, recovering, call, ok, crashes>>

-----------------------------------------------------------------------------
(* The radix tree                                                          *)

\* (target ^ id) & d_bit(depth)
differs(target, id, depth) ==
  (target \div d_bit[depth]) % 2 # (id \div d_bit[depth]) % 2

\* One level of trace_path: stay with the page w.p, or follow its alt-pointer.
trace_step(w, target, depth) ==
  LET e == entry[w.p]
  IN  IF ~w.ok \/ e.id = SECTOR_NONE THEN [w EXCEPT !.ok = FALSE]
      ELSE IF differs(target, e.id, depth)
        THEN [p |-> e.alt[depth], ok |-> e.alt[depth] # PAGE_NONE,
              alt |-> [w.alt EXCEPT ![depth] = w.p]]
      ELSE [w EXCEPT !.alt[depth] = e.alt[depth]]

\* trace_path from a root to a sector: whether it is mapped (ok), to which
\* page (p), and the alt-pointers of a page that takes its place (alt).
trace_path(root, target) ==
  LET walk[d \in 0 .. DEPTH] ==
        IF d = 0 THEN [p |-> root, ok |-> root # PAGE_NONE, alt |-> NoAlts]
        ELSE trace_step(walk[d - 1], target, d - 1)
  IN  walk[DEPTH]

\* dhara_map_read for every sector, from a given root.
lookup(root) ==
  [s \in Sectors |->
     LET t == trace_path(root, s) IN IF t.ok THEN entry[t.p].data ELSE MISSING]

\* Mutant: the margin for the blocks that may fail is forgotten.
dhara_map_capacity_no_margin(jj) ==
  dhara_journal_capacity(jj) - dhara_journal_capacity(jj) \div (gc_ratio + 1)

\* The sectors the map offers: room is kept for garbage, and for
\* DHARA_MAX_RETRIES failing blocks.
dhara_map_capacity(jj) ==
  LET cap == dhara_journal_capacity(jj)
      reserve == cap \div (gc_ratio + 1)
      safety_margin == MAX_RETRIES * ppb
  IN  IF reserve + safety_margin >= cap THEN 0 ELSE cap - reserve - safety_margin

-----------------------------------------------------------------------------
(* The dictionary the map implements                                       *)

\* What the tree under the root holds; what the tree under the root of the
\* last checkpoint holds; and the running call.
D == INSTANCE Dictionary WITH
       dict <- lookup(j.root), durable <- lookup(saved.root), req <- call.req

NoCall == [req |-> D!NoRequest, page |-> PAGE_NONE,
           gcs |-> 0, tries |-> 0, restarts |-> 0]

MapInit ==
  /\ QueueInit
  /\ count = 0
  /\ pc = "idle"
  /\ recovering = FALSE
  /\ call = NoCall
  /\ ok = TRUE
  /\ crashes = 0

-----------------------------------------------------------------------------
(* Control                                                                 *)

\* The call returns.
Return(result) ==
  /\ pc' = "idle"
  /\ recovering' = FALSE
  /\ call' = NoCall
  /\ ok' = result

\* The top of the loop of a call, with the check of auto_gc.
Enter(c, jj) ==
  LET full == user_pages(jj.tail_sync, jj.head) >= dhara_map_capacity(jj)
  IN  /\ recovering' = FALSE
      /\ ok' = TRUE
      /\ \/ /\ c.req.op \in {"write", "trim", "copy"} /\ full
            /\ pc' = "gc" /\ call' = [c EXCEPT !.gcs = gc_ratio + 1]
         \/ /\ c.req.op \in {"write", "trim", "copy"} /\ ~full
            /\ pc' = "do" /\ call' = c
         \/ /\ c.req.op = "gc"
            /\ pc' = "gc" /\ call' = [c EXCEPT !.gcs = 1]
         \/ /\ c.req.op \in {"sync", "clear"}
            /\ pc' = "do" /\ call' = c

Stay == UNCHANGED <<pc, recovering, ok>>

\* An attempt to append a page has not succeeded.  try_recover starts on
\* E_RECOVER and passes on any other error; the count is the old one.
Failed(o) ==
  /\ UNCHANGED count
  /\ \/ /\ o.err = "RETRY" /\ call.tries + 1 < MAX_RETRIES
        /\ Stay /\ call' = [call EXCEPT !.tries = @ + 1]
     \/ /\ o.err = "RECOVER"
        /\ recovering' = TRUE
        /\ call' = [call EXCEPT !.tries = 0, !.restarts = 0]
        /\ UNCHANGED <<pc, ok>>
     \/ /\ o.err = "RETRY" /\ call.tries + 1 >= MAX_RETRIES
        /\ Return(FALSE)
     \/ o.err \notin {"RETRY", "RECOVER"} /\ Return(FALSE)

Becomes(o) ==
  /\ j' = o.j
  /\ entry' = o.entry
  /\ saved' = o.saved
  /\ bad' = o.bad
  /\ fails' = o.fails

-----------------------------------------------------------------------------
(* Calls                                                                   *)

\* The user makes a call.  dhara_map_copy_sector looks up its source now.
Begin(r) ==
  /\ pc = "idle" /\ r.op \in Ops
  /\ Enter([NoCall EXCEPT
              !.req = r,
              !.page = IF r.op = "copy" /\ trace_path(j.root, r.src).ok
                       THEN trace_path(j.root, r.src).p ELSE PAGE_NONE], j)
  /\ UNCHANGED <<queueVars, count, crashes>>

\* Mutant: a page is taken to be current whenever its sector is mapped.
current_if_mapped(jj, p) ==
  entry[p].id # SECTOR_NONE /\ trace_path(jj.root, entry[p].id).ok

\* raw_gc: the page still represents its sector; and how it is rewritten.
current(jj, p) ==
  LET t == trace_path(jj.root, entry[p].id)
  IN  entry[p].id # SECTOR_NONE /\ t.ok /\ t.p = p
rewritten(jj, p) ==
  [entry[p] EXCEPT !.alt = trace_path(jj.root, entry[p].id).alt]

\* One iteration of dhara_map_gc is done; auto_gc makes gc_ratio + 1 of them.
Collected ==
  IF call.gcs > 1
    THEN Stay /\ call' = [call EXCEPT !.gcs = @ - 1, !.tries = 0]
    ELSE IF call.req.op = "gc" THEN Return(TRUE)
    ELSE pc' = "do" /\ call' = [call EXCEPT !.gcs = 0, !.tries = 0]
         /\ UNCHANGED <<recovering, ok>>

Gc ==
  LET jj == peek(j)
  IN  /\ pc = "gc" /\ ~recovering
      /\ \/ /\ count = 0 \/ j.head = j.tail
            /\ Collected /\ UNCHANGED <<queueVars, count>>
         \/ /\ count # 0 /\ j.head # j.tail /\ ~current(jj, jj.tail)
            /\ j' = dequeue(jj) /\ Collected
            /\ UNCHANGED <<entry, saved, bad, fails, count>>
         \/ /\ count # 0 /\ j.head # j.tail /\ current(jj, jj.tail)
            /\ \E o \in append(jj, rewritten(jj, jj.tail), count) :
                 \/ /\ o.err = "OK"
                    /\ Becomes([o EXCEPT !.j = dequeue(@)])
                    /\ Collected /\ UNCHANGED count
                 \/ o.err # "OK" /\ Becomes(o) /\ Failed(o)
      /\ UNCHANGED crashes

\* The page a write or a copy appends, with the path to its sector.
new_page(dst) ==
  [id |-> dst, alt |-> trace_path(j.root, dst).alt,
   data |-> IF call.req.op = "write" THEN call.req.data
            ELSE entry[call.page].data]

\* Mutant: the count goes up whenever a sector is written.
counted_always(dst) == count + 1

\* prepare_write counts a sector that was not mapped.
count_with(dst) == IF trace_path(j.root, dst).ok THEN count ELSE count + 1

\* dhara_map_write and dhara_map_copy_page.  prepare_write looks for room once,
\* not again when dhara_journal_enqueue or _copy tries another block.
Write ==
  LET dst == call.req.dst
      map_full == /\ call.tries = 0
                  /\ ~trace_path(j.root, dst).ok
                  /\ count >= dhara_map_capacity(j)
  IN  /\ pc = "do" /\ ~recovering
      /\ call.req.op = "write" \/ (call.req.op = "copy" /\ call.page # PAGE_NONE)
      /\ \/ /\ map_full
            /\ Return(FALSE) /\ UNCHANGED <<queueVars, count>>
         \/ /\ ~map_full
            /\ \E o \in append(j, new_page(dst), count_with(dst)) :
                 /\ Becomes(o)
                 /\ \/ o.err = "OK" /\ count' = count_with(dst) /\ Return(TRUE)
                    \/ o.err # "OK" /\ Failed(o)
      /\ UNCHANGED crashes

\* Mutant: the cousin keeps the pointer to the page that is deleted.
without_keeps(t, level, cousin) ==
  [entry[cousin] EXCEPT
     !.alt = [l \in Levels |-> IF l < level THEN t.alt[l] ELSE @[l]]]

\* try_delete: the closest cousin of the page, rewritten with a path which
\* doesn't lead to the page.
without(t, level, cousin) ==
  [entry[cousin] EXCEPT
     !.alt = [l \in Levels |-> IF l < level THEN t.alt[l]
                               ELSE IF l = level THEN PAGE_NONE ELSE @[l]]]

\* dhara_map_trim, also of the destination of a copy from an unmapped sector.
Trim ==
  LET t == trace_path(j.root, call.req.dst)
      cousins == {l \in Levels : t.alt[l] # PAGE_NONE}
      level == CHOOSE l \in cousins : \A k \in cousins : k <= l
  IN  /\ pc = "do" /\ ~recovering
      /\ call.req.op = "trim" \/ (call.req.op = "copy" /\ call.page = PAGE_NONE)
      /\ \/ ~t.ok /\ Return(TRUE) /\ UNCHANGED <<queueVars, count>>
         \/ /\ t.ok /\ cousins = {}
            /\ count' = 0
            /\ j' = dhara_journal_clear(j)
            /\ Return(TRUE) /\ UNCHANGED <<entry, saved, bad, fails>>
         \/ /\ t.ok /\ cousins # {}
            /\ \E o \in append(j, without(t, level, t.alt[level]), count - 1) :
                 /\ Becomes(o)
                 /\ \/ o.err = "OK" /\ count' = count - 1 /\ Return(TRUE)
                    \/ o.err # "OK" /\ Failed(o)
      /\ UNCHANGED crashes

\* pad_queue repeats the root, or enqueues filler when there is none.
pad_queue(jj) ==
  append(jj, IF jj.root = PAGE_NONE THEN Filler ELSE entry[jj.root], count)

Sync ==
  LET jj == peek(j)
      Goes(o) == \/ /\ o.err = "OK" /\ UNCHANGED count
                    /\ Stay /\ call' = [call EXCEPT !.tries = 0]
                 \/ o.err # "OK" /\ Failed(o)
  IN  /\ pc = "do" /\ ~recovering /\ call.req.op = "sync"
      /\ \/ ~j.dirty /\ Return(TRUE) /\ UNCHANGED <<queueVars, count>>
         \/ /\ j.dirty /\ j.head = j.tail
            /\ \E o \in pad_queue(j) : Becomes(o) /\ Goes(o)
         \/ /\ j.dirty /\ j.head # j.tail /\ ~current(jj, jj.tail)
            /\ j' = dequeue(jj)
            /\ UNCHANGED <<entry, saved, bad, fails, count, call>> /\ Stay
         \/ /\ j.dirty /\ j.head # j.tail /\ current(jj, jj.tail)
            /\ \E o \in append(jj, rewritten(jj, jj.tail), count) :
                 /\ Becomes(IF o.err = "OK" THEN [o EXCEPT !.j = dequeue(@)]
                            ELSE o)
                 /\ Goes(o)
      /\ UNCHANGED crashes

\* dhara_map_clear
Clear ==
  /\ pc = "do" /\ call.req.op = "clear"
  /\ \/ count = 0 /\ UNCHANGED <<j, count>>
     \/ count # 0 /\ count' = 0 /\ j' = dhara_journal_clear(j)
  /\ Return(TRUE)
  /\ UNCHANGED <<entry, saved, bad, fails, crashes>>

\* One iteration of try_recover.  When the journal has left recovery the call
\* goes on: inside dhara_map_gc, or at the top of its own loop.
Recover ==
  LET jj == IF j.enum_done THEN j ELSE next_recoverable(j)
      GoesOn(k) == \/ k.recovery /\ Stay /\ UNCHANGED call
                   \/ /\ ~k.recovery /\ pc = "do" /\ Enter(call, k)
                   \/ /\ ~k.recovery /\ pc = "gc"
                      /\ recovering' = FALSE /\ UNCHANGED <<pc, call, ok>>
      After(o) == \/ o.err = "OK" /\ GoesOn(o.j)
                  \/ /\ o.err = "RECOVER" /\ call.restarts < MAX_RETRIES
                     /\ Stay /\ call' = [call EXCEPT !.restarts = @ + 1]
                  \/ /\ o.err = "RECOVER" /\ call.restarts >= MAX_RETRIES
                     /\ Return(FALSE)
                  \/ o.err \notin {"OK", "RECOVER"} /\ Return(FALSE)
  IN  /\ recovering
      /\ \/ /\ ~j.enum_done /\ ~current(j, j.recover_next)
            /\ j' = jj /\ GoesOn(jj)
            /\ UNCHANGED <<entry, saved, bad, fails>>
         \/ /\ ~j.enum_done /\ current(j, j.recover_next)
            /\ \E o \in append(jj, rewritten(j, j.recover_next), count) :
                 Becomes(o) /\ After(o)
         \/ /\ j.enum_done
            /\ \E o \in pad_queue(j) : Becomes(o) /\ After(o)
      /\ UNCHANGED <<count, crashes>>

\* Power fails; dhara_map_resume takes the count from the cookie.
Crash ==
  /\ crashes < MaxCrashes
  /\ crashes' = crashes + 1
  /\ Restarted
  /\ count' = saved.count
  /\ Return(TRUE)

-----------------------------------------------------------------------------
(* Specification                                                           *)

MapNext ==
  \/ \E r \in D!Requests : Begin(r)
  \/ Gc \/ Write \/ Trim \/ Sync \/ Clear \/ Recover \/ Crash

MapSpec == MapInit /\ [][MapNext]_mapVars

-----------------------------------------------------------------------------
(* Properties                                                              *)

\* One type invariant: pages, sectors and counters in their ranges, and a call
\* recovers only a journal that is in recovery.
MapTypeOK ==
  /\ {j.head, j.tail, j.tail_sync} \subseteq UPages
  /\ {j.root, saved.root} \subseteq UPages \cup {PAGE_NONE}
  /\ \A p \in UPages :
       /\ entry[p].id \in Sectors \cup {SECTOR_NONE}
       /\ entry[p].alt \in [Levels -> UPages \cup {PAGE_NONE}]
       /\ entry[p].data \in Data \cup {MISSING}
  /\ count \in 0 .. Cardinality(Sectors)
  /\ bad \subseteq Blocks
  /\ pc \in {"idle", "gc", "do"}
  /\ recovering => j.recovery
  /\ call.req \in D!Requests \cup {D!NoRequest}

\* The pages a tree consists of: those its sectors are found on.
live(root) ==
  {t.p : t \in {u \in {trace_path(root, s) : s \in Sectors} : u.ok}}

\* The map is the dictionary of its promises: see Dictionary.
Implements == D!DSpec

\* The sector count is the number of sectors the tree holds, and so is the
\* count that a restart would take from the cookie.
CountIsMapped ==
  /\ count = Cardinality(live(j.root))
  /\ saved.count = Cardinality(live(saved.root))

\* The queue holds all that is live, so that the journal never erases it: the
\* tree from the tail on, and the tree a restart would find from the
\* last-synced tail on.
LiveIsQueued ==
  /\ live(j.root) \subseteq queue(j.tail, j.head)
  /\ live(saved.root) \subseteq queue(j.tail_sync, j.head)

\* No sector is left on a block that has been marked bad: the recovery has
\* moved all of them.
NothingOnBadBlocks ==
  ~j.recovery => \A p \in live(j.root) \cup live(saved.root) : block_of(p) \notin bad

\* auto_gc keeps up with the writes, and the reserve is large enough for the
\* blocks that fail: the journal never refuses a page for lack of room.
NeverFull == prepare_head(j).err # "JOURNAL_FULL"

\* No recovery is given up: the journal is in recovery only while try_recover
\* runs.  (A journal left in recovery would go back to recover_root on the next
\* failure, and lose what has been written since.)
NoRecoveryGivenUp == j.recovery => recovering

\* A recovery finds a good block for the next page it rewrites, and another one
\* should that page fail.
RoomToRecover ==
  recovering =>
    LET jj == IF j.enum_done THEN j ELSE next_recoverable(j)
        ready == prepare_head(jj)
    IN  ready.err = "OK" /\ (fails < MaxFails => can_skip(ready.j))

\* View for TLC: two states are the same when they differ only in what is never
\* looked at again, the contents of pages that are on no tree.  (raw_gc reads the
\* sector of such a page, and then does not find the page on the tree.)
MapView ==
  LET trees == live(j.root) \cup live(saved.root) \cup live(j.recover_root)
               \cup {call.page}
  IN  <<j, saved, bad, fails, count, pc, recovering, call, ok, crashes,
        [p \in trees \ {PAGE_NONE} |-> entry[p]]>>

DataSymmetry == Permutations(Data)

=============================================================================
