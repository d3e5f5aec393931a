------------------------------ MODULE MapProofs ------------------------------
(***************************************************************************)
(* Proofs about the Dhara map and the ring it is kept in, for every chip   *)
(* of two blocks or more, every depth, and every number of failures and of *)
(* power failures.  The invariant relates four trees (the current one, the *)
(* one of the last checkpoint, the one a recovery started from, and what   *)
(* is left of that one in the failed block) to the positions of the tail,  *)
(* the last-synced tail, the root and the head in the ring.                *)
(***************************************************************************)
EXTENDS TreeProofs

-----------------------------------------------------------------------------
(* The invariant                                                           *)

QJournals ==
  [epoch : Nat, bb_last : Nat, bb_current : Nat,
   head : UPages, tail : UPages, tail_sync : UPages, root : Links,
   recover_next : Links, recover_root : Links, recover_meta : Links,
   dirty : BOOLEAN, bad_meta : BOOLEAN, recovery : BOOLEAN, enum_done : BOOLEAN]

Checkpoints ==
  [root : Links, tail : UPages, count : Nat, epoch : Nat, bb_current : Nat,
   bb_last : Nat]

\* The ring: the last-synced tail, the tail, the root and the head follow each
\* other.
RingOK(J) ==
  /\ J \in QJournals
  /\ ClearOf(J.tail_sync, J.head)
  /\ Upto(J.tail_sync, J.tail, J.head)
  /\ J.root # PAGE_NONE => /\ Before(J.tail_sync, J.root, J.head)
                           /\ Upto(J.tail_sync, J.tail, J.root)

\* All pages of the tree at root r are between page f and the root, as seen from
\* the last-synced tail.
Between(J, en, f, r) ==
  \A p \in Live(en, r) : Upto(J.tail_sync, f, p) /\ Upto(J.tail_sync, p, r)

\* The current tree lies between the tail and the root.
TreeOK(J, en) ==
  IsTree(en, J.root) /\ Between(J, en, J.tail, J.root)

\* The page is the last user page of its block.
Ends(r) == r + 2 = block_start(r) + ppb

\* The last-synced tail has passed page r, and is no further than the start of
\* the next block.
Passed(J, r) ==
  \/ block_of(J.tail_sync) = block_of(r) /\ r < J.tail_sync
  \/ Ends(r) /\ J.tail_sync = first_page(next_block(block_of(r)))

\* The last checkpoint: its tree lies between the last-synced tail and its
\* root, and what a restart takes from it is a ring again.
SavedOK(J, en, sv) ==
  /\ sv \in Checkpoints
  /\ sv.root = PAGE_NONE <=> sv = NoCheckpoint
  /\ IsTree(en, sv.root)
  /\ sv.count = Cardinality(Mapped(en, sv.root))
  /\ sv.root # PAGE_NONE =>
       /\ is_aligned(sv.root + 2, ppc)
       /\ ClearOf(sv.tail, sv.root)
       /\ Ends(sv.root) => block_of(sv.tail) # next_block(block_of(sv.root))
       /\ \A p \in Live(en, sv.root) : /\ Upto(sv.tail, p, sv.root)
                                       /\ Upto(J.tail_sync, p, sv.root)
       /\ Live(en, sv.root) # {} => Before(J.tail_sync, sv.root, J.head)
       /\ Before(J.tail_sync, sv.root, J.head) \/ Passed(J, sv.root)

\* A journal that is not dirty is the one of the last checkpoint, with its head
\* where a restart would put it.
CleanOK(J, en, sv) ==
  ~J.dirty /\ ~J.recovery =>
    /\ \/ J.root = sv.root
       \/ J.root = PAGE_NONE /\ Live(en, sv.root) = {}
    /\ sv.root # PAGE_NONE =>
         IF Ends(sv.root)
           THEN J.head = first_page(next_block(block_of(sv.root)))
           ELSE block_of(J.head) = block_of(sv.root) /\ sv.root < J.head

\* Nothing that is needed is on a block marked bad.
BadOK(J, en, sv, bd) ==
  /\ bd \subseteq Blocks
  /\ ~is_aligned(J.head, ppb) => block_of(J.head) \notin bd
  /\ J.root # PAGE_NONE => block_of(J.root) \notin bd
  /\ \A p \in Live(en, J.root) : block_of(p) \notin bd
  /\ ~J.recovery /\ sv.root # PAGE_NONE =>
       /\ block_of(sv.root) \notin bd
       /\ \A p \in Live(en, sv.root) : block_of(p) \notin bd

\* No page up to the root of the recovery is in the block of page x.
Apart(J, x) ==
  \A y \in UPages : Upto(J.tail_sync, y, J.recover_root) => block_of(y) # block_of(x)

\* A recovery: the tree it started from is still there, as large as the
\* current one and with the same contents, and neither the head nor the dumped
\* metadata is in a block the tree is in.
RecOK(J, en, bd) ==
  IF J.recovery
    THEN /\ J.recover_root \in UPages /\ J.recover_next \in UPages
         /\ J.root # PAGE_NONE
         /\ block_of(J.recover_root) \notin bd
         /\ Before(J.tail_sync, J.recover_root, J.head)
         /\ Upto(J.tail_sync, J.tail, J.recover_root)
         /\ Upto(J.tail_sync, J.recover_root, J.root)
         /\ IsTree(en, J.recover_root)
         /\ Between(J, en, J.tail, J.recover_root)
         /\ Value(en, J.recover_root) = Value(en, J.root)
         /\ Mapped(en, J.recover_root) = Mapped(en, J.root)
         /\ \A p \in Live(en, J.recover_root) : block_of(p) \notin bd
         /\ Apart(J, J.head)
         /\ block_of(J.recover_next) = block_of(J.recover_root)
         /\ J.recover_next <= J.recover_root
         /\ J.recover_meta # PAGE_NONE =>
              /\ Upto(J.tail_sync, J.recover_meta, J.head)
              /\ J.recover_meta # J.head
              /\ Apart(J, J.recover_meta)
         /\ J.bad_meta =>
              /\ J.recover_meta # PAGE_NONE
              /\ block_of(J.recover_meta) # block_of(J.head)
              /\ \A p \in Live(en, J.root) : block_of(p) # block_of(J.recover_meta)
    ELSE /\ J.recover_root = PAGE_NONE /\ J.recover_meta = PAGE_NONE
         /\ ~J.bad_meta /\ ~J.enum_done

\* The recovery has still to look at the pages of the tree, but for those in
\* gone, that are in the failed block.
EnumOK(J, en, gone) ==
  J.recovery =>
    \A p \in Live(en, J.root) \ gone :
      block_of(p) = block_of(J.recover_root) =>
        ~J.enum_done /\ J.recover_next <= p /\ p <= J.recover_root

QueueOK(J, en, sv, bd) ==
  /\ en \in Entries
  /\ RingOK(J) /\ TreeOK(J, en) /\ SavedOK(J, en, sv) /\ CleanOK(J, en, sv)
  /\ BadOK(J, en, sv, bd) /\ RecOK(J, en, bd)

\* The calls: a step of a loop belongs to a call of the kind that has the loop.
Calls ==
  [req : D!Requests \cup {D!NoRequest}, page : Links,
   gcs : Nat, tries : Nat, restarts : Nat]
ControlOK ==
  /\ call \in Calls
  /\ pc \in {"idle", "gc", "do"}
  /\ pc = "idle" <=> call.req = D!NoRequest
  /\ pc = "gc" => call.req.op \in {"write", "trim", "copy", "gc"}
  /\ pc = "do" => call.req.op \in {"write", "trim", "copy", "sync", "clear"}
  /\ recovering => pc # "idle" /\ call.req.op # "clear"
  /\ pc # "idle" => ok = TRUE

CountOK == count = Cardinality(Mapped(entry, j.root))

MapInv ==
  /\ QueueOK(j, entry, saved, bad) /\ EnumOK(j, entry, {})
  /\ recovering => j.recovery
  /\ CountOK /\ ControlOK


-----------------------------------------------------------------------------
(* Positions in the ring                                                   *)

\* The distance to a page from one on the way to it.
LEMMA DistanceTo ==
  ASSUME NEW f \in Pages, NEW x \in Pages, NEW h \in Pages, Upto(f, x, h)
  PROVE  ring_distance(x, h) = ring_distance(f, h) - ring_distance(f, x)
  BY Distance DEF Upto

\* In a block that the head has not come round to, pages are in order.
LEMMA InOrder ==
  ASSUME NEW f \in Pages, NEW h \in Pages, NEW r \in Pages, NEW p \in Pages,
         ClearOf(f, h), Before(f, r, h), Upto(f, p, r), block_of(p) = block_of(r)
  PROVE  p <= r
<1>1. /\ block_start(p) = block_start(r)
      /\ block_start(f) = block_start(r) \/ block_start(f) + ppb <= block_start(r)
           \/ block_start(r) + ppb <= block_start(f)
      /\ block_start(h) = block_start(r) \/ block_start(h) + ppb <= block_start(r)
           \/ block_start(r) + ppb <= block_start(h)
      /\ block_start(f) = block_start(h) => f <= h
  BY SameBlock DEF ClearOf
<1>2. \A x \in {f, h, r, p} : /\ x \in Nat /\ x < chip_size /\ block_start(x) \in Nat
                              /\ block_start(x) <= x /\ x < block_start(x) + ppb
  BY BlockBounds
<1>3. ring_distance(f, r) < ring_distance(f, h) /\ ring_distance(f, p) <= ring_distance(f, r)
  BY DEF Before, Upto
<1>4. \A x \in {h, r, p} : ring_distance(f, x) = IF x >= f THEN x - f ELSE x + chip_size - f
  BY DEF ring_distance
<1>5. chip_size \in Nat /\ ppb \in Nat
  BY Sizes
<1> QED BY <1>1, <1>2, <1>3, <1>4, <1>5

\* The last user page of a block is followed by the next block, any other page
\* by one in its block.
LEMMA AfterPage ==
  ASSUME NEW u \in UPages
  PROVE  IF Ends(u) THEN next_upage(u) = first_page(next_block(block_of(u)))
         ELSE block_of(next_upage(u)) = block_of(u) /\ u < next_upage(u)
<1>1. u \in Pages /\ next_upage(u) \in Pages /\ u \in Nat /\ next_upage(u) \in Nat
  BY NextInBlock, BlockBounds
<1>2. CASE Ends(u)
  <2>1. ~(u < next_upage(u) /\ block_of(next_upage(u)) = block_of(u))
    <3> SUFFICES ASSUME u < next_upage(u), block_of(next_upage(u)) = block_of(u)
                 PROVE FALSE
      OBVIOUS
    <3>1. next_upage(u) < block_start(u) + ppb
      BY <1>1, BlockBounds, SameBlock
    <3>2. next_upage(u) = u + 1 \/ u + 1 = cp_page(u)
      BY GroupBounds
    <3>3. next_upage(u) = u + 1
      BY <1>1, <1>2, <3>1, <3>2, GroupBounds DEF Ends
    <3>4. (u + 1) + 1 = block_start(u) + ppb
      BY <1>1, <1>2 DEF Ends
    <3>5. \E b \in Nat : (u + 1) + 1 = b * ppb
      <4>1. block_of(u) \in Nat /\ block_start(u) = block_of(u) * ppb
        BY <1>1, BlockBounds DEF Blocks, block_start, first_page
      <4>2. block_of(u) * ppb + ppb = (block_of(u) + 1) * ppb
        BY <4>1, Sizes
      <4> QED BY <3>4, <4>1, <4>2
    <3>6. is_aligned((u + 1) + 1, ppc)
      <4>1. PICK b \in Nat : (u + 1) + 1 = b * ppb
        BY <3>5
      <4>2. b * ppb = (b * cpb) * ppc /\ b * cpb \in Nat
        BY Sizes, GeometryAssumption
      <4>3. ((b * cpb) * ppc + 0) % ppc = 0
        BY <4>2, Sizes, ModUnique
      <4>4. (b * cpb) * ppc + 0 = (u + 1) + 1
        BY <4>1, <4>2, Sizes, <1>1
      <4> QED BY <4>3, <4>4 DEF is_aligned
    <3>7. u + 1 \in UPages
      BY <3>3, NextUPage
    <3> QED BY <3>6, <3>7 DEF UPages
  <2> QED BY <1>2, <2>1, NextInBlock
<1>3. CASE ~Ends(u)
  BY <1>3, NextInBlock DEF Ends
<1> QED BY <1>2, <1>3

\* A page where the last-synced tail is, or that it has passed, is not in the
\* block of a head that may still move on.
LEMMA SavedIsSpared ==
  ASSUME NEW J, J.tail_sync \in Pages, NEW h \in Pages, NEW r \in UPages,
         ClearOf(J.tail_sync, h), is_aligned(h, ppb),
         next_block(block_of(h)) # block_of(J.tail_sync),
         Before(J.tail_sync, r, h) \/ Passed(J, r)
  PROVE  block_of(r) # block_of(h)
<1>0. r \in Pages
  BY DEF UPages
<1>1. CASE Before(J.tail_sync, r, h)
  BY <1>0, <1>1, BlockIsSpared
<1>2. CASE Ends(r) /\ J.tail_sync = first_page(next_block(block_of(r)))
  BY <1>0, <1>2, BlockBounds
<1>3. CASE block_of(J.tail_sync) = block_of(r) /\ r < J.tail_sync
  <2> SUFFICES ASSUME block_of(r) = block_of(h) PROVE FALSE
    OBVIOUS
  <2>1. J.tail_sync <= h /\ h = block_start(h) /\ block_start(h) = block_start(r)
    BY <1>0, <1>3, AlignedBlock, SameBlock DEF ClearOf
  <2>2. block_start(r) <= r /\ r \in Nat /\ h \in Nat /\ J.tail_sync \in Nat
    BY <1>0, BlockBounds
  <2> QED BY <1>3, <2>1, <2>2
<1> QED BY <1>1, <1>2, <1>3 DEF Passed

-----------------------------------------------------------------------------
(* Moving the head                                                         *)

\* Journals that differ in the position of the head, in the statistics and in
\* being dirty.
SameBut(J, K) ==
  /\ K \in QJournals
  /\ K.tail = J.tail /\ K.tail_sync = J.tail_sync /\ K.root = J.root
  /\ K.recover_next = J.recover_next /\ K.recover_root = J.recover_root
  /\ K.recover_meta = J.recover_meta /\ K.bad_meta = J.bad_meta
  /\ K.recovery = J.recovery /\ K.enum_done = J.enum_done

\* move_head moves the head only.
LEMMA HeadMoves ==
  ASSUME NEW J \in QJournals, NEW p \in UPages
  PROVE  /\ SameBut(J, move_head(J, p))
         /\ move_head(J, p).head = p /\ move_head(J, p).dirty = J.dirty
<1> DEFINE K == [J EXCEPT !.head = p]
<1>1. /\ K \in QJournals /\ SameBut(J, K) /\ K.head = p /\ K.dirty = J.dirty
      /\ K.epoch \in Nat /\ K.bb_current \in Nat
  BY DEF QJournals, SameBut
<1>2. (K.epoch + 1) % EPOCHS \in Nat
  BY <1>1, EpochAssumption
<1>3. roll_stats(K) \in QJournals
  <2> HIDE DEF K
  <2> QED BY <1>1, <1>2 DEF roll_stats, QJournals
<1>4. SameBut(J, roll_stats(K)) /\ roll_stats(K).head = p /\ roll_stats(K).dirty = J.dirty
  <2> HIDE DEF K
  <2>1. /\ roll_stats(K).tail = K.tail /\ roll_stats(K).tail_sync = K.tail_sync
        /\ roll_stats(K).root = K.root
        /\ roll_stats(K).recover_next = K.recover_next
        /\ roll_stats(K).recover_root = K.recover_root
        /\ roll_stats(K).recover_meta = K.recover_meta
        /\ roll_stats(K).bad_meta = K.bad_meta
        /\ roll_stats(K).recovery = K.recovery
        /\ roll_stats(K).enum_done = K.enum_done
        /\ roll_stats(K).head = K.head /\ roll_stats(K).dirty = K.dirty
    BY <1>1 DEF roll_stats, QJournals
  <2> QED BY <1>1, <1>3, <2>1 DEF SameBut
<1> QED BY <1>1, <1>4 DEF move_head

\* Counting a bad block moves nothing.
LEMMA CountedMoves ==
  ASSUME NEW J \in QJournals
  PROVE  /\ SameBut(J, counted(J))
         /\ counted(J).head = J.head /\ counted(J).dirty = J.dirty
  BY DEF counted, QJournals, SameBut

\* skip_block after a failure: the head is at the start of the next block.
LEMMA SkipMoves ==
  ASSUME NEW J \in QJournals, ClearOf(J.tail_sync, J.head), can_skip(J)
  PROVE  LET K == skip_block(counted(J))
         IN  /\ SameBut(J, K) /\ K.dirty = J.dirty
             /\ K.head = first_page(next_block(block_of(J.head)))
             /\ is_aligned(K.head, ppb)
             /\ Onward(J.tail_sync, J.head, K.head)
<1> DEFINE C == counted(J)
           n == first_page(next_block(block_of(J.head)))
           K == skip_block(C)
<1>1. C \in QJournals /\ SameBut(J, C) /\ C.head = J.head /\ C.dirty = J.dirty
  BY CountedMoves DEF SameBut
<1>2. J.head \in Pages /\ J.tail_sync \in Pages
  BY DEF QJournals, UPages
<1>3. n \in UPages /\ n \in Pages /\ block_of(n) = next_block(block_of(J.head))
  BY <1>2, BlockBounds
<1>4. is_aligned(n, ppb)
  BY <1>2, <1>3, AlignedBlock DEF block_start
<1>5. K = move_head(C, n)
  BY <1>1 DEF skip_block
<1>6. SameBut(C, K) /\ K.head = n /\ K.dirty = C.dirty
  <2> HIDE DEF C, n, K
  <2> QED BY <1>1, <1>3, <1>5, HeadMoves
<1>7. Onward(J.tail_sync, J.head, n)
  BY <1>2, OnwardNextBlock DEF can_skip
<1>8. SameBut(J, K)
  <2> HIDE DEF C, K
  <2> QED BY <1>1, <1>6 DEF SameBut
<1> HIDE DEF C, n
<1> QED BY <1>1, <1>4, <1>6, <1>7, <1>8 DEF C, n

\* Moves of the head one after the other are a move.
LEMMA OnwardTwice ==
  ASSUME NEW f \in Pages, NEW a \in Pages, NEW b \in Pages, NEW c \in Pages,
         Onward(f, a, b), Onward(f, b, c)
  PROVE  Onward(f, a, c)
<1>1. ClearOf(f, c)
  BY DEF Onward
<1>2. ASSUME NEW x \in Pages, Upto(f, x, a)
      PROVE  Upto(f, x, c) /\ (a # c => Before(f, x, c))
  <2>1. Upto(f, x, b) /\ (a # b => Before(f, x, b))
    BY <1>2 DEF Onward
  <2>2. Upto(f, x, c) /\ (b # c => Before(f, x, c))
    BY <2>1 DEF Onward
  <2>3. a # c /\ b = c => Before(f, x, c)
    BY <2>1
  <2> QED BY <2>2, <2>3
<1> QED BY <1>1, <1>2 DEF Onward

\* To stay is a move.
LEMMA OnwardNowhere ==
  ASSUME NEW f \in Pages, NEW a \in Pages, ClearOf(f, a)
  PROVE  Onward(f, a, a)
  BY DEF Onward

\* The loop of prepare_head.
scan(jj) ==
  LET sc[i \in 0 .. MAX_RETRIES] ==
        IF i = 0 THEN [err |-> "TOO_BAD", j |-> [jj EXCEPT !.dirty = TRUE]]
        ELSE LET s == sc[i - 1]
             IN  IF s.err # "TOO_BAD" THEN s
                 ELSE IF block_of(s.j.head) \notin bad
                   THEN [s EXCEPT !.err = "OK"]
                 ELSE IF can_skip(s.j)
                   THEN [s EXCEPT !.j = skip_block(counted(s.j))]
                 ELSE [err |-> "JOURNAL_FULL", j |-> counted(s.j)]
  IN  sc

scan_step(s) ==
  IF s.err # "TOO_BAD" THEN s
  ELSE IF block_of(s.j.head) \notin bad THEN [s EXCEPT !.err = "OK"]
  ELSE IF can_skip(s.j) THEN [s EXCEPT !.j = skip_block(counted(s.j))]
  ELSE [err |-> "JOURNAL_FULL", j |-> counted(s.j)]

\* prepare_head is this loop, between its two checks.
LEMMA PrepareHead ==
  ASSUME NEW jj
  PROVE  prepare_head(jj) =
           IF /\ align_eq(next_upage(jj.head), jj.tail_sync, ppb)
              /\ ~align_eq(next_upage(jj.head), jj.head, ppb)
             THEN [err |-> "JOURNAL_FULL", j |-> jj]
           ELSE IF is_aligned(jj.head, ppb) THEN scan(jj)[MAX_RETRIES]
           ELSE [err |-> "OK", j |-> [jj EXCEPT !.dirty = TRUE]]
  BY Zenon DEF prepare_head, scan

\* The loop, one iteration after the other.
LEMMA ScanSteps ==
  ASSUME NEW jj
  PROVE  /\ scan(jj)[0] = [err |-> "TOO_BAD", j |-> [jj EXCEPT !.dirty = TRUE]]
         /\ \A i \in 0 .. (MAX_RETRIES - 1) : scan(jj)[i + 1] = scan_step(scan(jj)[i])
<1>1. MAX_RETRIES \in Nat \ {0}
  BY GeometryAssumption
<1> DEFINE first == [err |-> "TOO_BAD", j |-> [jj EXCEPT !.dirty = TRUE]]
           Val(f, i) == IF i = 0 THEN first ELSE scan_step(f[i - 1])
           Part(n, f) == f = [i \in 0 .. n |-> Val(f, i)]
           T == {n \in Nat : \E f : Part(n, f)}
<1>2. 0 \in T
  <2>1. Part(0, [i \in 0 .. 0 |-> first])
    OBVIOUS
  <2>2. \E f : Part(0, f)
    <3> HIDE DEF Part
    <3> QED BY <2>1
  <2> HIDE DEF Part
  <2> QED BY <2>2
<1>3. ASSUME NEW n \in 0 .. (MAX_RETRIES - 1), n \in T
      PROVE  n + 1 \in T
  <2>1. PICK f : Part(n, f)
    BY <1>3
  <2> DEFINE G == 0 .. (n + 1)
             g == [i \in G |-> IF i = n + 1 THEN Val(f, i) ELSE f[i]]
             h == [i \in G |-> Val(g, i)]
  <2>2. ASSUME NEW i \in G PROVE g[i] = h[i]
    <3>1. i \in 0 .. (n + 1) /\ (i # 0 => i - 1 \in 0 .. n)
      OBVIOUS
    <3>2. i # 0 => g[i - 1] = f[i - 1]
      BY <3>1
    <3>3. Val(g, i) = Val(f, i)
      <4> HIDE DEF g
      <4> QED BY <3>2
    <3>4. i # n + 1 => f[i] = Val(f, i)
      <4> HIDE DEF Val
      <4> QED BY <2>1, <3>1
    <3>5. g[i] = Val(f, i)
      <4> HIDE DEF Val
      <4> QED BY <3>4
    <3>6. h[i] = Val(g, i)
      <4> HIDE DEF g, Val
      <4> QED OBVIOUS
    <3> HIDE DEF g, h, Val
    <3> QED BY <3>3, <3>5, <3>6
  <2>3. g = h
    <3>1. g = [i \in G |-> g[i]] /\ h = [i \in G |-> h[i]]
      <4> HIDE DEF Val
      <4> QED OBVIOUS
    <3> HIDE DEF g, h, G
    <3> QED BY <2>2, <3>1
  <2>4. Part(n + 1, g)
    <3> HIDE DEF g, Val
    <3> QED BY <2>3
  <2>5. \E ff : Part(n + 1, ff)
    <3> HIDE DEF g, Part
    <3> QED BY <2>4
  <2> HIDE DEF Part
  <2> QED BY <2>5
<1>4. MAX_RETRIES \in T
  <2>1. MAX_RETRIES \in 0 .. MAX_RETRIES
    BY <1>1
  <2> HIDE DEF T
  <2> QED BY <1>1, <1>2, <1>3, <2>1, BoundedInduction
<1> DEFINE w == scan(jj)
<1>5. w = [i \in 0 .. MAX_RETRIES |-> Val(w, i)]
  <2>1. \E f : Part(MAX_RETRIES, f)
    <3> HIDE DEF Part
    <3> QED BY <1>4
  <2> DEFINE c == CHOOSE f : Part(MAX_RETRIES, f)
  <2>2. Part(MAX_RETRIES, c)
    <3> HIDE DEF Part
    <3> QED BY <2>1
  <2>3. w = c
    BY Zenon DEF scan, scan_step
  <2> HIDE DEF c, w
  <2> QED BY <2>2, <2>3
<1>6. \A i \in 0 .. MAX_RETRIES : w[i] = Val(w, i)
  <2> HIDE DEF w, Val
  <2> QED BY <1>5
<1>7. w[0] = first
  <2> HIDE DEF w, first
  <2> QED BY <1>1, <1>6
<1>8. ASSUME NEW i \in 0 .. (MAX_RETRIES - 1) PROVE w[i + 1] = scan_step(w[i])
  <2>1. i + 1 \in 0 .. MAX_RETRIES /\ i + 1 # 0 /\ (i + 1) - 1 = i
    BY <1>1
  <2>2. w[i + 1] = Val(w, i + 1)
    <3> HIDE DEF w, Val
    <3> QED BY <1>6, <2>1
  <2> HIDE DEF w
  <2> QED BY <2>1, <2>2
<1> QED BY <1>7, <1>8

\* What prepare_head leaves behind: the head may have moved on past bad blocks;
\* when a page is ready, it is in a good block or where the head was, and the
\* page behind it is free too.
Prepared(J, r) ==
  /\ SameBut(J, r.j)
  /\ Onward(J.tail_sync, J.head, r.j.head)
  /\ r.j.head = J.head \/ is_aligned(r.j.head, ppb)
  /\ r.j.dirty \/ r.j = J
  /\ r.err = "OK" =>
       /\ r.j.dirty
       /\ IF is_aligned(r.j.head, ppb)
            THEN block_of(r.j.head) \notin bad
            ELSE r.j.head = J.head
       /\ Onward(J.tail_sync, r.j.head, next_upage(r.j.head))
       /\ next_upage(r.j.head) # r.j.head

\* prepare_head does that, and has no other errors.
LEMMA PreparedHead ==
  ASSUME num_blocks >= 2, NEW J \in QJournals, ClearOf(J.tail_sync, J.head)
  PROVE  Prepared(J, prepare_head(J)) /\ prepare_head(J).err \in {"OK", "TOO_BAD", "JOURNAL_FULL"}
<1>1. /\ J.head \in Pages /\ J.head \in UPages /\ J.tail_sync \in Pages
      /\ next_upage(J.head) \in UPages
  BY NextUPage DEF QJournals, UPages
<1> DEFINE D1 == [J EXCEPT !.dirty = TRUE]
<1>2. SameBut(J, D1) /\ D1.head = J.head /\ D1.dirty
  BY DEF SameBut, QJournals
<1>3. CASE /\ align_eq(next_upage(J.head), J.tail_sync, ppb)
           /\ ~align_eq(next_upage(J.head), J.head, ppb)
  <2>1. prepare_head(J) = [err |-> "JOURNAL_FULL", j |-> J]
    BY <1>3, PrepareHead
  <2>2. SameBut(J, J)
    BY DEF SameBut
  <2> QED BY <1>1, <2>1, <2>2, OnwardNowhere DEF Prepared
<1>4. CASE /\ ~(/\ align_eq(next_upage(J.head), J.tail_sync, ppb)
                /\ ~align_eq(next_upage(J.head), J.head, ppb))
           /\ ~is_aligned(J.head, ppb)
  <2>1. prepare_head(J) = [err |-> "OK", j |-> D1]
    BY <1>4, PrepareHead
  <2>2. Onward(J.tail_sync, J.head, next_upage(J.head)) /\ next_upage(J.head) # J.head
    BY <1>1, <1>4, OnwardNext
  <2> HIDE DEF D1
  <2> QED BY <1>1, <1>2, <1>4, <2>1, <2>2, OnwardNowhere DEF Prepared
<1>5. CASE is_aligned(J.head, ppb) /\ prepare_head(J) = scan(J)[MAX_RETRIES]
  <2> DEFINE Ok(s) == /\ SameBut(J, s.j) /\ s.j.dirty /\ is_aligned(s.j.head, ppb)
                      /\ Onward(J.tail_sync, J.head, s.j.head)
                      /\ s.err \in {"OK", "TOO_BAD", "JOURNAL_FULL"}
                      /\ s = [err |-> s.err, j |-> s.j]
                      /\ s.err = "OK" => block_of(s.j.head) \notin bad
             P == {i \in Nat : Ok(scan(J)[i])}
  <2>1. 0 \in P
    <3>1. scan(J)[0] = [err |-> "TOO_BAD", j |-> D1]
      BY ScanSteps
    <3> HIDE DEF D1
    <3> QED BY <1>1, <1>2, <1>5, <3>1, OnwardNowhere
  <2>2. ASSUME NEW i \in 0 .. (MAX_RETRIES - 1), i \in P PROVE i + 1 \in P
    <3> DEFINE s == scan(J)[i]
    <3>1. scan(J)[i + 1] = scan_step(s) /\ Ok(s) /\ i + 1 \in Nat
      <4>1. scan(J)[i + 1] = scan_step(s)
        BY ScanSteps
      <4>2. Ok(s) /\ i + 1 \in Nat
        BY <2>2
      <4> QED BY <4>1, <4>2
    <3> HIDE DEF s
    <3> SUFFICES Ok(scan_step(s))
      BY <3>1
    <3>2. /\ s.j \in QJournals /\ s.j.tail_sync = J.tail_sync /\ s.j.head \in Pages
          /\ ClearOf(J.tail_sync, s.j.head)
      BY <3>1 DEF SameBut, Onward, QJournals, UPages
    <3>3. CASE s.err # "TOO_BAD"
      BY <3>1, <3>3 DEF scan_step
    <3>4. CASE s.err = "TOO_BAD" /\ block_of(s.j.head) \notin bad
      <4>1. scan_step(s) = [err |-> "OK", j |-> s.j]
        BY <3>1, <3>4 DEF scan_step
      <4> QED BY <3>1, <3>4, <4>1
    <3>5. CASE s.err = "TOO_BAD" /\ block_of(s.j.head) \in bad /\ can_skip(s.j)
      <4> DEFINE K == skip_block(counted(s.j))
      <4>1. scan_step(s) = [err |-> "TOO_BAD", j |-> K]
        BY <3>1, <3>5 DEF scan_step
      <4>2. /\ SameBut(s.j, K) /\ K.dirty = s.j.dirty /\ is_aligned(K.head, ppb)
            /\ Onward(J.tail_sync, s.j.head, K.head)
        BY <3>2, <3>5, SkipMoves
      <4> HIDE DEF K
      <4>3. K.head \in Pages /\ SameBut(J, K)
        BY <3>1, <4>2 DEF SameBut, QJournals, UPages
      <4>4. Onward(J.tail_sync, J.head, K.head)
        BY <1>1, <3>1, <3>2, <4>2, <4>3, OnwardTwice
      <4>5. K.dirty
        BY <3>1, <4>2
      <4> HIDE DEF Ok
      <4>6. Ok([err |-> "TOO_BAD", j |-> K])
        BY <4>2, <4>3, <4>4, <4>5 DEF Ok
      <4> QED BY <4>1, <4>6
    <3>6. CASE s.err = "TOO_BAD" /\ block_of(s.j.head) \in bad /\ ~can_skip(s.j)
      <4> DEFINE K == counted(s.j)
      <4>1. scan_step(s) = [err |-> "JOURNAL_FULL", j |-> K]
        BY <3>1, <3>6 DEF scan_step
      <4>2. SameBut(s.j, K) /\ K.head = s.j.head /\ K.dirty = s.j.dirty
        BY <3>2, CountedMoves
      <4> HIDE DEF K
      <4>3. SameBut(J, K)
        BY <3>1, <4>2 DEF SameBut
      <4>4. K.dirty /\ is_aligned(K.head, ppb) /\ Onward(J.tail_sync, J.head, K.head)
        BY <3>1, <4>2
      <4> HIDE DEF Ok
      <4>5. Ok([err |-> "JOURNAL_FULL", j |-> K])
        BY <4>3, <4>4 DEF Ok
      <4> QED BY <4>1, <4>5
    <3> QED BY <3>3, <3>4, <3>5, <3>6
  <2>3. Ok(scan(J)[MAX_RETRIES])
    <3>1. MAX_RETRIES \in Nat /\ MAX_RETRIES \in 0 .. MAX_RETRIES
      BY GeometryAssumption
    <3>2. MAX_RETRIES \in P
      <4> HIDE DEF P
      <4> QED BY <2>1, <2>2, <3>1, BoundedInduction
    <3> QED BY <3>2
  <2> DEFINE s == scan(J)[MAX_RETRIES]
  <2> HIDE DEF s
  <2>4. Ok(s) /\ prepare_head(J) = s
    BY <1>5, <2>3 DEF s
  <2>5. s.j.head \in UPages /\ s.j.head \in Pages /\ ClearOf(J.tail_sync, s.j.head)
    BY <2>4 DEF SameBut, QJournals, UPages, Onward
  <2>6. Onward(J.tail_sync, s.j.head, next_upage(s.j.head)) /\ next_upage(s.j.head) # s.j.head
    <3>1. align_eq(next_upage(s.j.head), s.j.head, ppb)
      <4>1. ~Ends(s.j.head)
        <5>1. s.j.head = block_start(s.j.head) /\ s.j.head \in Nat
          BY <2>4, <2>5, AlignedBlock, BlockBounds
        <5>2. ppb \in Nat /\ ppb >= 4
          BY Sizes
        <5> QED BY <5>1, <5>2 DEF Ends
      <4>2. block_of(next_upage(s.j.head)) = block_of(s.j.head)
        BY <2>5, <4>1, AfterPage
      <4>3. next_upage(s.j.head) \in Pages
        BY <2>5, NextUPage DEF UPages
      <4> QED BY <2>5, <4>2, <4>3, SameBlock
    <3> QED BY <1>1, <2>5, <3>1, OnwardNext
  <2> QED BY <2>4, <2>5, <2>6 DEF Prepared
<1>6. is_aligned(J.head, ppb) => \/ prepare_head(J) = scan(J)[MAX_RETRIES]
                                 \/ /\ align_eq(next_upage(J.head), J.tail_sync, ppb)
                                    /\ ~align_eq(next_upage(J.head), J.head, ppb)
  BY PrepareHead
<1> QED BY <1>3, <1>4, <1>5, <1>6

-----------------------------------------------------------------------------
(* What each operation of the journal keeps                                *)

\* The pages that a journal names are pages of the chip.
LEMMA PagesOf ==
  /\ UPages \subseteq Pages
  /\ \A J \in QJournals :
       /\ J.head \in Pages /\ J.tail \in Pages /\ J.tail_sync \in Pages
       /\ \A r \in {J.root, J.recover_next, J.recover_root, J.recover_meta} :
            r # PAGE_NONE => r \in UPages /\ r \in Pages
<1>1. UPages \subseteq Pages
  BY DEF UPages
<1> QED BY <1>1 DEF QJournals, Links

\* The head moves on, to a new block or in a good block, and the journal is
\* dirty.
HeadMoved(J, K, bd) ==
  /\ SameBut(J, K) /\ K.dirty
  /\ Onward(J.tail_sync, J.head, K.head)
  /\ \/ K.head = J.head
     \/ is_aligned(K.head, ppb)
     \/ block_of(K.head) = block_of(J.head) /\ block_of(J.head) \notin bd

\* The ring is in order still.
LEMMA RingOnward ==
  ASSUME NEW J, RingOK(J), NEW bd, NEW K, HeadMoved(J, K, bd)
  PROVE  RingOK(K) /\ (J.root # PAGE_NONE => Before(K.tail_sync, K.root, K.head))
<1>1. J \in QJournals /\ K \in QJournals /\ K.tail = J.tail /\ K.tail_sync = J.tail_sync
      /\ K.root = J.root
  BY DEF RingOK, HeadMoved, SameBut
<1>2. J.root # PAGE_NONE => J.root \in Pages /\ Upto(J.tail_sync, J.root, J.head)
  BY <1>1, PagesOf, OrderTrans DEF RingOK
<1>3. J.root # PAGE_NONE => Before(J.tail_sync, J.root, K.head)
  BY <1>1, <1>2 DEF HeadMoved, Onward, RingOK
<1> QED BY <1>1, <1>3, PagesOf DEF HeadMoved, Onward, RingOK

\* And so is all else, when the head has moved.
LEMMA HeadOnward ==
  ASSUME NEW J, NEW en, NEW sv, NEW bd, QueueOK(J, en, sv, bd),
         NEW K, HeadMoved(J, K, bd)
  PROVE  QueueOK(K, en, sv, bd) /\ \A gone : EnumOK(J, en, gone) => EnumOK(K, en, gone)
<1>1. /\ J \in QJournals /\ K \in QJournals /\ K.tail = J.tail
      /\ K.tail_sync = J.tail_sync /\ K.root = J.root
      /\ K.recover_next = J.recover_next /\ K.recover_root = J.recover_root
      /\ K.recover_meta = J.recover_meta /\ K.bad_meta = J.bad_meta
      /\ K.recovery = J.recovery /\ K.enum_done = J.enum_done /\ K.dirty
      /\ J.head \in Pages /\ K.head \in Pages /\ J.tail_sync \in Pages
      /\ ClearOf(J.tail_sync, K.head)
      /\ RingOK(J) /\ RingOK(K)
  BY PagesOf, RingOnward DEF QueueOK, RingOK, HeadMoved, SameBut, Onward
<1>2. \A x \in Pages : Upto(J.tail_sync, x, J.head) =>
        /\ Upto(J.tail_sync, x, K.head)
        /\ K.head # J.head => Before(J.tail_sync, x, K.head)
        /\ block_of(K.head) # block_of(J.head) => block_of(x) # block_of(K.head)
  BY <1>1, BlockIsSpared DEF HeadMoved, Onward
<1>3. \A x \in Pages : Before(J.tail_sync, x, J.head) => Before(J.tail_sync, x, K.head)
  BY <1>1, <1>2, OrderTrans
<1>4. TreeOK(K, en)
  BY <1>1 DEF QueueOK, TreeOK, Between
<1>5. SavedOK(K, en, sv)
  <2>1. SavedOK(J, en, sv)
    BY DEF QueueOK
  <2>2. sv.root # PAGE_NONE => sv.root \in Pages
    BY <2>1, PagesOf DEF SavedOK, Checkpoints, Links
  <2>3. Passed(J, sv.root) <=> Passed(K, sv.root)
    BY <1>1 DEF Passed
  <2> QED BY <1>1, <1>3, <2>1, <2>2, <2>3 DEF SavedOK
<1>6. CleanOK(K, en, sv)
  BY <1>1 DEF CleanOK
<1>7. BadOK(K, en, sv, bd)
  BY <1>1 DEF QueueOK, BadOK, HeadMoved
<1>8. RecOK(K, en, bd)
  <2>1. RecOK(J, en, bd)
    BY DEF QueueOK
  <2>2. CASE ~J.recovery
    BY <1>1, <2>1, <2>2 DEF RecOK
  <2>3. CASE J.recovery
    <3>1. J.recover_root \in Pages /\ J.recover_root \in UPages
      BY <2>1, <2>3, PagesOf DEF RecOK
    <3>2. Before(J.tail_sync, J.recover_root, K.head)
      BY <1>3, <2>1, <2>3, <3>1 DEF RecOK
    <3>3. Apart(K, K.head)
      <4>1. CASE block_of(K.head) = block_of(J.head)
        BY <1>1, <2>1, <2>3, <4>1 DEF RecOK, Apart
      <4>2. CASE block_of(K.head) # block_of(J.head)
        <5> SUFFICES ASSUME NEW y \in UPages, Upto(J.tail_sync, y, J.recover_root)
                     PROVE  block_of(y) # block_of(K.head)
          BY <1>1 DEF Apart
        <5>1. y \in Pages
          BY PagesOf
        <5>2. Upto(J.tail_sync, J.recover_root, J.head)
          BY <1>1, <2>1, <2>3, <3>1, OrderTrans DEF RecOK
        <5>3. Upto(J.tail_sync, y, J.head)
          BY <1>1, <3>1, <5>1, <5>2, OrderTrans
        <5> QED BY <1>2, <4>2, <5>1, <5>3
      <4> QED BY <4>1, <4>2
    <3>4. J.recover_meta # PAGE_NONE =>
            /\ Upto(J.tail_sync, J.recover_meta, K.head)
            /\ J.recover_meta # K.head
            /\ Apart(K, J.recover_meta)
            /\ block_of(K.head) # block_of(J.head) => block_of(J.recover_meta) # block_of(K.head)
      <4> SUFFICES ASSUME J.recover_meta # PAGE_NONE
                   PROVE  /\ Upto(J.tail_sync, J.recover_meta, K.head)
                          /\ J.recover_meta # K.head
                          /\ Apart(K, J.recover_meta)
                          /\ block_of(K.head) # block_of(J.head) => block_of(J.recover_meta) # block_of(K.head)
        OBVIOUS
      <4>1. J.recover_meta \in Pages
        BY <1>1, PagesOf
      <4>2. Upto(J.tail_sync, J.recover_meta, J.head) /\ J.recover_meta # J.head
            /\ Apart(J, J.recover_meta)
        BY <2>1, <2>3 DEF RecOK
      <4>3. Apart(K, J.recover_meta)
        BY <1>1, <4>2 DEF Apart
      <4>4. K.head # J.head => J.recover_meta # K.head
        BY <1>1, <1>2, <4>1, <4>2, OrderTrans
      <4> QED BY <1>2, <4>1, <4>2, <4>3, <4>4
    <3>5. Between(K, en, K.tail, K.recover_root)
      BY <1>1, <2>1, <2>3 DEF RecOK, Between
    <3> QED BY <1>1, <2>1, <2>3, <3>2, <3>3, <3>4, <3>5 DEF RecOK
  <2> QED BY <2>2, <2>3
<1>9. \A gone : EnumOK(J, en, gone) => EnumOK(K, en, gone)
  BY <1>1 DEF EnumOK
<1> QED BY <1>1, <1>4, <1>5, <1>6, <1>7, <1>8, <1>9 DEF QueueOK

-----------------------------------------------------------------------------
(* Pages that change                                                       *)

\* The pages behind the head hold what they held; of the others all but the one
\* at the head do too, or hold no sector any more.
Spares(J, en, em) ==
  /\ em \in Entries
  /\ \A x \in UPages : Before(J.tail_sync, x, J.head) => em[x] = en[x]
  /\ \A x \in UPages : x # J.head => em[x] = en[x] \/ em[x].id = SECTOR_NONE

\* A tree behind the head stays.
LEMMA SparedTree ==
  ASSUME NEW J, J.tail_sync \in Pages, J.head \in Pages,
         NEW en \in Entries, NEW em, Spares(J, en, em), NEW r, IsTree(en, r),
         r \in UPages => Before(J.tail_sync, r, J.head),
         \A p \in Live(en, r) : Upto(J.tail_sync, p, r)
  PROVE  /\ IsTree(em, r)
         /\ Mapped(em, r) = Mapped(en, r)
         /\ Live(em, r) = Live(en, r)
         /\ Value(em, r) = Value(en, r)
<1>1. em \in Entries
  BY DEF Spares
<1>2. r \in Links
  BY DEF IsTree, Walkable
<1>3. Live(en, r) \subseteq UPages
  BY LiveCount DEF IsTree
<1>4. CASE r \in UPages
  <2>1. \A p \in Nodes(en, r) \cap UPages : Before(J.tail_sync, p, J.head)
    <3> SUFFICES ASSUME NEW p \in Nodes(en, r) \cap UPages
                 PROVE  Before(J.tail_sync, p, J.head)
      OBVIOUS
    <3>1. p \in Pages /\ r \in Pages /\ Before(J.tail_sync, r, J.head)
      BY <1>4, PagesOf
    <3>2. p = r \/ Upto(J.tail_sync, p, r)
      BY DEF Nodes
    <3> QED BY <3>1, <3>2, OrderTrans
  <2>2. Same(en, em, Nodes(en, r))
    BY <2>1 DEF Spares, Same
  <2> QED BY <1>1, <2>2, StableTree
<1>5. CASE r = PAGE_NONE
  <2>1. r \notin UPages
    BY <1>5, PageNone
  <2> QED BY <1>1, <1>2, <2>1, NoTree
<1> QED BY <1>2, <1>4, <1>5 DEF Links

\* The root of the last checkpoint is not where the next page goes.
LEMMA SavedNotAtHead ==
  ASSUME NEW J, NEW en, NEW sv, RingOK(J), SavedOK(J, en, sv), sv.root # PAGE_NONE,
         Onward(J.tail_sync, J.head, next_upage(J.head)),
         next_upage(J.head) # J.head
  PROVE  sv.root # J.head
<1>1. /\ J.head \in UPages /\ J.head \in Pages /\ J.tail_sync \in Pages
      /\ next_upage(J.head) \in Pages /\ J.tail_sync \in Nat /\ J.head \in Nat
      /\ ClearOf(J.tail_sync, J.head)
  BY PagesOf, NextUPage, BlockBounds DEF RingOK, QJournals
<1> SUFFICES ASSUME sv.root = J.head PROVE FALSE
  OBVIOUS
<1>2. ~Before(J.tail_sync, sv.root, J.head)
  BY <1>1, OrderTrans
<1>3. Passed(J, sv.root)
  BY <1>2 DEF SavedOK
<1>4. CASE block_of(J.tail_sync) = block_of(J.head) /\ J.head < J.tail_sync
  BY <1>1, <1>4 DEF ClearOf
<1>5. CASE Ends(J.head) /\ J.tail_sync = first_page(next_block(block_of(J.head)))
  <2>1. next_upage(J.head) = J.tail_sync
    BY <1>1, <1>5, AfterPage
  <2>2. Before(J.tail_sync, J.tail_sync, next_upage(J.head))
    BY <1>1, OrderTrans DEF Onward
  <2> QED BY <1>1, <2>1, <2>2, OrderTrans
<1> QED BY <1>3, <1>4, <1>5 DEF Passed

\* All stays when pages that are not behind the head change.
LEMMA SparedOK ==
  ASSUME NEW J, NEW en, NEW sv, NEW bd, QueueOK(J, en, sv, bd),
         NEW em, Spares(J, en, em),
         Onward(J.tail_sync, J.head, next_upage(J.head)),
         next_upage(J.head) # J.head
  PROVE  /\ QueueOK(J, em, sv, bd)
         /\ \A gone : EnumOK(J, en, gone) => EnumOK(J, em, gone)
         /\ Mapped(em, J.root) = Mapped(en, J.root)
         /\ Live(em, J.root) = Live(en, J.root)
         /\ Value(em, J.root) = Value(en, J.root)
         /\ Value(em, sv.root) = Value(en, sv.root)
         /\ Same(en, em, Nodes(en, J.root))
<1>1. /\ J \in QJournals /\ J.head \in Pages /\ J.tail_sync \in Pages
      /\ J.tail \in Pages
      /\ en \in Entries /\ em \in Entries /\ RingOK(J) /\ TreeOK(J, en)
      /\ SavedOK(J, en, sv) /\ RecOK(J, en, bd) /\ BadOK(J, en, sv, bd)
      /\ CleanOK(J, en, sv)
  BY PagesOf DEF QueueOK, RingOK, Spares
<1>2. J.root # PAGE_NONE => J.root \in UPages /\ J.root \in Pages
  BY <1>1, PagesOf
<1>3. /\ IsTree(em, J.root) /\ Mapped(em, J.root) = Mapped(en, J.root)
      /\ Live(em, J.root) = Live(en, J.root) /\ Value(em, J.root) = Value(en, J.root)
  <2>1. J.root \in UPages => Before(J.tail_sync, J.root, J.head)
    BY <1>1, PageNone DEF RingOK
  <2>2. \A p \in Live(en, J.root) : Upto(J.tail_sync, p, J.root)
    BY <1>1 DEF TreeOK, Between
  <2>3. IsTree(en, J.root)
    BY <1>1 DEF TreeOK
  <2> QED BY <1>1, <2>1, <2>2, <2>3, SparedTree
<1>4. Same(en, em, Nodes(en, J.root))
  <2> SUFFICES ASSUME NEW p \in Nodes(en, J.root) \cap UPages PROVE em[p] = en[p]
    BY DEF Same
  <2>1. J.root # PAGE_NONE
    <3> SUFFICES ASSUME J.root = PAGE_NONE PROVE FALSE
      OBVIOUS
    <3>1. Live(en, J.root) = {} /\ p # J.root
      BY <1>1, PageNone, NoTree DEF Links
    <3> QED BY <3>1 DEF Nodes
  <2>2. p \in Pages /\ Before(J.tail_sync, J.root, J.head)
    BY <1>1, <2>1, PagesOf DEF RingOK
  <2>3. p = J.root \/ Upto(J.tail_sync, p, J.root)
    BY <1>1 DEF TreeOK, Between, Nodes
  <2>4. Before(J.tail_sync, p, J.head)
    BY <1>1, <1>2, <2>1, <2>2, <2>3, OrderTrans
  <2> QED BY <2>4 DEF Spares
<1>5. TreeOK(J, em)
  BY <1>1, <1>3 DEF TreeOK, Between
<1>6. /\ IsTree(em, sv.root) /\ Mapped(em, sv.root) = Mapped(en, sv.root)
      /\ Live(em, sv.root) = Live(en, sv.root) /\ Value(em, sv.root) = Value(en, sv.root)
  <2>1. IsTree(en, sv.root) /\ sv.root \in Links
    BY <1>1 DEF SavedOK, IsTree, Walkable
  <2>2. CASE Live(en, sv.root) # {}
    <3>1. sv.root # PAGE_NONE
      BY <1>1, <2>1, <2>2, PageNone, NoTree
    <3>2. \A p \in Live(en, sv.root) : Upto(J.tail_sync, p, sv.root)
      BY <1>1, <3>1 DEF SavedOK
    <3>3. Before(J.tail_sync, sv.root, J.head)
      BY <1>1, <2>2, <3>1 DEF SavedOK
    <3> QED BY <1>1, <2>1, <3>2, <3>3, SparedTree
  <2>3. CASE Live(en, sv.root) = {}
    <3>1. sv.root \in UPages => en[sv.root].id = SECTOR_NONE
      <4> SUFFICES ASSUME sv.root \in UPages, en[sv.root].id # SECTOR_NONE PROVE FALSE
        OBVIOUS
      <4>1. trace(en, sv.root, en[sv.root].id).p \in Live(en, sv.root)
        BY <1>1, <2>1, OwnRoot DEF Live
      <4> QED BY <2>3, <4>1
    <3>2. sv.root \in UPages => em[sv.root].id = SECTOR_NONE
      <4> SUFFICES ASSUME sv.root \in UPages PROVE em[sv.root].id = SECTOR_NONE
        OBVIOUS
      <4>1. sv.root # J.head
        BY <1>1, PageNone, SavedNotAtHead
      <4> QED BY <3>1, <4>1 DEF Spares
    <3> QED BY <1>1, <2>1, <3>1, <3>2, NoTree
  <2> QED BY <2>2, <2>3
<1>7. SavedOK(J, em, sv)
  BY <1>1, <1>6 DEF SavedOK
<1>8. CleanOK(J, em, sv)
  BY <1>1, <1>6 DEF CleanOK
<1>9. BadOK(J, em, sv, bd)
  BY <1>1, <1>3, <1>6 DEF BadOK
<1>10. RecOK(J, em, bd)
  <2>1. CASE ~J.recovery
    BY <1>1, <2>1 DEF RecOK
  <2>2. CASE J.recovery
    <3>1. /\ IsTree(em, J.recover_root)
          /\ Mapped(em, J.recover_root) = Mapped(en, J.recover_root)
          /\ Live(em, J.recover_root) = Live(en, J.recover_root)
          /\ Value(em, J.recover_root) = Value(en, J.recover_root)
      <4>1. /\ IsTree(en, J.recover_root)
            /\ Before(J.tail_sync, J.recover_root, J.head)
            /\ \A p \in Live(en, J.recover_root) : Upto(J.tail_sync, p, J.recover_root)
        BY <1>1, <2>2 DEF RecOK, Between
      <4> QED BY <1>1, <4>1, SparedTree
    <3>2. Between(J, em, J.tail, J.recover_root)
      BY <1>1, <2>2, <3>1 DEF RecOK, Between
    <3>3. RecOK(J, en, bd)
      BY <1>1
    <3> QED BY <1>3, <2>2, <3>1, <3>2, <3>3 DEF RecOK
  <2> QED BY <2>1, <2>2
<1>11. \A gone : EnumOK(J, en, gone) => EnumOK(J, em, gone)
  BY <1>3 DEF EnumOK
<1> QED BY <1>1, <1>3, <1>4, <1>5, <1>6, <1>7, <1>8, <1>9, <1>10, <1>11 DEF QueueOK

-----------------------------------------------------------------------------
(* A new root                                                              *)

\* The root moves to page h, behind the head.
RootMoved(J, K, h) ==
  /\ K \in QJournals /\ K.root = h
  /\ K.head = J.head /\ K.tail = J.tail /\ K.tail_sync = J.tail_sync
  /\ K.recover_next = J.recover_next /\ K.recover_root = J.recover_root
  /\ K.recover_meta = J.recover_meta /\ K.bad_meta = J.bad_meta
  /\ K.recovery = J.recovery /\ K.enum_done = J.enum_done
  /\ K.dirty

\* All stays when the new root's tree is made of the new root and of pages of
\* the old tree; in a recovery it must hold what the old tree holds.
LEMMA RootMoves ==
  ASSUME NEW J, NEW en, NEW sv, NEW bd, NEW gone,
         QueueOK(J, en, sv, bd), EnumOK(J, en, gone),
         NEW h \in UPages, NEW K, RootMoved(J, K, h),
         Upto(J.tail_sync, J.tail, h), Before(J.tail_sync, h, J.head),
         J.root # PAGE_NONE => Upto(J.tail_sync, J.root, h),
         IsTree(en, h), Live(en, h) \subseteq {h} \cup (Live(en, J.root) \ gone),
         block_of(h) \notin bd,
         J.recovery => /\ Value(en, h) = Value(en, J.root)
                       /\ Mapped(en, h) = Mapped(en, J.root)
                       /\ block_of(h) # block_of(J.recover_root),
         J.bad_meta => block_of(h) # block_of(J.recover_meta)
  PROVE  QueueOK(K, en, sv, bd) /\ EnumOK(K, en, {})
<1>1. /\ J \in QJournals /\ K \in QJournals /\ J.head \in Pages
      /\ J.tail_sync \in Pages /\ J.tail \in Pages /\ h \in Pages /\ h # PAGE_NONE
      /\ en \in Entries /\ RingOK(J) /\ TreeOK(J, en)
      /\ SavedOK(J, en, sv) /\ RecOK(J, en, bd) /\ BadOK(J, en, sv, bd)
      /\ CleanOK(J, en, sv)
  BY PagesOf, PageNone DEF QueueOK, RingOK, RootMoved
<1>2. J.root # PAGE_NONE => J.root \in UPages /\ J.root \in Pages
  BY <1>1, PagesOf
<1>3. ASSUME NEW p \in Live(en, h)
      PROVE  /\ p \in UPages /\ p \in Pages
             /\ Upto(J.tail_sync, J.tail, p) /\ Upto(J.tail_sync, p, h)
             /\ p = h \/ p \in Live(en, J.root) \ gone
  <2>1. p \in UPages /\ p \in Pages
    BY <1>1, LiveCount, PagesOf DEF IsTree
  <2>2. p = h \/ p \in Live(en, J.root) \ gone
    OBVIOUS
  <2>3. CASE p = h
    BY <1>1, <2>1, <2>3, OrderTrans
  <2>4. CASE p \in Live(en, J.root)
    <3>1. J.root # PAGE_NONE
      BY <1>1, <2>4, PageNone, NoTree DEF Links
    <3>2. Upto(J.tail_sync, J.tail, p) /\ Upto(J.tail_sync, p, J.root)
      BY <1>1, <2>4 DEF TreeOK, Between
    <3>3. J.root \in Pages
      BY <1>2, <3>1
    <3> QED BY <1>1, <2>1, <2>2, <3>1, <3>2, <3>3, OrderTrans
  <2> QED BY <2>1, <2>2, <2>3, <2>4
<1>4. RingOK(K)
  BY <1>1 DEF RingOK, RootMoved
<1>5. TreeOK(K, en)
  BY <1>3 DEF TreeOK, Between, RootMoved
<1>6. SavedOK(K, en, sv)
  <2>1. Passed(J, sv.root) <=> Passed(K, sv.root)
    BY DEF Passed, RootMoved
  <2> QED BY <1>1, <2>1 DEF SavedOK, RootMoved
<1>7. CleanOK(K, en, sv)
  BY DEF CleanOK, RootMoved
<1>8. BadOK(K, en, sv, bd)
  BY <1>1, <1>3 DEF BadOK, RootMoved
<1>9. RecOK(K, en, bd)
  <2>1. CASE ~J.recovery
    BY <1>1, <2>1 DEF RecOK, RootMoved
  <2>2. CASE J.recovery
    <3>1. RecOK(J, en, bd) /\ K.recovery
      BY <1>1, <2>2 DEF RootMoved
    <3>2. J.recover_root \in Pages
      BY <2>2, <3>1, PagesOf DEF RecOK
    <3>3. Upto(J.tail_sync, J.recover_root, h)
      <4>1. J.root # PAGE_NONE /\ Upto(J.tail_sync, J.recover_root, J.root)
        BY <2>2, <3>1 DEF RecOK
      <4> QED BY <1>1, <1>2, <3>2, <4>1, OrderTrans
    <3>4. Between(K, en, K.tail, K.recover_root)
      BY <2>2, <3>1 DEF RecOK, Between, RootMoved
    <3>5. \A x : Apart(K, x) <=> Apart(J, x)
      BY DEF Apart, RootMoved
    <3>6. K.bad_meta => \A p \in Live(en, K.root) : block_of(p) # block_of(K.recover_meta)
      BY <1>3, <2>2, <3>1 DEF RecOK, RootMoved
    <3> HIDE DEF RootMoved
    <3>7. /\ K.root = h /\ K.head = J.head /\ K.tail = J.tail /\ K.tail_sync = J.tail_sync
          /\ K.recover_next = J.recover_next /\ K.recover_root = J.recover_root
          /\ K.recover_meta = J.recover_meta /\ K.bad_meta = J.bad_meta
      BY DEF RootMoved
    <3> QED BY <1>1, <2>2, <3>1, <3>3, <3>4, <3>5, <3>6, <3>7 DEF RecOK
  <2> QED BY <2>1, <2>2
<1>10. EnumOK(K, en, {})
  BY <1>3 DEF EnumOK, RootMoved
<1> QED BY <1>1, <1>4, <1>5, <1>6, <1>7, <1>8, <1>9, <1>10 DEF QueueOK

\* A checkpoint at the end of a group: it releases the tail, and finishes a
\* recovery that has looked at all pages.
Checkpointed(J, K) ==
  /\ K \in QJournals /\ ~K.dirty
  /\ K.root = J.root /\ K.head = J.head /\ K.tail = J.tail
  /\ K.recovery <=> J.recovery /\ ~J.enum_done
  /\ K.tail_sync = IF K.recovery THEN J.tail_sync ELSE J.tail
  /\ IF K.recovery
       THEN /\ K.recover_next = J.recover_next /\ K.recover_root = J.recover_root
            /\ K.recover_meta = J.recover_meta /\ K.bad_meta = J.bad_meta
            /\ ~K.enum_done
       ELSE /\ K.recover_root = PAGE_NONE /\ K.recover_meta = PAGE_NONE
            /\ ~K.bad_meta /\ ~K.enum_done

\* All stays at a checkpoint.  The metadata that is lost then (em) is that of the
\* failed block, where nothing is left that is needed.
LEMMA CheckpointOK ==
  ASSUME num_blocks >= 2, NEW J, NEW en, NEW sv, NEW bd,
         QueueOK(J, en, sv, bd), EnumOK(J, en, {}),
         J.root # PAGE_NONE, is_aligned(J.root + 2, ppc), J.head = next_upage(J.root),
         J.recovery => block_of(J.root) # block_of(J.recover_root),
         J.bad_meta => block_of(J.root) # block_of(J.recover_meta),
         NEW K, Checkpointed(J, K), NEW ck \in Checkpoints,
         ck.root = J.root, ck.tail = J.tail, ck.count = Cardinality(Mapped(en, J.root)),
         NEW em \in Entries,
         J.enum_done \/ em = en,
         \A p \in UPages : J.enum_done /\ block_of(p) # block_of(J.recover_root) => em[p] = en[p],
         NEW bm,
         bm = bd \cup (IF J.enum_done THEN {block_of(J.recover_root)} ELSE {})
                 \cup (IF J.enum_done /\ J.bad_meta THEN {block_of(J.recover_meta)} ELSE {})
  PROVE  /\ QueueOK(K, em, ck, bm) /\ EnumOK(K, em, {})
         /\ Mapped(em, J.root) = Mapped(en, J.root)
         /\ Live(em, J.root) = Live(en, J.root)
         /\ Value(em, J.root) = Value(en, J.root)
<1> DEFINE r == J.root  f == J.tail_sync  g == K.tail_sync
<1>1. /\ J \in QJournals /\ K \in QJournals /\ J.head \in Pages /\ J.head \in UPages
      /\ f \in Pages /\ J.tail \in Pages /\ r \in UPages /\ r \in Pages
      /\ g \in Pages
      /\ en \in Entries /\ RingOK(J) /\ TreeOK(J, en)
      /\ RecOK(J, en, bd) /\ BadOK(J, en, sv, bd)
  BY PagesOf DEF QueueOK, RingOK, Checkpointed, QJournals
<1>2. /\ ClearOf(f, J.head) /\ Upto(f, J.tail, J.head) /\ Before(f, r, J.head)
      /\ Upto(f, J.tail, r) /\ IsTree(en, r)
      /\ \A p \in Live(en, r) : Upto(f, J.tail, p) /\ Upto(f, p, r)
  BY <1>1 DEF RingOK, TreeOK, Between
<1>3. J.enum_done => J.recovery
  BY <1>1 DEF RecOK
<1>4. J.recovery => J.recover_root \in UPages /\ J.recover_root \in Pages
  BY <1>1, PagesOf DEF RecOK
<1>5. /\ IsTree(em, r) /\ Mapped(em, r) = Mapped(en, r)
      /\ Live(em, r) = Live(en, r) /\ Value(em, r) = Value(en, r)
  <2>1. CASE em = en
    BY <1>2, <2>1
  <2>2. CASE J.enum_done
    <3>1. ASSUME NEW p \in Nodes(en, r) \cap UPages PROVE em[p] = en[p]
      <4>1. p \in Live(en, r) => block_of(p) # block_of(J.recover_root)
        BY <1>3, <2>2 DEF EnumOK
      <4> QED BY <1>3, <2>2, <4>1 DEF Nodes
    <3>2. Same(en, em, Nodes(en, r))
      BY <3>1 DEF Same
    <3> HIDE DEF r
    <3> QED BY <1>1, <1>2, <3>2, StableTree
  <2> QED BY <2>1, <2>2
<1>6. Live(en, r) \subseteq UPages /\ Live(en, r) \subseteq Pages
  BY <1>1, <1>2, LiveCount, PagesOf DEF IsTree
<1>7. /\ ClearOf(g, J.head) /\ Upto(g, J.tail, J.head) /\ Before(g, r, J.head)
      /\ Upto(g, J.tail, r)
      /\ \A p \in Live(en, r) : Upto(g, J.tail, p) /\ Upto(g, p, r)
  <2>1. CASE g = f
    BY <1>2, <2>1
  <2>2. CASE g = J.tail
    BY <1>1, <1>2, <1>6, <2>2, ClearTail, TailMoves, OrderTrans
  <2> QED BY <2>1, <2>2 DEF Checkpointed
<1>8. RingOK(K)
  BY <1>1, <1>7 DEF RingOK, Checkpointed
<1>9. TreeOK(K, em)
  BY <1>5, <1>7 DEF TreeOK, Between, Checkpointed
<1>10. IF Ends(r) THEN J.head = first_page(next_block(block_of(r)))
       ELSE block_of(J.head) = block_of(r) /\ r < J.head
  BY <1>1, AfterPage
<1>11. SavedOK(K, em, ck)
  <2>0. ClearOf(f, r)
    <3> SUFFICES ASSUME block_of(f) = block_of(r), ~(f <= r) PROVE FALSE
      BY DEF ClearOf
    <3>0. f \in Nat /\ r \in Nat /\ f >= r + 1
      BY <1>1, BlockBounds
    <3>1. CASE Ends(r)
      <4>1. f < block_start(f) + ppb /\ block_start(f) = block_start(r)
        BY <1>1, BlockBounds, SameBlock
      <4>2. f < r + 2
        BY <3>1, <4>1 DEF Ends
      <4>3. f + 1 = r + 2
        BY <3>0, <4>2
      <4>4. f \in UPages
        BY <1>1 DEF QJournals
      <4> QED BY <4>3, <4>4 DEF UPages
    <3>2. CASE ~Ends(r)
      <4>1. block_of(J.head) = block_of(r) /\ f <= J.head
        BY <1>2, <1>10, <3>2 DEF ClearOf
      <4> QED BY <1>1, <1>2, <3>0, <4>1, Distance DEF Before
    <3> QED BY <3>1, <3>2
  <2>1. ClearOf(J.tail, r)
    BY <1>1, <1>2, <2>0, ClearTail
  <2>2. Ends(r) => block_of(J.tail) # next_block(block_of(r))
    <3> SUFFICES ASSUME Ends(r), block_of(J.tail) = next_block(block_of(r)) PROVE FALSE
      OBVIOUS
    <3>2. block_of(f) = next_block(block_of(r))
      BY <1>1, <1>2, <2>0, TailInNextBlock
    <3>3. block_of(f) = block_of(J.head) /\ J.head = block_start(f)
      BY <1>1, <1>10, <3>2, BlockBounds DEF block_start
    <3>4. f <= J.head /\ block_start(f) <= f /\ f \in Nat /\ J.head \in Nat
      BY <1>1, <1>2, <3>3, BlockBounds DEF ClearOf
    <3>5. f = J.head
      BY <3>3, <3>4
    <3> QED BY <1>1, <1>2, <3>5, OrderTrans
  <2>3. ck # NoCheckpoint /\ r # PAGE_NONE
    BY <1>1, PageNone DEF NoCheckpoint
  <2>4. K.head = J.head /\ ck.root = r /\ ck.tail = J.tail
        /\ ck.count = Cardinality(Mapped(em, r))
    BY <1>5 DEF Checkpointed
  <2>5. \A p \in Live(en, r) : Upto(J.tail, p, r)
    BY <1>1, <1>2, <1>6, TailMoves
  <2> HIDE DEF r, g, f
  <2>6. /\ is_aligned(r + 2, ppc) /\ IsTree(em, r)
        /\ \A p \in Live(em, r) : Upto(J.tail, p, r) /\ Upto(K.tail_sync, p, r)
        /\ Before(K.tail_sync, r, K.head)
    BY <1>5, <1>7, <2>4, <2>5 DEF r, g
  <2> QED BY <2>1, <2>2, <2>3, <2>4, <2>6 DEF SavedOK
<1>12. CleanOK(K, em, ck)
  BY <1>10 DEF CleanOK, Checkpointed
<1>13. /\ bm \subseteq Blocks
       /\ block_of(r) \notin bm
       /\ \A p \in Live(en, r) : block_of(p) \notin bm
       /\ ~is_aligned(J.head, ppb) => block_of(J.head) \notin bm
  <2>1. /\ bd \subseteq Blocks /\ block_of(r) \notin bd
        /\ \A p \in Live(en, r) : block_of(p) \notin bd
    BY <1>1 DEF BadOK
  <2>2. J.enum_done => /\ block_of(J.recover_root) \in Blocks
                       /\ block_of(r) # block_of(J.recover_root)
                       /\ \A p \in Live(en, r) : block_of(p) # block_of(J.recover_root)
    BY <1>3, <1>4, BlockBounds DEF EnumOK
  <2>3. J.bad_meta /\ J.recovery => J.recover_meta \in Pages
    BY <1>1, PagesOf DEF RecOK
  <2>4. J.enum_done /\ J.bad_meta =>
          /\ block_of(J.recover_meta) \in Blocks
          /\ block_of(r) # block_of(J.recover_meta)
          /\ \A p \in Live(en, r) : block_of(p) # block_of(J.recover_meta)
    BY <1>1, <1>3, <2>3, BlockBounds DEF RecOK
  <2>5. ~is_aligned(J.head, ppb) => block_of(J.head) = block_of(r)
    <3>1. ASSUME Ends(r) PROVE is_aligned(J.head, ppb)
      BY <1>1, <1>10, <3>1, BlockBounds, AlignedBlock DEF block_start
    <3> QED BY <1>10, <3>1
  <2> HIDE DEF r
  <2> QED BY <2>1, <2>2, <2>4, <2>5
<1>14. BadOK(K, em, ck, bm)
  BY <1>5, <1>13 DEF BadOK, Checkpointed
<1>15. RecOK(K, em, bm)
  <2>1. CASE ~K.recovery
    BY <2>1 DEF RecOK, Checkpointed
  <2>2. CASE K.recovery
    <3>1. J.recovery /\ ~J.enum_done /\ em = en /\ bm = bd /\ g = f
      BY <2>2 DEF Checkpointed
    <3>2. \A x : Apart(K, x) <=> Apart(J, x)
      BY <2>2, <3>1 DEF Apart, Checkpointed
    <3>3. Between(K, en, K.tail, K.recover_root)
      BY <1>1, <2>2, <3>1 DEF RecOK, Between, Checkpointed
    <3>4. RecOK(J, en, bd)
      BY <1>1
    <3>5. /\ K.root = J.root /\ K.head = J.head /\ K.tail = J.tail /\ K.tail_sync = J.tail_sync
          /\ K.recover_next = J.recover_next /\ K.recover_root = J.recover_root
          /\ K.recover_meta = J.recover_meta /\ K.bad_meta = J.bad_meta
      BY <2>2, <3>1 DEF Checkpointed
    <3> QED BY <1>1, <2>2, <3>1, <3>2, <3>3, <3>4, <3>5 DEF RecOK
  <2> QED BY <2>1, <2>2
<1>16. EnumOK(K, em, {})
  BY <1>3 DEF EnumOK, Checkpointed
<1> QED BY <1>5, <1>8, <1>9, <1>11, <1>12, <1>14, <1>15, <1>16 DEF QueueOK

-----------------------------------------------------------------------------
(* A page is appended                                                      *)

PageRecords ==
  [id : Sectors \cup {SECTOR_NONE}, alt : Alts, data : Data \cup {MISSING}]

\* Page e, wherever it is put, is the root of a tree of sectors m with contents
\* val, made of itself and of pages of the tree at r except those in gone.
Fits(en, r, e, gone, val, m) ==
  \A em \in Entries : \A n \in UPages :
    Same(en, em, Nodes(en, r)) /\ em[n] = e =>
      /\ IsTree(em, n) /\ Value(em, n) = val /\ Mapped(em, n) = m
      /\ Live(em, n) \subseteq {n} \cup (Live(en, r) \ gone)

\* The page at the head can be programmed, and so can the one behind it.
Ready(K) ==
  /\ K.dirty
  /\ Onward(K.tail_sync, K.head, next_upage(K.head))
  /\ next_upage(K.head) # K.head
  /\ is_aligned(K.head, ppb) => block_of(K.head) \notin bad

\* Erasing a block spares what is behind the head, and so does programming the
\* page at the head.
LEMMA ErasedSpares ==
  ASSUME NEW K, RingOK(K), entry \in Entries, NEW em \in Entries,
         \A x \in UPages : x # K.head => em[x] = erased(K.head)[x]
  PROVE  Spares(K, entry, em)
<1>1. K.head \in Pages /\ K.tail_sync \in Pages /\ ClearOf(K.tail_sync, K.head)
  BY PagesOf DEF RingOK
<1>2. ASSUME NEW x \in UPages
      PROVE  erased(K.head)[x] = IF is_aligned(K.head, ppb) /\ block_of(x) = block_of(K.head)
                                 THEN Filler ELSE entry[x]
  <2>1. x \in Pages
    BY PagesOf
  <2>2. align_eq(x, K.head, ppb) <=> block_of(x) = block_of(K.head)
    BY <1>1, <2>1, SameBlock
  <2> QED BY <2>2 DEF erased
<1>3. \A x \in UPages : Before(K.tail_sync, x, K.head) =>
        x # K.head /\ (is_aligned(K.head, ppb) => block_of(x) # block_of(K.head))
  BY <1>1, PagesOf, OrderTrans, BlockIsSpared
<1>4. \A x \in UPages : Before(K.tail_sync, x, K.head) => em[x] = entry[x]
  BY <1>2, <1>3
<1>5. \A x \in UPages : x # K.head => em[x] = entry[x] \/ em[x].id = SECTOR_NONE
  <2>1. Filler.id = SECTOR_NONE
    BY DEF Filler
  <2> HIDE DEF Filler
  <2> QED BY <1>2, <2>1
<1> QED BY <1>4, <1>5 DEF Spares

\* Erasing leaves pages.
LEMMA ErasedEntries ==
  ASSUME entry \in Entries, NEW h \in UPages, NEW e \in PageRecords
  PROVE  /\ erased(h) \in Entries
         /\ [erased(h) EXCEPT ![h] = e] \in Entries
<1>1. Filler \in PageRecords
  BY DEF Filler, PageRecords, NoAlts, Alts, Links
<1>2. Entries = [UPages -> PageRecords]
  BY DEF Entries, PageRecords
<1> HIDE DEF Filler, PageRecords
<1> QED BY <1>1, <1>2 DEF erased

\* The head moves on from a page to the next user page.
LEMMA HeadToNext ==
  ASSUME NEW K, RingOK(K), Ready(K), NEW en, NEW sv, BadOK(K, en, sv, bad)
  PROVE  /\ HeadMoved(K, move_head(K, next_upage(K.head)), bad)
         /\ move_head(K, next_upage(K.head)).head = next_upage(K.head)
         /\ block_of(K.head) \notin bad
<1>1. K \in QJournals /\ K.head \in UPages /\ K.head \in Pages /\ next_upage(K.head) \in UPages
  BY PagesOf, NextUPage DEF RingOK, QJournals
<1>2. block_of(K.head) \notin bad
  BY DEF Ready, BadOK
<1> DEFINE n == next_upage(K.head)  M == move_head(K, n)
<1>3. SameBut(K, M) /\ M.head = n /\ M.dirty = K.dirty
  BY <1>1, HeadMoves
<1>4. is_aligned(n, ppb) \/ block_of(n) = block_of(K.head)
  <2>1. CASE Ends(K.head)
    BY <1>1, <2>1, AfterPage, BlockBounds, AlignedBlock DEF block_start
  <2>2. CASE ~Ends(K.head)
    BY <1>1, <2>2, AfterPage
  <2> QED BY <2>1, <2>2
<1> HIDE DEF M, n
<1>5. M.dirty /\ Onward(K.tail_sync, K.head, M.head)
  BY <1>3 DEF Ready, n
<1> QED BY <1>2, <1>3, <1>4, <1>5 DEF HeadMoved, n, M

\* What appending page e leaves behind: the tree it makes, a checkpoint of it or
\* the old one.
Appended(K, o, gone, val, m) ==
  /\ QueueOK(o.j, o.entry, o.saved, o.bad) /\ EnumOK(o.j, o.entry, {})
  /\ Value(o.entry, o.j.root) = val /\ Mapped(o.entry, o.j.root) = m
  /\ Live(o.entry, o.j.root) \subseteq {o.j.root} \cup (Live(entry, K.root) \ gone)
  /\ \/ o.saved = saved /\ Value(o.entry, saved.root) = Value(entry, saved.root)
     \/ Value(o.entry, o.saved.root) = val
  /\ o.j.root = K.head /\ o.j.tail = K.tail /\ o.j.head = next_upage(K.head)
  /\ o.j.recovery => K.recovery

\* push_meta keeps the invariant.
LEMMA PushOK ==
  ASSUME num_blocks >= 2, NEW K, NEW gone, NEW e \in PageRecords, NEW val, NEW m,
         QueueOK(K, entry, saved, bad), EnumOK(K, entry, gone), Ready(K),
         Fits(entry, K.root, e, gone, val, m),
         K.recovery => val = Value(entry, K.root) /\ m = Mapped(entry, K.root)
  PROVE  /\ push_meta(K, e, Cardinality(m)).err = "OK"
         /\ push_meta(K, e, Cardinality(m)).fails = fails
         /\ Appended(K, push_meta(K, e, Cardinality(m)), gone, val, m)
<1> DEFINE h == K.head  n == next_upage(K.head)
           em == [erased(h) EXCEPT ![h] = e]
           K1 == move_head(K, n)
           o == push_meta(K, e, Cardinality(m))
<1>1. /\ K \in QJournals /\ h \in UPages /\ h \in Pages /\ n \in UPages /\ n \in Pages
      /\ K.tail_sync \in Pages /\ K.tail \in Pages /\ entry \in Entries
      /\ RingOK(K) /\ BadOK(K, entry, saved, bad) /\ RecOK(K, entry, bad)
      /\ SavedOK(K, entry, saved)
  BY PagesOf, NextUPage DEF QueueOK, RingOK, QJournals
<1>2. em \in Entries /\ em[h] = e /\ Spares(K, entry, em)
  <2>1. erased(h) \in Entries /\ em \in Entries
    BY <1>1, ErasedEntries
  <2>2. em[h] = e /\ \A x \in UPages : x # h => em[x] = erased(h)[x]
    BY <1>1, <2>1 DEF Entries
  <2> HIDE DEF em
  <2> QED BY <1>1, <2>1, <2>2, ErasedSpares
<1> HIDE DEF em
<1>3. /\ QueueOK(K, em, saved, bad) /\ EnumOK(K, em, gone)
      /\ Mapped(em, K.root) = Mapped(entry, K.root)
      /\ Live(em, K.root) = Live(entry, K.root)
      /\ Value(em, K.root) = Value(entry, K.root)
      /\ Value(em, saved.root) = Value(entry, saved.root)
      /\ Same(entry, em, Nodes(entry, K.root))
  BY <1>2, SparedOK DEF Ready
<1>4. /\ IsTree(em, h) /\ Value(em, h) = val /\ Mapped(em, h) = m
      /\ Live(em, h) \subseteq {h} \cup (Live(em, K.root) \ gone)
  BY <1>1, <1>2, <1>3 DEF Fits
<1>5. HeadMoved(K, K1, bad) /\ K1.head = n /\ block_of(h) \notin bad
  BY <1>1, HeadToNext
<1> HIDE DEF K1
<1>6. QueueOK(K1, em, saved, bad) /\ EnumOK(K1, em, gone)
  BY <1>3, <1>5, HeadOnward
<1>7. SameBut(K, K1) /\ K1 \in QJournals /\ Onward(K.tail_sync, h, n) /\ h # n
  BY <1>5 DEF HeadMoved, SameBut, Ready
<1>8. ASSUME NEW K2, RootMoved(K1, K2, h)
      PROVE  QueueOK(K2, em, saved, bad) /\ EnumOK(K2, em, {})
  <2>1. /\ K1.tail_sync = K.tail_sync /\ K1.tail = K.tail /\ K1.root = K.root
        /\ K1.recovery = K.recovery /\ K1.recover_root = K.recover_root
        /\ K1.recover_meta = K.recover_meta /\ K1.bad_meta = K.bad_meta
    BY <1>7 DEF SameBut
  <2>2. Upto(K.tail_sync, K.tail, h) /\ Before(K.tail_sync, h, n)
    BY <1>1, <1>7, OrderTrans DEF RingOK, Onward
  <2>3. K.root # PAGE_NONE => Upto(K.tail_sync, K.root, h)
    BY <1>1, PagesOf, OrderTrans DEF RingOK
  <2>4. K.recovery => /\ Value(em, h) = Value(em, K.root)
                      /\ Mapped(em, h) = Mapped(em, K.root)
                      /\ block_of(h) # block_of(K.recover_root)
    <3> SUFFICES ASSUME K.recovery PROVE block_of(h) # block_of(K.recover_root)
      BY <1>3, <1>4
    <3>1. K.recover_root \in UPages /\ Apart(K, h)
      BY <1>1 DEF RecOK
    <3>2. Upto(K.tail_sync, K.recover_root, K.recover_root)
      BY <1>1, <3>1, PagesOf, OrderTrans
    <3> QED BY <3>1, <3>2 DEF Apart
  <2>5. K.bad_meta => block_of(h) # block_of(K.recover_meta)
    BY <1>1 DEF RecOK
  <2> HIDE DEF h, n
  <2> QED BY <1>1, <1>4, <1>5, <1>6, <1>8, <2>1, <2>2, <2>3, <2>4, <2>5, RootMoves
<1>9. CASE ~is_aligned(h + 2, ppc)
  <2>1. n = h + 1
    BY <1>1, <1>9, GroupBounds
  <2> DEFINE K2 == [K EXCEPT !.root = h, !.head = @ + 1]
  <2>2. o = [Outcome("OK", K2) EXCEPT !.entry = em]
    BY <1>9 DEF push_meta, em
  <2>3. o.err = "OK" /\ o.fails = fails /\ o.j = K2 /\ o.entry = em /\ o.saved = saved /\ o.bad = bad
    BY <2>2 DEF Outcome
  <2>4. /\ K2.root = h /\ K2.head = n /\ K2.tail = K.tail /\ K2.recovery = K.recovery
        /\ RootMoved(K1, K2, h)
    <3>1. K2 \in QJournals /\ K2.head = n /\ K2.dirty = K.dirty
      BY <1>1, <2>1 DEF QJournals, Links
    <3> QED BY <1>1, <1>5, <1>7, <3>1 DEF RootMoved, SameBut, QJournals, Ready
  <2> HIDE DEF o, K2
  <2>5. QueueOK(K2, em, saved, bad) /\ EnumOK(K2, em, {})
    BY <1>8, <2>4
  <2> QED BY <1>3, <1>4, <2>3, <2>4, <2>5 DEF Appended, o
<1>10. CASE is_aligned(h + 2, ppc)
  <2> DEFINE K2 == [K1 EXCEPT !.root = h]
             s == [K EXCEPT !.dirty = FALSE, !.root = h]
             clean == move_head(s, n)
             fin == IF K.enum_done THEN clear_recovery(clean) ELSE clean
             lost(p) == /\ K.enum_done /\ K.recover_meta # PAGE_NONE
                        /\ align_eq(p, K.recover_root, ppc)
             en == [p \in UPages |-> IF lost(p) THEN without_meta(em[p]) ELSE em[p]]
             ck == [root |-> h, tail |-> K.tail, count |-> Cardinality(m),
                    epoch |-> K.epoch, bb_current |-> K.bb_current,
                    bb_last |-> K.bb_last]
             bm == bad \cup
                   (IF K.enum_done THEN {block_of(K.recover_root)} ELSE {}) \cup
                   (IF K.enum_done /\ K.bad_meta THEN {block_of(K.recover_meta)} ELSE {})
  <2>1. /\ o.err = "OK" /\ o.fails = fails /\ o.j = released(fin) /\ o.entry = en
        /\ o.saved = ck /\ o.bad = bm
    BY <1>10 DEF push_meta, em
  <2> HIDE DEF o
  <2>2. RootMoved(K1, K2, h) /\ K2.epoch = K1.epoch
    BY <1>1, <1>5, <1>7 DEF RootMoved, QJournals, Links, HeadMoved
  <2>3. s \in QJournals /\ s.root = h /\ ~s.dirty /\ s.tail = K.tail /\ s.tail_sync = K.tail_sync
        /\ s.recovery = K.recovery /\ s.enum_done = K.enum_done
        /\ s.recover_next = K.recover_next /\ s.recover_root = K.recover_root
        /\ s.recover_meta = K.recover_meta /\ s.bad_meta = K.bad_meta
    BY <1>1 DEF QJournals, Links
  <2> HIDE DEF s
  <2>4. clean \in QJournals /\ SameBut(s, clean) /\ clean.head = n /\ ~clean.dirty
    BY <1>1, <2>3, HeadMoves DEF SameBut
  <2> HIDE DEF clean
  <2>5. /\ released(fin) \in QJournals /\ ~released(fin).dirty
        /\ released(fin).root = h /\ released(fin).head = n /\ released(fin).tail = K.tail
        /\ released(fin).recovery = (K.recovery /\ ~K.enum_done)
        /\ released(fin).tail_sync =
             IF K.recovery /\ ~K.enum_done THEN K.tail_sync ELSE K.tail
        /\ IF K.enum_done
             THEN /\ released(fin).recover_root = PAGE_NONE
                  /\ released(fin).recover_meta = PAGE_NONE
                  /\ ~released(fin).bad_meta /\ ~released(fin).enum_done
             ELSE /\ released(fin).recover_next = K.recover_next
                  /\ released(fin).recover_root = K.recover_root
                  /\ released(fin).recover_meta = K.recover_meta
                  /\ released(fin).bad_meta = K.bad_meta
                  /\ released(fin).enum_done = K.enum_done
    <3>1. /\ clean.root = h /\ clean.tail = K.tail /\ clean.tail_sync = K.tail_sync
          /\ clean.recovery = K.recovery /\ clean.enum_done = K.enum_done
          /\ clean.recover_next = K.recover_next /\ clean.recover_root = K.recover_root
          /\ clean.recover_meta = K.recover_meta /\ clean.bad_meta = K.bad_meta
      BY <2>3, <2>4 DEF SameBut
    <3>2. K.enum_done \in BOOLEAN /\ K.recovery \in BOOLEAN
      BY <1>1 DEF QJournals
    <3>3. CASE K.enum_done
      <4> DEFINE c == clear_recovery(clean)
      <4>1. /\ c \in QJournals /\ ~c.dirty /\ c.root = h /\ c.head = n /\ c.tail = K.tail
            /\ c.tail_sync = K.tail_sync /\ c.recovery = FALSE
            /\ c.recover_root = PAGE_NONE /\ c.recover_meta = PAGE_NONE
            /\ ~c.bad_meta /\ ~c.enum_done
        BY <2>4, <3>1 DEF clear_recovery, QJournals, Links
      <4> HIDE DEF c
      <4>2. released(c) = [c EXCEPT !.tail_sync = c.tail]
        BY <4>1 DEF released
      <4>3. /\ released(c) \in QJournals /\ ~released(c).dirty
            /\ released(c).root = h /\ released(c).head = n /\ released(c).tail = K.tail
            /\ released(c).tail_sync = K.tail /\ released(c).recovery = FALSE
            /\ released(c).recover_root = PAGE_NONE /\ released(c).recover_meta = PAGE_NONE
            /\ ~released(c).bad_meta /\ ~released(c).enum_done
        BY <4>1, <4>2 DEF QJournals
      <4>4. fin = c
        BY <3>3 DEF c
      <4> HIDE DEF fin
      <4> QED BY <3>3, <4>3, <4>4
    <3>4. CASE ~K.enum_done
      <4>1. fin = clean
        BY <3>4
      <4> HIDE DEF fin
      <4>2. CASE K.recovery
        <5>1. released(fin) = clean
          BY <3>1, <4>1, <4>2 DEF released
        <5> QED BY <2>4, <3>1, <3>4, <4>2, <5>1
      <4>3. CASE ~K.recovery
        <5>1. released(fin) = [clean EXCEPT !.tail_sync = clean.tail]
          BY <3>1, <4>1, <4>3 DEF released
        <5>2. released(fin) \in QJournals
          BY <2>4, <5>1 DEF QJournals
        <5> QED BY <2>4, <3>1, <3>2, <3>4, <4>3, <5>1, <5>2 DEF QJournals
      <4> QED BY <4>2, <4>3
    <3> QED BY <3>3, <3>4
  <2> DEFINE R == released(fin)
  <2> HIDE DEF fin
  <2>6. /\ K2.root = h /\ K2.head = n /\ K2.tail = K.tail /\ K2.tail_sync = K.tail_sync
        /\ K2.recovery = K.recovery /\ K2.enum_done = K.enum_done
        /\ K2.recover_next = K.recover_next /\ K2.recover_root = K.recover_root
        /\ K2.recover_meta = K.recover_meta /\ K2.bad_meta = K.bad_meta
    BY <1>5, <1>7, <2>2 DEF RootMoved, SameBut
  <2>7. QueueOK(K2, em, saved, bad) /\ EnumOK(K2, em, {})
    BY <1>8, <2>2
  <2> HIDE DEF K2, R
  <2>8. K.enum_done => K.recovery
    BY <1>1 DEF RecOK
  <2>9. Checkpointed(K2, R)
    <3>1. /\ R \in QJournals /\ ~R.dirty
          /\ R.root = K2.root /\ R.head = K2.head /\ R.tail = K2.tail
          /\ R.recovery <=> K2.recovery /\ ~K2.enum_done
          /\ R.tail_sync = IF K2.recovery /\ ~K2.enum_done THEN K2.tail_sync ELSE K2.tail
      BY <2>5, <2>6 DEF R
    <3>2. CASE K.enum_done
      BY <2>5, <2>6, <3>1, <3>2 DEF Checkpointed, R
    <3>3. CASE ~K.enum_done /\ K.recovery
      BY <2>5, <2>6, <3>1, <3>3 DEF Checkpointed, R
    <3>4. CASE ~K.enum_done /\ ~K.recovery
      <4>1. /\ K.recover_root = PAGE_NONE /\ K.recover_meta = PAGE_NONE
            /\ ~K.bad_meta /\ ~K.enum_done
        BY <1>1, <3>4 DEF RecOK
      <4> QED BY <2>5, <2>6, <3>1, <3>4, <4>1 DEF Checkpointed, R
    <3> QED BY <3>2, <3>3, <3>4
  <2>10. ck \in Checkpoints /\ ck.root = h /\ ck.tail = K.tail /\ ck.count = Cardinality(m)
    <3>1. Cardinality(m) \in Nat
      BY <1>2, <1>4, LiveCount DEF IsTree
    <3> QED BY <1>1, <3>1 DEF Checkpoints, QJournals, Links
  <2> HIDE DEF ck
  <2>11. K.recovery => /\ K.recover_root \in UPages /\ K.recover_root \in Pages
                       /\ block_of(h) # block_of(K.recover_root)
    <3> SUFFICES ASSUME K.recovery PROVE /\ K.recover_root \in UPages /\ K.recover_root \in Pages
                       /\ block_of(h) # block_of(K.recover_root)
      OBVIOUS
    <3>1. K.recover_root \in UPages /\ Apart(K, h)
      BY <1>1 DEF RecOK
    <3>2. Upto(K.tail_sync, K.recover_root, K.recover_root) /\ K.recover_root \in Pages
      BY <1>1, <3>1, PagesOf, OrderTrans
    <3> QED BY <3>1, <3>2 DEF Apart
  <2>12. K.bad_meta => block_of(h) # block_of(K.recover_meta)
    BY <1>1 DEF RecOK
  <2>13. en \in Entries
    <3>1. \A x \in PageRecords : without_meta(x) \in PageRecords
      BY DEF PageRecords, without_meta, Filler, NoAlts, Alts, Links
    <3>2. Entries = [UPages -> PageRecords]
      BY DEF Entries, PageRecords
    <3> HIDE DEF PageRecords, lost
    <3> QED BY <1>2, <3>1, <3>2
  <2>14. \A p \in UPages : K.enum_done /\ block_of(p) # block_of(K.recover_root) => en[p] = em[p]
    <3> SUFFICES ASSUME NEW p \in UPages, lost(p) PROVE block_of(p) = block_of(K.recover_root)
      OBVIOUS
    <3>1. K.recover_root \in UPages
      BY <2>8, <2>11
    <3>2. block_of(p) = block_of(cp_page(p)) /\ cp_page(p) = cp_page(K.recover_root)
          /\ block_of(cp_page(K.recover_root)) = block_of(K.recover_root)
      <4>1. p \div ppc = K.recover_root \div ppc
        BY DEF align_eq
      <4>2. cp_page(p) = cp_page(K.recover_root)
        BY <3>1, <4>1, AlignDownGroup DEF cp_page
      <4> QED BY <3>1, <4>2, GroupBounds
    <3> QED BY <3>2
  <2>15. K.enum_done \/ en = em
    <3> SUFFICES ASSUME ~K.enum_done PROVE en = em
      OBVIOUS
    <3>1. \A p \in UPages : ~lost(p)
      OBVIOUS
    <3>2. en = [p \in UPages |-> em[p]]
      <4> HIDE DEF lost
      <4> QED BY <3>1
    <3> QED BY <1>2, <3>2 DEF Entries
  <2> HIDE DEF en, lost, bm
  <2>16. /\ QueueOK(R, en, ck, bm) /\ EnumOK(R, en, {})
         /\ Mapped(en, h) = Mapped(em, h) /\ Live(en, h) = Live(em, h)
         /\ Value(en, h) = Value(em, h)
    <3>1. h # PAGE_NONE
      BY <1>1, PageNone
    <3> HIDE DEF h, n
    <3>2. bm = bad \cup
                   (IF K2.enum_done THEN {block_of(K2.recover_root)} ELSE {}) \cup
                   (IF K2.enum_done /\ K2.bad_meta THEN {block_of(K2.recover_meta)} ELSE {})
      BY <2>6 DEF bm
    <3>3. ck.count = Cardinality(Mapped(em, K2.root))
      BY <1>4, <2>6, <2>10
    <3>4. is_aligned(K2.root + 2, ppc) /\ K2.head = next_upage(K2.root) /\ K2.root # PAGE_NONE
      BY <1>10, <2>6, <3>1 DEF h, n
    <3>5. /\ K2.recovery => block_of(K2.root) # block_of(K2.recover_root)
          /\ K2.bad_meta => block_of(K2.root) # block_of(K2.recover_meta)
          /\ ck.root = K2.root /\ ck.tail = K2.tail
          /\ K2.enum_done \/ en = em
          /\ \A p \in UPages : K2.enum_done /\ block_of(p) # block_of(K2.recover_root) => en[p] = em[p]
      BY <2>6, <2>10, <2>11, <2>12, <2>14, <2>15
    <3>6. /\ QueueOK(R, en, ck, bm) /\ EnumOK(R, en, {})
          /\ Mapped(en, K2.root) = Mapped(em, K2.root) /\ Live(en, K2.root) = Live(em, K2.root)
          /\ Value(en, K2.root) = Value(em, K2.root)
      BY <2>7, <2>9, <2>10, <2>13, <3>2, <3>3, <3>4, <3>5, CheckpointOK
    <3> QED BY <2>6, <3>6
  <2>17. o.j = R /\ R.root = h /\ R.tail = K.tail /\ R.head = n /\ (R.recovery => K.recovery)
    BY <2>1, <2>5 DEF R
  <2> QED BY <1>3, <1>4, <2>1, <2>10, <2>16, <2>17 DEF Appended, o
<1> QED BY <1>9, <1>10

-----------------------------------------------------------------------------
(* A program or an erase fails                                             *)

\* A recovery starts at the root.
RecoveryStarted(J, K) ==
  /\ K \in QJournals
  /\ K.head = J.head /\ K.tail = J.tail /\ K.tail_sync = J.tail_sync /\ K.root = J.root
  /\ K.recover_root = J.root /\ K.recover_next = align_down(J.root, ppb)
  /\ K.recover_meta = J.recover_meta
  /\ K.bad_meta = J.bad_meta /\ K.enum_done = J.enum_done
  /\ K.recovery

\* The pages of a tree in the root's block lie between the start of the block and
\* the root.
LEMMA InRootBlock ==
  ASSUME NEW J, RingOK(J), NEW r \in UPages, Before(J.tail_sync, r, J.head),
         NEW p \in UPages, Upto(J.tail_sync, p, r), block_of(p) = block_of(r)
  PROVE  align_down(r, ppb) <= p /\ p <= r
<1>1. /\ J.head \in Pages /\ J.tail_sync \in Pages /\ ClearOf(J.tail_sync, J.head)
      /\ r \in Pages /\ p \in Pages
  BY PagesOf DEF RingOK
<1>2. p <= r
  BY <1>1, InOrder
<1>3. align_down(r, ppb) = block_start(r) /\ block_start(r) = block_start(p)
      /\ block_start(p) <= p
  BY <1>1, AlignDownBlock, SameBlock, BlockBounds DEF block_start
<1> QED BY <1>2, <1>3

\* The first page of the failed block is a user page of that block.
LEMMA RecoverNext ==
  ASSUME NEW r \in UPages
  PROVE  /\ align_down(r, ppb) \in UPages /\ align_down(r, ppb) <= r
         /\ block_of(align_down(r, ppb)) = block_of(r)
<1>1. r \in Pages
  BY PagesOf
<1> QED BY <1>1, AlignDownBlock, BlockBounds DEF block_start

\* No page up to one behind a head at the start of its block is in that block.
LEMMA BehindIsApart ==
  ASSUME NEW J, RingOK(J), is_aligned(J.head, ppb), NEW r \in UPages,
         Before(J.tail_sync, r, J.head), NEW y \in UPages, Upto(J.tail_sync, y, r)
  PROVE  block_of(y) # block_of(J.head)
<1>1. /\ J.head \in Pages /\ J.tail_sync \in Pages /\ ClearOf(J.tail_sync, J.head)
      /\ r \in Pages /\ y \in Pages
  BY PagesOf DEF RingOK
<1>2. Before(J.tail_sync, y, J.head)
  BY <1>1, OrderTrans
<1> QED BY <1>1, <1>2, BlockIsSpared

\* A recovery that starts with the head in a new block.
LEMMA RecoveryStarts ==
  ASSUME NEW J, NEW en, NEW sv, NEW bd, QueueOK(J, en, sv, bd),
         ~J.recovery, J.root # PAGE_NONE, is_aligned(J.head, ppb),
         NEW K, RecoveryStarted(J, K)
  PROVE  QueueOK(K, en, sv, bd) /\ EnumOK(K, en, {})
<1>1. /\ J \in QJournals /\ K \in QJournals /\ J.root \in UPages /\ J.root \in Pages
      /\ J.tail_sync \in Pages /\ J.head \in Pages /\ J.tail \in Pages
      /\ en \in Entries /\ RingOK(J) /\ TreeOK(J, en)
      /\ SavedOK(J, en, sv) /\ RecOK(J, en, bd) /\ BadOK(J, en, sv, bd)
  BY PagesOf DEF QueueOK, RingOK, RecoveryStarted
<1>2. RingOK(K)
  BY <1>1 DEF RingOK, RecoveryStarted
<1>3. TreeOK(K, en)
  BY <1>1 DEF TreeOK, Between, RecoveryStarted
<1>4. SavedOK(K, en, sv)
  <2>1. Passed(J, sv.root) <=> Passed(K, sv.root)
    BY DEF Passed, RecoveryStarted
  <2> QED BY <1>1, <2>1 DEF SavedOK, RecoveryStarted
<1>5. CleanOK(K, en, sv)
  BY DEF CleanOK, RecoveryStarted
<1>6. BadOK(K, en, sv, bd)
  BY <1>1 DEF BadOK, RecoveryStarted
<1>7. RecOK(K, en, bd)
  <2>1. Before(J.tail_sync, J.root, J.head) /\ Upto(J.tail_sync, J.tail, J.root)
        /\ Upto(J.tail_sync, J.root, J.root)
    BY <1>1, OrderTrans DEF RingOK
  <2>2. Apart(K, K.head)
    BY <1>1, <2>1, BehindIsApart DEF Apart, RecoveryStarted
  <2>3. /\ K.recover_next \in UPages /\ K.recover_next <= K.recover_root
        /\ block_of(K.recover_next) = block_of(K.recover_root)
    BY <1>1, RecoverNext DEF RecoveryStarted
  <2>4. K.recover_meta = PAGE_NONE /\ ~K.bad_meta
    BY <1>1 DEF RecOK, RecoveryStarted
  <2>5. IsTree(en, K.recover_root) /\ Between(K, en, K.tail, K.recover_root)
    BY <1>3 DEF TreeOK, RecoveryStarted
  <2>6. /\ block_of(J.root) \notin bd /\ \A p \in Live(en, J.root) : block_of(p) \notin bd
    BY <1>1 DEF BadOK
  <2>7. /\ K.root = J.root /\ K.head = J.head /\ K.tail = J.tail /\ K.tail_sync = J.tail_sync
        /\ K.recover_root = J.root /\ K.recovery
    BY DEF RecoveryStarted
  <2> QED BY <1>1, <2>1, <2>2, <2>3, <2>4, <2>5, <2>6, <2>7 DEF RecOK
<1>8. EnumOK(K, en, {})
  <2> SUFFICES ASSUME NEW p \in Live(en, J.root), block_of(p) = block_of(J.root)
               PROVE  ~J.enum_done /\ align_down(J.root, ppb) <= p /\ p <= J.root
    BY DEF EnumOK, RecoveryStarted
  <2>1. p \in UPages /\ Upto(J.tail_sync, p, J.root)
    BY <1>1, LiveCount DEF TreeOK, IsTree, Between
  <2>2. ~J.enum_done
    BY <1>1 DEF RecOK
  <2> QED BY <1>1, <2>1, <2>2, InRootBlock DEF RingOK
<1> QED BY <1>1, <1>2, <1>3, <1>4, <1>5, <1>6, <1>7, <1>8 DEF QueueOK

\* A recovery starts again after a failure at page old: its block is bad too, at
\* once or, if the dumped metadata is there, at the end of the recovery.
Holds(J, old) ==
  J.recover_meta # PAGE_NONE /\ block_of(J.recover_meta) = block_of(old)
RecoveryRestarted(J, K, old) ==
  /\ K \in QJournals
  /\ K.head = J.head /\ K.tail = J.tail /\ K.tail_sync = J.tail_sync
  /\ K.root = J.recover_root
  /\ K.recover_root = J.recover_root /\ K.recover_next = align_down(J.recover_root, ppb)
  /\ K.recover_meta = J.recover_meta
  /\ K.bad_meta <=> J.bad_meta \/ Holds(J, old)
  /\ K.recovery /\ ~K.enum_done

\* All stays when a recovery starts again.
LEMMA RecoveryRestarts ==
  ASSUME NEW J, NEW en, NEW sv, NEW bd, QueueOK(J, en, sv, bd),
         J.recovery, is_aligned(J.head, ppb),
         NEW old \in Pages, Apart(J, old), block_of(J.head) # block_of(old),
         NEW K, RecoveryRestarted(J, K, old),
         NEW bm, bm = IF Holds(J, old) THEN bd ELSE bd \cup {block_of(old)}
  PROVE  /\ QueueOK(K, en, sv, bm) /\ EnumOK(K, en, {})
         /\ Value(en, K.root) = Value(en, J.root)
         /\ Mapped(en, K.root) = Mapped(en, J.root)
<1> DEFINE r == J.recover_root
<1>1. /\ J \in QJournals /\ K \in QJournals
      /\ J.tail_sync \in Pages /\ J.head \in Pages /\ J.tail \in Pages
      /\ en \in Entries /\ RingOK(J) /\ TreeOK(J, en)
      /\ SavedOK(J, en, sv) /\ RecOK(J, en, bd) /\ BadOK(J, en, sv, bd)
  BY PagesOf DEF QueueOK, RingOK, RecoveryRestarted
<1>2. /\ r \in UPages /\ r \in Pages /\ r # PAGE_NONE
      /\ block_of(r) \notin bd
      /\ Before(J.tail_sync, r, J.head) /\ Upto(J.tail_sync, J.tail, r)
      /\ Upto(J.tail_sync, r, r)
      /\ IsTree(en, r) /\ Between(J, en, J.tail, r)
      /\ Value(en, r) = Value(en, J.root) /\ Mapped(en, r) = Mapped(en, J.root)
      /\ \A p \in Live(en, r) : block_of(p) \notin bd
  BY <1>1, PagesOf, PageNone, OrderTrans DEF RecOK
<1>3. \A p \in Live(en, r) : p \in UPages /\ Upto(J.tail_sync, p, r)
  BY <1>1, <1>2, LiveCount DEF IsTree, Between
<1>4. RingOK(K)
  BY <1>1, <1>2 DEF RingOK, RecoveryRestarted
<1>5. TreeOK(K, en)
  BY <1>1, <1>2 DEF TreeOK, Between, RecoveryRestarted
<1>6. SavedOK(K, en, sv)
  <2>1. Passed(J, sv.root) <=> Passed(K, sv.root)
    BY DEF Passed, RecoveryRestarted
  <2> QED BY <1>1, <2>1 DEF SavedOK, RecoveryRestarted
<1>7. CleanOK(K, en, sv)
  BY DEF CleanOK, RecoveryRestarted
<1>8. /\ bm \subseteq Blocks /\ block_of(r) \notin bm
      /\ \A p \in Live(en, r) : block_of(p) \notin bm
  <2>1. bd \subseteq Blocks /\ block_of(old) \in Blocks
    BY <1>1, BlockBounds DEF BadOK
  <2>2. block_of(r) # block_of(old) /\ \A p \in Live(en, r) : block_of(p) # block_of(old)
    BY <1>2, <1>3 DEF Apart
  <2> HIDE DEF r
  <2> QED BY <1>2, <2>1, <2>2
<1>9. BadOK(K, en, sv, bm)
  BY <1>1, <1>8 DEF BadOK, RecoveryRestarted
<1>10. RecOK(K, en, bm)
  <2>1. \A x : Apart(K, x) <=> Apart(J, x)
    BY DEF Apart, RecoveryRestarted
  <2>2. /\ K.recover_next \in UPages /\ K.recover_next <= K.recover_root
        /\ block_of(K.recover_next) = block_of(K.recover_root)
    BY <1>2, RecoverNext DEF RecoveryRestarted
  <2>3. K.bad_meta =>
          /\ K.recover_meta # PAGE_NONE
          /\ block_of(K.recover_meta) # block_of(K.head)
          /\ \A p \in Live(en, r) : block_of(p) # block_of(K.recover_meta)
    <3> SUFFICES ASSUME J.bad_meta \/ Holds(J, old)
                 PROVE  /\ J.recover_meta # PAGE_NONE
                        /\ block_of(J.recover_meta) # block_of(J.head)
                        /\ \A p \in Live(en, r) : block_of(p) # block_of(J.recover_meta)
      BY DEF RecoveryRestarted
    <3>1. J.recover_meta # PAGE_NONE
      BY <1>1 DEF RecOK, Holds
    <3>2. block_of(J.recover_meta) # block_of(J.head)
      BY <1>1 DEF RecOK, Holds
    <3>3. Apart(J, J.recover_meta)
      BY <1>1, <3>1 DEF RecOK
    <3> QED BY <1>3, <3>1, <3>2, <3>3 DEF Apart
  <2>4. /\ K.root = r /\ K.head = J.head /\ K.tail = J.tail /\ K.tail_sync = J.tail_sync
        /\ K.recover_root = r /\ K.recover_meta = J.recover_meta /\ K.recovery
    BY DEF RecoveryRestarted
  <2>5. Between(K, en, K.tail, r)
    BY <1>2, <2>4 DEF Between
  <2>6. RecOK(J, en, bd)
    BY <1>1
  <2>7. /\ Apart(K, K.head)
        /\ J.recover_meta # PAGE_NONE =>
              /\ Upto(J.tail_sync, J.recover_meta, J.head)
              /\ J.recover_meta # J.head
              /\ Apart(K, J.recover_meta)
    BY <2>1, <2>4, <2>6 DEF RecOK
  <2> HIDE DEF r
  <2> QED BY <1>1, <1>2, <1>8, <2>2, <2>3, <2>4, <2>5, <2>7 DEF RecOK
<1>11. EnumOK(K, en, {})
  <2> SUFFICES ASSUME NEW p \in Live(en, r), block_of(p) = block_of(r)
               PROVE  align_down(r, ppb) <= p /\ p <= r
    BY DEF EnumOK, RecoveryRestarted
  <2> QED BY <1>1, <1>2, <1>3, InRootBlock
<1>12. K.root = r
  BY DEF RecoveryRestarted
<1> QED BY <1>1, <1>2, <1>4, <1>5, <1>6, <1>7, <1>9, <1>10, <1>11, <1>12 DEF QueueOK

\* The metadata of the incomplete group is dumped on page h, behind the head.
LEMMA MetaDumped ==
  ASSUME NEW J, NEW en, NEW sv, NEW bd, QueueOK(J, en, sv, bd), EnumOK(J, en, {}),
         J.recovery, ~J.bad_meta,
         NEW h, Upto(J.tail_sync, h, J.head), h # J.head, Apart(J, h),
         NEW K \in QJournals,
         K.head = J.head /\ K.tail = J.tail /\ K.tail_sync = J.tail_sync,
         K.root = J.root /\ K.recover_root = J.recover_root,
         K.recover_next = J.recover_next /\ K.recover_meta = h,
         ~K.bad_meta /\ K.recovery /\ K.enum_done = J.enum_done
  PROVE  QueueOK(K, en, sv, bd) /\ EnumOK(K, en, {})
<1>1. /\ en \in Entries /\ RingOK(J) /\ TreeOK(J, en)
      /\ SavedOK(J, en, sv) /\ RecOK(J, en, bd) /\ BadOK(J, en, sv, bd)
  BY DEF QueueOK
<1>2. RingOK(K)
  BY <1>1 DEF RingOK
<1>3. TreeOK(K, en)
  BY <1>1 DEF TreeOK, Between
<1>4. SavedOK(K, en, sv)
  <2>1. Passed(J, sv.root) <=> Passed(K, sv.root)
    BY DEF Passed
  <2> QED BY <1>1, <2>1 DEF SavedOK
<1>5. CleanOK(K, en, sv)
  BY DEF CleanOK
<1>6. BadOK(K, en, sv, bd)
  BY <1>1 DEF BadOK
<1>7. RecOK(K, en, bd)
  <2>1. \A x : Apart(K, x) <=> Apart(J, x)
    BY DEF Apart
  <2>2. Between(K, en, K.tail, K.recover_root)
    BY <1>1 DEF RecOK, Between
  <2> QED BY <1>1, <2>1, <2>2 DEF RecOK
<1>8. EnumOK(K, en, {})
  BY DEF EnumOK
<1> QED BY <1>1, <1>2, <1>3, <1>4, <1>5, <1>6, <1>7, <1>8 DEF QueueOK

\* An attempt that appends no page keeps the trees; it may start a recovery, or
\* start it again.
Kept(J, o) ==
  /\ QueueOK(o.j, o.entry, o.saved, o.bad)
  /\ Value(o.entry, o.j.root) = Value(entry, J.root)
  /\ Mapped(o.entry, o.j.root) = Mapped(entry, J.root)
  /\ o.saved = saved /\ Value(o.entry, saved.root) = Value(entry, saved.root)
  /\ o.err \in {"RETRY", "RECOVER", "JOURNAL_FULL", "TOO_BAD"}
  /\ o.err = "RECOVER" => o.j.recovery /\ EnumOK(o.j, o.entry, {})
  /\ o.err # "RECOVER" => o.j.recovery = J.recovery
  /\ o.err = "RETRY" => ~J.recovery

\* The block of a failing head at its first page holds nothing that is needed.
LEMMA MarkedOK ==
  ASSUME NEW J, NEW en, NEW sv, NEW bd, QueueOK(J, en, sv, bd), ~J.recovery,
         is_aligned(J.head, ppb), can_skip(J),
         NEW K, QueueOK(K, en, sv, bd), SameBut(J, K), is_aligned(K.head, ppb)
  PROVE  QueueOK(K, en, sv, bd \cup {block_of(J.head)})
<1> DEFINE b == block_of(J.head)
<1>1. /\ J \in QJournals /\ J.tail_sync \in Pages /\ J.head \in Pages
      /\ ClearOf(J.tail_sync, J.head) /\ b \in Blocks
      /\ RingOK(J) /\ TreeOK(J, en) /\ SavedOK(J, en, sv) /\ BadOK(K, en, sv, bd)
      /\ RecOK(K, en, bd) /\ en \in Entries
      /\ K.root = J.root /\ K.recovery = J.recovery /\ K.tail_sync = J.tail_sync
  BY PagesOf, BlockBounds DEF QueueOK, RingOK, SameBut
<1>2. \A x \in UPages : Before(J.tail_sync, x, J.head) => block_of(x) # b
  BY <1>1, PagesOf, BlockIsSpared
<1>3. J.root # PAGE_NONE => J.root \in UPages /\ Before(J.tail_sync, J.root, J.head)
  BY <1>1, PagesOf DEF RingOK
<1>4. \A p \in Live(en, J.root) : block_of(p) # b
  <2> SUFFICES ASSUME NEW p \in Live(en, J.root) PROVE block_of(p) # b
    OBVIOUS
  <2>1. J.root # PAGE_NONE
    BY <1>1, PageNone, NoTree DEF Links
  <2>2. p \in UPages /\ Upto(J.tail_sync, p, J.root)
    BY <1>1, LiveCount DEF TreeOK, IsTree, Between
  <2>3. Before(J.tail_sync, p, J.head)
    BY <1>1, <1>3, <2>1, <2>2, PagesOf, OrderTrans
  <2> QED BY <1>2, <2>2, <2>3
<1>5. sv.root # PAGE_NONE => block_of(sv.root) # b
  <2> SUFFICES ASSUME sv.root # PAGE_NONE PROVE block_of(sv.root) # b
    OBVIOUS
  <2>1. sv.root \in UPages
    BY <1>1 DEF SavedOK, Checkpoints, Links
  <2>2. next_block(block_of(J.head)) # block_of(J.tail_sync)
    BY DEF can_skip
  <2>3. Before(J.tail_sync, sv.root, J.head) \/ Passed(J, sv.root)
    BY <1>1 DEF SavedOK
  <2> QED BY <1>1, <2>1, <2>2, <2>3, SavedIsSpared
<1>6. \A p \in Live(en, sv.root) : block_of(p) # b
  <2> SUFFICES ASSUME NEW p \in Live(en, sv.root) PROVE block_of(p) # b
    OBVIOUS
  <2>1. IsTree(en, sv.root) /\ sv.root \in Links
    BY <1>1 DEF SavedOK, Checkpoints
  <2>2. sv.root # PAGE_NONE
    BY <1>1, <2>1, PageNone, NoTree
  <2>3. p \in UPages /\ Upto(J.tail_sync, p, sv.root) /\ Before(J.tail_sync, sv.root, J.head)
    BY <1>1, <2>1, <2>2, LiveCount DEF SavedOK, IsTree
  <2>4. Before(J.tail_sync, p, J.head)
    BY <1>1, <2>1, <2>2, <2>3, PagesOf, OrderTrans DEF Links
  <2> QED BY <1>2, <2>3, <2>4
<1>7. BadOK(K, en, sv, bd \cup {b})
  <2> HIDE DEF b
  <2>1. J.root # PAGE_NONE => block_of(J.root) # b
    BY <1>2, <1>3
  <2> QED BY <1>1, <1>4, <1>5, <1>6, <2>1 DEF BadOK
<1>8. RecOK(K, en, bd \cup {b})
  BY <1>1 DEF RecOK
<1> QED BY <1>7, <1>8 DEF QueueOK

\* A failure where one is tolerated keeps the invariant.
LEMMA FailOK ==
  ASSUME num_blocks >= 2, NEW K, QueueOK(K, entry, saved, bad), K.dirty, can_fail(K)
  PROVE  Kept(K, recover_from(K))
<1> DEFINE S == skip_block(counted(K))
           r == K.root
           start == [S EXCEPT !.recover_root = r, !.recover_next = align_down(r, ppb)]
<1>1. /\ K \in QJournals /\ K.head \in UPages /\ K.head \in Pages
      /\ K.tail_sync \in Pages /\ entry \in Entries /\ RingOK(K)
      /\ ClearOf(K.tail_sync, K.head) /\ RecOK(K, entry, bad)
      /\ K.recovery \in BOOLEAN
  BY PagesOf DEF QueueOK, RingOK, QJournals
<1>2. CASE ~can_skip(K)
  <2> DEFINE C == counted(K)
  <2>1. SameBut(K, C) /\ C.head = K.head /\ C.dirty = K.dirty
    BY <1>1, CountedMoves
  <2>2. recover_from(K) = Outcome("JOURNAL_FULL", C)
    BY <1>2 DEF recover_from
  <2> HIDE DEF C
  <2>3. HeadMoved(K, C, bad)
    BY <1>1, <2>1, OnwardNowhere DEF HeadMoved
  <2>4. QueueOK(C, entry, saved, bad)
    BY <2>3, HeadOnward
  <2>5. C.root = K.root /\ C.recovery = K.recovery
    BY <2>1 DEF SameBut
  <2> QED BY <2>2, <2>4, <2>5 DEF Kept, Outcome
<1> SUFFICES ASSUME can_skip(K) PROVE Kept(K, recover_from(K))
  BY <1>2
<1>3. /\ SameBut(K, S) /\ S.dirty = K.dirty /\ is_aligned(S.head, ppb)
      /\ S.head = first_page(next_block(block_of(K.head)))
      /\ Onward(K.tail_sync, K.head, S.head)
  BY <1>1, SkipMoves
<1>4. /\ S \in QJournals /\ S.tail = K.tail /\ S.tail_sync = K.tail_sync /\ S.root = K.root
      /\ S.recover_root = K.recover_root /\ S.recover_meta = K.recover_meta
      /\ S.recover_next = K.recover_next
      /\ S.bad_meta = K.bad_meta /\ S.recovery = K.recovery /\ S.enum_done = K.enum_done
      /\ S.dirty /\ S.head \in Pages
  BY <1>3, PagesOf DEF SameBut
<1>5. HeadMoved(K, S, bad)
  BY <1>3, <1>4 DEF HeadMoved
<1>6. QueueOK(S, entry, saved, bad) /\ RingOK(S)
  BY <1>5, HeadOnward DEF QueueOK
<1>7. CASE K.recovery
  <2> DEFINE hd == /\ S.recover_meta # PAGE_NONE
                   /\ align_eq(S.recover_meta, K.head, ppb)
             R == [S EXCEPT !.enum_done = FALSE,
                            !.bad_meta = @ \/ hd,
                            !.recover_next = align_down(S.recover_root, ppb),
                            !.root = S.recover_root]
             o == recover_from(K)
  <2>1. o = restart_recovery(S, K.head)
    BY <1>7 DEF recover_from
  <2>2. /\ o.err = "RECOVER" /\ o.j = R /\ o.entry = entry /\ o.saved = saved
        /\ o.bad = IF hd THEN bad ELSE bad \cup {block_of(K.head)}
    BY <2>1 DEF restart_recovery, Outcome
  <2>3. S.recover_meta # PAGE_NONE => S.recover_meta \in Pages
    BY <1>4, PagesOf
  <2>4. hd <=> Holds(S, K.head)
    BY <1>1, <2>3, SameBlock DEF Holds
  <2>5. RecoveryRestarted(S, R, K.head)
    <3>1. S.recover_root \in UPages /\ align_down(S.recover_root, ppb) \in UPages
      BY <1>1, <1>4, <1>7, RecoverNext DEF RecOK
    <3>2. hd \in BOOLEAN /\ S.bad_meta \in BOOLEAN
      BY <1>4 DEF QJournals
    <3> HIDE DEF hd
    <3>3. /\ R.head = S.head /\ R.tail = S.tail /\ R.tail_sync = S.tail_sync
          /\ R.root = S.recover_root /\ R.recover_root = S.recover_root
          /\ R.recover_next = align_down(S.recover_root, ppb)
          /\ R.recover_meta = S.recover_meta /\ R.enum_done = FALSE
          /\ R.recovery = S.recovery
      BY <1>4 DEF QJournals
    <3>4. R.bad_meta = (S.bad_meta \/ hd)
      BY <1>4 DEF QJournals
    <3>5. R \in QJournals
      BY <1>4, <3>1, <3>2 DEF QJournals, Links
    <3> HIDE DEF R, S
    <3>6. R.bad_meta <=> S.bad_meta \/ Holds(S, K.head)
      BY <2>4, <3>4
    <3> QED BY <1>4, <1>7, <3>3, <3>5, <3>6 DEF RecoveryRestarted
  <2>6. Apart(S, K.head) /\ block_of(S.head) # block_of(K.head)
    <3>1. Apart(K, K.head)
      BY <1>1, <1>7 DEF RecOK
    <3>2. block_of(S.head) = next_block(block_of(K.head)) /\ block_of(K.head) \in Blocks
      BY <1>1, <1>3, BlockBounds
    <3>3. block_of(S.head) # block_of(K.head)
      BY <3>2, NextBlockApart
    <3> QED BY <1>4, <3>1, <3>3 DEF Apart
  <2>7. o.bad = IF Holds(S, K.head) THEN bad ELSE bad \cup {block_of(K.head)}
    BY <2>2, <2>4
  <2> HIDE DEF R, hd, S, o
  <2>8. /\ QueueOK(R, entry, saved, o.bad) /\ EnumOK(R, entry, {})
        /\ Value(entry, R.root) = Value(entry, S.root)
        /\ Mapped(entry, R.root) = Mapped(entry, S.root)
    <3>1. S.recovery /\ is_aligned(S.head, ppb) /\ K.head \in Pages
      BY <1>1, <1>3, <1>4, <1>7
    <3> QED BY <1>6, <2>5, <2>6, <2>7, <3>1, RecoveryRestarts
  <2>9. R.recovery
    BY <2>5 DEF RecoveryRestarted
  <2> QED BY <1>4, <2>2, <2>8, <2>9 DEF Kept, o
<1>8. CASE ~K.recovery /\ is_aligned(K.head, ppb)
  <2> DEFINE o == recover_from(K)
  <2>1. o = [Outcome("RETRY", S) EXCEPT !.bad = @ \cup {block_of(K.head)}]
    BY <1>8 DEF recover_from
  <2>2. /\ o.err = "RETRY" /\ o.j = S /\ o.entry = entry /\ o.saved = saved
        /\ o.bad = bad \cup {block_of(K.head)}
    BY <2>1 DEF Outcome
  <2> HIDE DEF o, S
  <2>3. QueueOK(S, entry, saved, bad \cup {block_of(K.head)})
    BY <1>3, <1>6, <1>8, MarkedOK
  <2> QED BY <1>4, <1>8, <2>2, <2>3 DEF Kept, o
<1>9. CASE ~K.recovery /\ ~is_aligned(K.head, ppb)
  <2> DEFINE A == [start EXCEPT !.recovery = TRUE]
             o == recover_from(K)
  <2>1. r # PAGE_NONE /\ r \in UPages /\ (~is_aligned(K.head, ppc) => o.err = "RECOVER")
    BY <1>1, <1>9, PagesOf DEF can_fail
  <2>2. align_down(r, ppb) \in UPages
    BY <2>1, RecoverNext
  <2>3. /\ start \in QJournals /\ start.head = S.head /\ start.tail = S.tail
        /\ start.tail_sync = S.tail_sync /\ start.root = S.root
        /\ start.recover_root = r /\ start.recover_next = align_down(r, ppb)
        /\ start.recover_meta = S.recover_meta /\ start.bad_meta = S.bad_meta
        /\ start.enum_done = S.enum_done /\ start.dirty = S.dirty
        /\ start.recovery = S.recovery
    <3> HIDE DEF S, r
    <3> QED BY <1>4, <2>1, <2>2 DEF QJournals, Links
  <2> HIDE DEF start
  <2>4. /\ A \in QJournals /\ A.head = S.head /\ A.tail = S.tail
        /\ A.tail_sync = S.tail_sync /\ A.root = S.root
        /\ A.recover_root = r /\ A.recover_next = align_down(r, ppb)
        /\ A.recover_meta = S.recover_meta /\ A.bad_meta = S.bad_meta
        /\ A.enum_done = S.enum_done /\ A.dirty = S.dirty
        /\ A.recovery
    <3> HIDE DEF S, r
    <3> QED BY <2>3 DEF QJournals
  <2>5. RecoveryStarted(S, A)
    <3> HIDE DEF S, A
    <3> QED BY <1>4, <2>4 DEF RecoveryStarted
  <2> HIDE DEF A, S
  <2>6. QueueOK(A, entry, saved, bad) /\ EnumOK(A, entry, {})
    BY <1>3, <1>4, <1>6, <1>9, <2>1, <2>5, RecoveryStarts
  <2>7. CASE is_aligned(K.head, ppc)
    <3>1. o = Outcome("RECOVER", A)
      BY <1>9, <2>7 DEF recover_from, A, start, S
    <3> HIDE DEF o
    <3> QED BY <1>4, <2>4, <2>6, <3>1 DEF Kept, Outcome, o
  <2>8. CASE ~is_aligned(K.head, ppc)
    <3> DEFINE ready == prepare_head(start)
               P == [ready.j EXCEPT !.recovery = TRUE]
               h == ready.j.head
               n == next_upage(h)
               M == move_head(ready.j, n)
               dumped == [M EXCEPT !.recover_meta = h, !.recovery = TRUE]
               Q == [M EXCEPT !.recovery = TRUE]
               em == erased(h)
    <3>1. o = dump_meta(start)
      BY <1>9, <2>8 DEF recover_from, start, S
    <3>2. ready.err = "OK"
      <4> SUFFICES ASSUME ready.err # "OK" PROVE FALSE
        OBVIOUS
      <4>1. o = Outcome(ready.err, ready.j)
        BY <3>1 DEF dump_meta
      <4> HIDE DEF o, ready
      <4>2. o.err = ready.err
        BY <4>1 DEF Outcome
      <4>3. ready.err \in {"OK", "TOO_BAD", "JOURNAL_FULL"}
        BY <1>4, <1>6, <2>3, PreparedHead DEF RingOK, ready
      <4> QED BY <2>1, <2>8, <4>2, <4>3
    <3>3. o = [Outcome("RECOVER", dumped) EXCEPT !.entry = em]
      BY <3>1, <3>2 DEF dump_meta
    <3>4. o.err = "RECOVER" /\ o.j = dumped /\ o.entry = em /\ o.saved = saved /\ o.bad = bad
      <4> HIDE DEF o, dumped, em
      <4> QED BY <3>3 DEF Outcome
    <3> HIDE DEF o
    <3>5. Prepared(start, ready)
      BY <1>4, <1>6, <2>3, PreparedHead DEF RingOK
    <3> HIDE DEF ready
    <3>6. /\ ready.j \in QJournals /\ ready.j.tail = S.tail /\ ready.j.tail_sync = S.tail_sync
          /\ ready.j.root = S.root /\ ready.j.recover_root = r
          /\ ready.j.recover_next = align_down(r, ppb)
          /\ ready.j.recover_meta = S.recover_meta /\ ready.j.bad_meta = S.bad_meta
          /\ ready.j.enum_done = S.enum_done /\ ready.j.dirty
      BY <2>3, <3>2, <3>5 DEF Prepared, SameBut
    <3>7. /\ P \in QJournals /\ P.tail = S.tail /\ P.tail_sync = S.tail_sync
          /\ P.root = S.root /\ P.recover_root = r
          /\ P.recover_next = align_down(r, ppb)
          /\ P.recover_meta = S.recover_meta /\ P.bad_meta = S.bad_meta
          /\ P.enum_done = S.enum_done /\ P.dirty /\ P.recovery /\ P.head = h
      BY <3>6 DEF QJournals
    <3> HIDE DEF P
    <3>8. HeadMoved(A, P, bad)
      <4>1. SameBut(A, P)
        BY <2>4, <3>7 DEF SameBut
      <4>2. Onward(A.tail_sync, A.head, P.head) /\ (P.head = A.head \/ is_aligned(P.head, ppb))
        BY <2>3, <2>4, <3>5, <3>7 DEF Prepared
      <4> QED BY <3>7, <4>1, <4>2 DEF HeadMoved
    <3>9. QueueOK(P, entry, saved, bad) /\ EnumOK(P, entry, {})
      BY <2>6, <3>8, HeadOnward
    <3>10. Ready(P)
      <4>1. /\ Onward(start.tail_sync, h, n) /\ n # h
            /\ is_aligned(h, ppb) => block_of(h) \notin bad
        BY <3>2, <3>5 DEF Prepared
      <4> QED BY <2>3, <3>7, <4>1 DEF Ready
    <3>11. h \in UPages /\ n \in UPages /\ RingOK(P) /\ BadOK(P, entry, saved, bad)
           /\ RecOK(P, entry, bad)
      BY <3>6, <3>9, NextUPage DEF QJournals, QueueOK
    <3>12. em \in Entries /\ Spares(P, entry, em)
      <4>1. Filler \in PageRecords
        BY DEF Filler, PageRecords, NoAlts, Alts, Links
      <4>2. em \in Entries
        BY <1>1, <3>11, <4>1, ErasedEntries
      <4> QED BY <1>1, <3>7, <3>11, <4>2, ErasedSpares
    <3> HIDE DEF em
    <3>13. /\ QueueOK(P, em, saved, bad) /\ EnumOK(P, em, {})
           /\ Mapped(em, P.root) = Mapped(entry, P.root)
           /\ Value(em, P.root) = Value(entry, P.root)
           /\ Value(em, saved.root) = Value(entry, saved.root)
      BY <3>9, <3>10, <3>12, SparedOK DEF Ready
    <3>14. /\ M \in QJournals /\ M.tail = S.tail /\ M.tail_sync = S.tail_sync
           /\ M.root = S.root /\ M.recover_root = r
           /\ M.recover_next = align_down(r, ppb)
           /\ M.recover_meta = S.recover_meta /\ M.bad_meta = S.bad_meta
           /\ M.enum_done = S.enum_done /\ M.dirty /\ M.head = n
      <4>1. SameBut(ready.j, M) /\ M.head = n /\ M.dirty = ready.j.dirty
        BY <3>6, <3>11, HeadMoves
      <4> HIDE DEF M, n
      <4> QED BY <3>6, <4>1 DEF SameBut
    <3> HIDE DEF M
    <3>15. /\ Q \in QJournals /\ Q.tail = S.tail /\ Q.tail_sync = S.tail_sync
           /\ Q.root = S.root /\ Q.recover_root = r
           /\ Q.recover_next = align_down(r, ppb)
           /\ Q.recover_meta = S.recover_meta /\ Q.bad_meta = S.bad_meta
           /\ Q.enum_done = S.enum_done /\ Q.dirty /\ Q.recovery /\ Q.head = n
           /\ dumped \in QJournals /\ dumped.tail = S.tail /\ dumped.tail_sync = S.tail_sync
           /\ dumped.root = S.root /\ dumped.recover_root = r
           /\ dumped.recover_next = align_down(r, ppb)
           /\ dumped.recover_meta = h /\ dumped.bad_meta = S.bad_meta
           /\ dumped.enum_done = S.enum_done /\ dumped.recovery /\ dumped.head = n
      <4> HIDE DEF n, h
      <4> QED BY <3>11, <3>14 DEF QJournals, Links
    <3> HIDE DEF Q, dumped
    <3>16. HeadMoved(P, Q, bad)
      <4>1. /\ HeadMoved(P, move_head(P, next_upage(P.head)), bad)
            /\ move_head(P, next_upage(P.head)).head = next_upage(P.head)
        BY <3>10, <3>11, HeadToNext
      <4>2. SameBut(P, Q)
        BY <3>7, <3>15 DEF SameBut
      <4> QED BY <3>7, <3>15, <4>1, <4>2 DEF HeadMoved
    <3>17. QueueOK(Q, em, saved, bad) /\ EnumOK(Q, em, {})
      BY <3>13, <3>16, HeadOnward
    <3>18. Upto(Q.tail_sync, h, Q.head) /\ h # Q.head /\ Apart(Q, h)
      <4>1. Apart(P, h) /\ h \in Pages /\ P.tail_sync \in Pages
        BY <3>7, <3>11, PagesOf DEF RecOK
      <4>2. Onward(P.tail_sync, h, n) /\ n # h
        BY <3>7, <3>10 DEF Ready
      <4>3. Upto(P.tail_sync, h, n)
        BY <4>1, <4>2, OrderTrans DEF Onward
      <4> HIDE DEF h, n
      <4>4. Apart(Q, h)
        BY <3>7, <3>15, <4>1 DEF Apart
      <4> QED BY <3>7, <3>15, <4>2, <4>3, <4>4
    <3>19. ~S.bad_meta
      BY <1>1, <1>4, <1>9 DEF RecOK
    <3>20. QueueOK(dumped, em, saved, bad) /\ EnumOK(dumped, em, {})
      <4> HIDE DEF h, n, r
      <4> QED BY <3>15, <3>17, <3>18, <3>19, MetaDumped
    <3>21. dumped.root = K.root /\ P.root = K.root /\ dumped.recovery
      BY <1>4, <3>7, <3>15
    <3> QED BY <3>4, <3>13, <3>20, <3>21 DEF Kept, o
  <2> QED BY <2>7, <2>8
<1> QED BY <1>1, <1>7, <1>8, <1>9

\* recover_from returns an outcome.
LEMMA RecoverFromShape ==
  ASSUME NEW K
  PROVE  LET o == recover_from(K)
         IN  o = [err |-> o.err, j |-> o.j, entry |-> o.entry, saved |-> o.saved,
                  bad |-> o.bad, fails |-> o.fails]
<1> DEFINE Shape(o) == o = [err |-> o.err, j |-> o.j, entry |-> o.entry,
                            saved |-> o.saved, bad |-> o.bad, fails |-> o.fails]
<1>1. \A err, jj, x : /\ Shape(Outcome(err, jj))
                      /\ Shape([Outcome(err, jj) EXCEPT !.bad = x])
                      /\ Shape([Outcome(err, jj) EXCEPT !.entry = x])
  BY DEF Outcome
<1> HIDE DEF Shape
<1>2. \A jj, h : Shape(restart_recovery(jj, h))
  <2> SUFFICES ASSUME NEW jj, NEW h PROVE Shape(restart_recovery(jj, h))
    OBVIOUS
  <2> DEFINE R == [jj EXCEPT !.enum_done = FALSE,
                     !.bad_meta = @ \/ /\ jj.recover_meta # PAGE_NONE
                                       /\ align_eq(jj.recover_meta, h, ppb),
                     !.recover_next = align_down(jj.recover_root, ppb),
                     !.root = jj.recover_root]
  <2>1. \E x : restart_recovery(jj, h) = [Outcome("RECOVER", R) EXCEPT !.bad = x]
    BY Zenon DEF restart_recovery
  <2> HIDE DEF R
  <2>2. PICK x : restart_recovery(jj, h) = [Outcome("RECOVER", R) EXCEPT !.bad = x]
    BY <2>1, Zenon
  <2>3. Shape([Outcome("RECOVER", R) EXCEPT !.bad = x])
    BY <1>1, Zenon
  <2> QED BY <2>2, <2>3, Zenon
<1>3. \A jj : Shape(dump_meta(jj))
  <2> SUFFICES ASSUME NEW jj PROVE Shape(dump_meta(jj))
    OBVIOUS
  <2>1. \/ \E err, k : dump_meta(jj) = Outcome(err, k)
        \/ \E err, k, x : dump_meta(jj) = [Outcome(err, k) EXCEPT !.entry = x]
    BY Zenon DEF dump_meta
  <2>2. ASSUME NEW err, NEW k, dump_meta(jj) = Outcome(err, k) PROVE Shape(dump_meta(jj))
    BY <1>1, <2>2, Zenon
  <2>3. ASSUME NEW err, NEW k, NEW x, dump_meta(jj) = [Outcome(err, k) EXCEPT !.entry = x]
        PROVE  Shape(dump_meta(jj))
    <3>1. Shape([Outcome(err, k) EXCEPT !.entry = x])
      BY <1>1, Zenon
    <3> QED BY <2>3, <3>1, Zenon
  <2> QED BY <2>1, <2>2, <2>3, Zenon
<1>4. \/ \E err, k : recover_from(K) = Outcome(err, k)
      \/ \E err, k, x : recover_from(K) = [Outcome(err, k) EXCEPT !.bad = x]
      \/ \E k, h : recover_from(K) = restart_recovery(k, h)
      \/ \E k : recover_from(K) = dump_meta(k)
  BY Zenon DEF recover_from
<1>5. Shape(recover_from(K))
  <2>1. ASSUME NEW err, NEW k, recover_from(K) = Outcome(err, k)
        PROVE  Shape(recover_from(K))
    BY <1>1, <2>1, Zenon
  <2>2. ASSUME NEW err, NEW k, NEW x, recover_from(K) = [Outcome(err, k) EXCEPT !.bad = x]
        PROVE  Shape(recover_from(K))
    <3>1. Shape([Outcome(err, k) EXCEPT !.bad = x])
      BY <1>1, Zenon
    <3> QED BY <2>2, <3>1, Zenon
  <2>3. ASSUME NEW k, NEW h, recover_from(K) = restart_recovery(k, h)
        PROVE  Shape(recover_from(K))
    BY <1>2, <2>3, Zenon
  <2>4. ASSUME NEW k, recover_from(K) = dump_meta(k) PROVE Shape(recover_from(K))
    BY <1>3, <2>4, Zenon
  <2> QED BY <1>4, <2>1, <2>2, <2>3, <2>4, Zenon
<1> QED BY <1>5 DEF Shape

\* A page has been appended: what appending to the journal J leaves behind.
Done(J, o, gone, val, m) ==
  /\ QueueOK(o.j, o.entry, o.saved, o.bad) /\ EnumOK(o.j, o.entry, {})
  /\ Value(o.entry, o.j.root) = val /\ Mapped(o.entry, o.j.root) = m
  /\ Live(o.entry, o.j.root) \subseteq {o.j.root} \cup (Live(entry, J.root) \ gone)
  /\ \/ o.saved = saved /\ Value(o.entry, saved.root) = Value(entry, saved.root)
     \/ Value(o.entry, o.saved.root) = val
  /\ o.j.tail = J.tail
  /\ J.head # J.tail => o.j.root # J.tail
  /\ o.j.recovery => J.recovery

\* One attempt to append a page either has appended it or has kept the trees.
LEMMA AppendOK ==
  ASSUME num_blocks >= 2, NEW J, NEW gone, NEW e \in PageRecords, NEW val, NEW m,
         QueueOK(J, entry, saved, bad), EnumOK(J, entry, gone),
         Fits(entry, J.root, e, gone, val, m),
         J.recovery => val = Value(entry, J.root) /\ m = Mapped(entry, J.root),
         NEW cookie, cookie = Cardinality(m),
         NEW o \in append(J, e, cookie)
  PROVE  IF o.err = "OK" THEN Done(J, o, gone, val, m) ELSE Kept(J, o)
<1> DEFINE ready == prepare_head(J)  K == ready.j
           failed == [recover_from(K) EXCEPT !.fails = fails + 1]
<1>1. /\ J \in QJournals /\ RingOK(J) /\ ClearOf(J.tail_sync, J.head)
      /\ J.head \in Pages /\ J.tail_sync \in Pages /\ J.tail \in Pages
      /\ J.recovery \in BOOLEAN
  BY PagesOf DEF QueueOK, RingOK, QJournals
<1>2. Prepared(J, ready) /\ ready.err \in {"OK", "TOO_BAD", "JOURNAL_FULL"}
  BY <1>1, PreparedHead
<1>3. o \in (IF ready.err # "OK" THEN {Outcome(ready.err, ready.j)}
             ELSE {push_meta(ready.j, e, cookie)} \cup
                  (IF can_fail(ready.j) THEN {failed} ELSE {}))
  BY DEF append
<1> HIDE DEF ready
<1>4. QueueOK(K, entry, saved, bad) /\ EnumOK(K, entry, gone)
  <2>1. CASE K = J
    BY <2>1
  <2>2. CASE K.dirty
    <3>1. HeadMoved(J, K, bad)
      BY <1>2, <2>2 DEF Prepared, HeadMoved
    <3> QED BY <3>1, HeadOnward
  <2> QED BY <1>2, <2>1, <2>2 DEF Prepared
<1>5. /\ K \in QJournals /\ K.root = J.root /\ K.tail = J.tail
      /\ K.tail_sync = J.tail_sync /\ K.recovery = J.recovery /\ K.head \in Pages
  BY <1>2, PagesOf DEF Prepared, SameBut
<1>6. CASE ready.err # "OK"
  <2>1. o = Outcome(ready.err, K)
    BY <1>3, <1>6
  <2>2. /\ o.err = ready.err /\ o.j = K /\ o.entry = entry /\ o.saved = saved
        /\ o.bad = bad
    BY <2>1 DEF Outcome
  <2>3. o.err \in {"TOO_BAD", "JOURNAL_FULL"}
    BY <1>2, <1>6, <2>2
  <2> HIDE DEF K
  <2> QED BY <1>4, <1>5, <2>2, <2>3 DEF Kept
<1>7. CASE ready.err = "OK" /\ o = push_meta(K, e, cookie)
  <2>1. Ready(K)
    BY <1>2, <1>5, <1>7 DEF Prepared, Ready
  <2>2. o.err = "OK" /\ Appended(K, o, gone, val, m)
    <3> HIDE DEF K
    <3> QED BY <1>4, <1>5, <1>7, <2>1, PushOK
  <2>3. J.head # J.tail => K.head # J.tail
    <3> SUFFICES ASSUME J.head # J.tail, K.head = J.tail PROVE FALSE
      OBVIOUS
    <3>1. Upto(J.tail_sync, J.tail, J.head)
      BY <1>1 DEF RingOK
    <3>2. Before(J.tail_sync, J.tail, J.head)
      BY <1>1, <3>1, OrderTrans
    <3>3. Upto(J.tail_sync, J.head, K.head)
      BY <1>1, <1>2, OrderTrans DEF Prepared, Onward
    <3>4. Before(J.tail_sync, J.tail, K.head)
      BY <1>1, <1>5, <3>2, <3>3, OrderTrans
    <3> QED BY <1>1, <1>5, <3>4, OrderTrans
  <2> HIDE DEF K
  <2> QED BY <1>5, <2>2, <2>3 DEF Done, Appended
<1>8. CASE ready.err = "OK" /\ can_fail(K) /\ o = failed
  <2>1. K.dirty
    BY <1>2, <1>8 DEF Prepared
  <2>2. Kept(K, recover_from(K))
    <3> HIDE DEF K
    <3> QED BY <1>4, <1>8, <2>1, FailOK
  <2> DEFINE q == recover_from(K)
  <2>3. q = [err |-> q.err, j |-> q.j, entry |-> q.entry, saved |-> q.saved,
             bad |-> q.bad, fails |-> q.fails]
    BY RecoverFromShape
  <2> HIDE DEF q
  <2>4. o.err = q.err /\ o.j = q.j /\ o.entry = q.entry /\ o.saved = q.saved /\ o.bad = q.bad
    <3>1. o = [q EXCEPT !.fails = fails + 1]
      BY <1>8 DEF q
    <3> QED BY <2>3, <3>1
  <2>5. o.err # "OK" /\ Kept(J, o)
    <3> HIDE DEF K
    <3>1. Kept(K, q)
      BY <2>2 DEF q
    <3> QED BY <1>5, <2>4, <3>1 DEF Kept
  <2> QED BY <2>5
<1> QED BY <1>3, <1>6, <1>7, <1>8

-----------------------------------------------------------------------------
(* The tail moves                                                          *)

\* A tree without pages has no sectors.
LEMMA EmptyTree ==
  ASSUME NEW en, NEW r, Live(en, r) = {}
  PROVE  Mapped(en, r) = {} /\ Value(en, r) = [s \in Sectors |-> MISSING]
<1>1. Mapped(en, r) = {}
  BY DEF Live
<1>2. \A s \in Sectors : ~trace(en, r, s).ok
  BY <1>1 DEF Mapped
<1> QED BY <1>1, <1>2 DEF Value

\* A page on the way from one page to another of the same block is in the block.
LEMMA WithinBlock ==
  ASSUME NEW f \in Pages, NEW a \in Pages, NEW n \in Pages, NEW h \in Pages,
         block_of(a) = block_of(h), a <= h,
         Upto(f, a, n), Upto(f, n, h)
  PROVE  block_of(n) = block_of(a) /\ a <= n
<1>1. /\ ring_distance(f, a) <= ring_distance(f, n)
      /\ ring_distance(f, n) <= ring_distance(f, h)
  BY DEF Upto
<1>2. \A x \in {a, n, h} : ring_distance(f, x) = IF x >= f THEN x - f ELSE x + chip_size - f
  BY Distance
<1>3. /\ f \in Nat /\ a \in Nat /\ n \in Nat /\ h \in Nat /\ chip_size \in Nat
      /\ f < chip_size /\ a < chip_size /\ n < chip_size /\ h < chip_size
  BY Distance
<1>4. a <= n /\ n <= h
  BY <1>1, <1>2, <1>3
<1>5. block_start(a) = block_start(h) /\ h < block_start(h) + ppb
      /\ block_start(a) <= a /\ block_start(a) \in Nat /\ ppb \in Nat
  BY BlockBounds, SameBlock, Sizes
<1>6. block_start(a) <= n /\ n < block_start(a) + ppb
  BY <1>3, <1>4, <1>5
<1> QED BY <1>3, <1>4, <1>6, InBlock

\* The tail moves over pages that are not on the tree; the last-synced tail
\* stays.
TailMoved(J, K) ==
  /\ K \in QJournals
  /\ K.head = J.head /\ K.tail_sync = J.tail_sync /\ K.root = J.root
  /\ K.recover_root = J.recover_root /\ K.recover_next = J.recover_next
  /\ K.recover_meta = J.recover_meta
  /\ K.bad_meta = J.bad_meta /\ K.enum_done = J.enum_done
  /\ K.recovery = J.recovery /\ K.dirty = J.dirty

\* All stays when the tail moves in this way.
LEMMA TailForward ==
  ASSUME NEW J, NEW en, NEW sv, NEW bd, QueueOK(J, en, sv, bd), ~J.recovery,
         NEW K, TailMoved(J, K),
         Upto(J.tail_sync, K.tail, J.head),
         J.root # PAGE_NONE => Upto(J.tail_sync, K.tail, J.root),
         \A p \in Live(en, J.root) : Upto(J.tail_sync, K.tail, p)
  PROVE  QueueOK(K, en, sv, bd)
<1>1. /\ en \in Entries /\ RingOK(J) /\ TreeOK(J, en) /\ CleanOK(J, en, sv)
      /\ SavedOK(J, en, sv) /\ RecOK(J, en, bd) /\ BadOK(J, en, sv, bd)
  BY DEF QueueOK
<1>2. RingOK(K)
  BY <1>1 DEF RingOK, TailMoved
<1>3. TreeOK(K, en)
  BY <1>1 DEF TreeOK, Between, TailMoved
<1>4. SavedOK(K, en, sv)
  <2>1. Passed(J, sv.root) <=> Passed(K, sv.root)
    BY DEF Passed, TailMoved
  <2> QED BY <1>1, <2>1 DEF SavedOK, TailMoved
<1>5. CleanOK(K, en, sv)
  BY <1>1 DEF CleanOK, TailMoved
<1>6. BadOK(K, en, sv, bd)
  BY <1>1 DEF BadOK, TailMoved
<1>7. RecOK(K, en, bd)
  BY <1>1 DEF RecOK, TailMoved
<1> QED BY <1>1, <1>2, <1>3, <1>4, <1>5, <1>6, <1>7 DEF QueueOK

\* dhara_journal_peek moves over bad blocks, and nothing that is needed is on
\* those.
LEMMA PeekOK ==
  ASSUME NEW J, QueueOK(J, entry, saved, bad), ~J.recovery, J.head # J.tail
  PROVE  /\ QueueOK(peek(J), entry, saved, bad)
         /\ peek(J).root = J.root /\ peek(J).recovery = J.recovery
         /\ peek(J).dirty = J.dirty
<1> DEFINE looked(i) == (block_of(J.tail) + i) % num_blocks
           stops(i) == looked(i) = block_of(J.head) \/ looked(i) \notin bad
           found == {i \in 0 .. (MAX_RETRIES - 1) :
                       stops(i) /\ \A k \in 0 .. (i - 1) : ~stops(k)}
           c == CHOOSE i \in found : TRUE
           t == first_page(looked(c))
           K == [J EXCEPT !.tail = t]
<1>1. /\ J \in QJournals /\ J.head \in Pages /\ J.tail \in UPages /\ J.tail \in Pages
      /\ J.tail_sync \in Pages /\ entry \in Entries
      /\ RingOK(J) /\ TreeOK(J, entry) /\ BadOK(J, entry, saved, bad)
  BY PagesOf DEF QueueOK, RingOK, QJournals
<1>2. CASE ~is_aligned(J.tail, ppb) \/ found = {}
  <2>1. peek(J) = J
    BY <1>2 DEF peek
  <2> QED BY <2>1
<1>3. CASE is_aligned(J.tail, ppb) /\ found # {}
  <2>1. peek(J) = [J EXCEPT !.tail = t, !.root = IF t = J.head THEN PAGE_NONE ELSE @]
    BY <1>3 DEF peek
  <2>2. c \in found
    BY <1>3
  <2>3. c \in Nat /\ \A i \in 0 .. (c - 1) : looked(i) # block_of(J.head) /\ looked(i) \in bad
    <3> HIDE DEF c
    <3> QED BY <2>2, GeometryAssumption
  <2>4. looked(c) \in Blocks /\ Upto(J.tail, t, J.head)
    <3> HIDE DEF c
    <3> QED BY <1>1, <1>3, <2>3, PeekedTail
  <2>5. ASSUME NEW x \in UPages, block_of(x) \notin bad PROVE Upto(J.tail, t, x)
    <3>1. \A i \in 0 .. (c - 1) : looked(i) # block_of(x)
      BY <2>3, <2>5
    <3>2. x \in Pages
      BY PagesOf
    <3> HIDE DEF c
    <3> QED BY <1>1, <1>3, <2>3, <3>1, <3>2, PeekedTail
  <2> HIDE DEF c
  <2>6. t \in UPages /\ t \in Pages
    BY <2>4, FirstPage, PagesOf
  <2> HIDE DEF t
  <2>7. \A x \in Pages : Upto(J.tail_sync, J.tail, x) /\ Upto(J.tail, t, x) =>
                           Upto(J.tail_sync, t, x)
    BY <1>1, <2>6, TailMoves
  <2>8. Upto(J.tail_sync, t, J.head)
    BY <1>1, <2>4, <2>7 DEF RingOK
  <2>9. J.root # PAGE_NONE => Upto(J.tail_sync, t, J.root) /\ t # J.head
    <3> SUFFICES ASSUME J.root # PAGE_NONE
                 PROVE  Upto(J.tail_sync, t, J.root) /\ t # J.head
      OBVIOUS
    <3>1. J.root \in UPages /\ J.root \in Pages /\ block_of(J.root) \notin bad
      BY <1>1, PagesOf DEF BadOK
    <3>2. Upto(J.tail_sync, t, J.root)
      BY <1>1, <2>5, <2>7, <3>1 DEF RingOK
    <3>3. Before(J.tail_sync, J.root, J.head)
      BY <1>1 DEF RingOK
    <3> QED BY <1>1, <2>6, <3>1, <3>2, <3>3, OrderTrans
  <2>10. \A p \in Live(entry, J.root) : Upto(J.tail_sync, t, p)
    <3> SUFFICES ASSUME NEW p \in Live(entry, J.root) PROVE Upto(J.tail_sync, t, p)
      OBVIOUS
    <3>1. p \in UPages /\ p \in Pages
      BY <1>1, LiveCount, PagesOf DEF TreeOK, IsTree
    <3>2. block_of(p) \notin bad /\ Upto(J.tail_sync, J.tail, p)
      BY <1>1 DEF BadOK, TreeOK, Between
    <3> QED BY <2>5, <2>7, <3>1, <3>2
  <2>11. peek(J) = K
    <3>1. (IF t = J.head THEN PAGE_NONE ELSE J.root) = J.root
      BY <2>9
    <3> QED BY <1>1, <2>1, <3>1 DEF QJournals
  <2>12. TailMoved(J, K) /\ K.tail = t
    BY <1>1, <2>6 DEF TailMoved, QJournals
  <2> HIDE DEF K
  <2>13. QueueOK(K, entry, saved, bad)
    BY <2>8, <2>9, <2>10, <2>12, TailForward
  <2> QED BY <2>11, <2>12, <2>13 DEF TailMoved
<1> QED BY <1>2, <1>3

\* dhara_journal_dequeue leaves the tree as it is when the page it drops is not
\* on it.
LEMMA DequeueOK ==
  ASSUME NEW J, NEW en, NEW sv, NEW bd, QueueOK(J, en, sv, bd), ~J.recovery,
         J.tail \notin Live(en, J.root)
  PROVE  /\ QueueOK(dequeue(J), en, sv, bd)
         /\ Value(en, dequeue(J).root) = Value(en, J.root)
         /\ Mapped(en, dequeue(J).root) = Mapped(en, J.root)
         /\ dequeue(J).recovery = J.recovery
<1> DEFINE f == J.tail_sync  t == J.tail  h == J.head  r == J.root
           n == next_upage(t)  K == dequeue(J)
<1>1. /\ J \in QJournals /\ h \in Pages /\ t \in UPages /\ t \in Pages
      /\ h \in UPages /\ f \in UPages
      /\ f \in Pages /\ en \in Entries /\ n \in UPages /\ n \in Pages
      /\ RingOK(J) /\ TreeOK(J, en) /\ BadOK(J, en, sv, bd) /\ SavedOK(J, en, sv)
      /\ RecOK(J, en, bd) /\ CleanOK(J, en, sv)
  BY PagesOf, NextUPage DEF QueueOK, RingOK, QJournals
<1>2. CASE h = t
  BY <1>2 DEF dequeue
<1>3. CASE h # t
  <2>1. K = [J EXCEPT
              !.tail = n,
              !.tail_sync = IF J.dirty \/ J.recovery THEN @ ELSE n,
              !.root = IF @ # PAGE_NONE /\ ring_distance(@, h) > ring_distance(n, h)
                       THEN PAGE_NONE ELSE @]
    BY <1>3 DEF dequeue
  <2>2. /\ K \in QJournals /\ K.tail = n /\ K.head = h
        /\ K.tail_sync = (IF J.dirty THEN f ELSE n)
        /\ K.root = (IF r # PAGE_NONE /\ ring_distance(r, h) > ring_distance(n, h)
                     THEN PAGE_NONE ELSE r)
        /\ K.dirty = J.dirty /\ K.recovery = J.recovery
        /\ K.recover_root = J.recover_root /\ K.recover_meta = J.recover_meta
        /\ K.bad_meta = J.bad_meta /\ K.enum_done = J.enum_done
    <3> HIDE DEF n
    <3>1. (IF J.dirty \/ J.recovery THEN f ELSE n) = (IF J.dirty THEN f ELSE n)
      OBVIOUS
    <3>2. (IF J.dirty THEN f ELSE n) \in UPages
      BY <1>1
    <3>3. (IF r # PAGE_NONE /\ ring_distance(r, h) > ring_distance(n, h)
           THEN PAGE_NONE ELSE r) \in Links
      BY <1>1 DEF QJournals, Links
    <3> HIDE DEF K
    <3> QED BY <1>1, <2>1, <3>1, <3>2, <3>3 DEF QJournals
  <2> HIDE DEF K
  <2>3. ClearOf(f, h) /\ Upto(f, t, h) /\ Upto(f, n, h) /\ Before(f, t, n)
    BY <1>1, <1>3, NextUser DEF RingOK
  <2>4. ASSUME NEW x \in UPages, Upto(f, t, x), x # t PROVE Upto(f, n, x)
    BY <1>1, <2>4, NextUser
  <2>5. r # PAGE_NONE => r \in UPages /\ r \in Pages /\ Before(f, r, h) /\ Upto(f, r, h)
                         /\ Upto(f, t, r)
    BY <1>1, PagesOf, OrderTrans DEF RingOK
  <2>6. ASSUME NEW p \in Live(en, r)
        PROVE  /\ p \in UPages /\ p \in Pages /\ r # PAGE_NONE
               /\ Upto(f, n, p) /\ Upto(f, p, r) /\ Upto(f, n, r)
    <3>1. p \in UPages /\ p \in Pages /\ r # PAGE_NONE
      BY <1>1, LiveCount, PagesOf, PageNone, NoTree DEF TreeOK, IsTree, Links
    <3>2. Upto(f, t, p) /\ Upto(f, p, r) /\ p # t
      BY <1>1 DEF TreeOK, Between
    <3>3. Upto(f, n, p)
      BY <2>4, <3>1, <3>2
    <3> QED BY <1>1, <2>5, <3>1, <3>2, <3>3, OrderTrans
  <2>7. r # PAGE_NONE => (K.root = r <=> Upto(f, n, r))
    <3> SUFFICES ASSUME r # PAGE_NONE PROVE K.root = r <=> Upto(f, n, r)
      OBVIOUS
    <3>1. /\ ring_distance(r, h) = ring_distance(f, h) - ring_distance(f, r)
          /\ ring_distance(n, h) = ring_distance(f, h) - ring_distance(f, n)
      BY <1>1, <2>3, <2>5, DistanceTo
    <3>2. ring_distance(f, h) \in Nat /\ ring_distance(f, r) \in Nat /\ ring_distance(f, n) \in Nat
      BY <1>1, <2>5, Distance
    <3>3. ring_distance(r, h) > ring_distance(n, h) <=> ~Upto(f, n, r)
      BY <3>1, <3>2 DEF Upto
    <3> QED BY <2>2, <3>3
  <2>8. K.root # r => K.root = PAGE_NONE /\ Live(en, r) = {}
    BY <2>2, <2>6, <2>7
  <2>9. /\ Live(en, K.root) = Live(en, r) /\ Value(en, K.root) = Value(en, r)
        /\ Mapped(en, K.root) = Mapped(en, r) /\ IsTree(en, K.root)
    <3>1. CASE K.root = r
      BY <1>1, <3>1 DEF TreeOK
    <3>2. CASE K.root # r
      <4>1. K.root \in Links /\ K.root \notin UPages
        BY <2>8, <3>2, PageNone DEF Links
      <4> QED BY <1>1, <2>8, <3>2, <4>1, NoTree, EmptyTree
    <3> QED BY <3>1, <3>2
  <2> DEFINE g == K.tail_sync
  <2>10. /\ g \in Pages /\ ClearOf(g, h) /\ Upto(g, n, h)
         /\ K.root # PAGE_NONE => K.root = r /\ Before(g, r, h) /\ Upto(g, n, r)
         /\ \A p \in Live(en, r) : Upto(g, n, p) /\ Upto(g, p, r)
    <3>1. K.root # PAGE_NONE => K.root = r /\ Upto(f, n, r)
      BY <2>2, <2>7, <2>8
    <3>2. CASE g = f
      BY <1>1, <2>3, <2>5, <2>6, <3>1, <3>2
    <3>3. CASE g = n
      BY <1>1, <2>3, <2>5, <2>6, <3>1, <3>3, ClearTail, TailMoves, OrderTrans
    <3> QED BY <2>2, <3>2, <3>3
  <2>11. RingOK(K)
    BY <2>2, <2>10 DEF RingOK
  <2>12. TreeOK(K, en)
    <3>1. \A p \in Live(en, r) : K.root = r
      BY <2>8
    <3> QED BY <2>2, <2>9, <2>10, <3>1 DEF TreeOK, Between
  <2>13. SavedOK(K, en, sv)
    <3>1. CASE J.dirty
      <4>1. K.tail_sync = f
        BY <2>2, <3>1
      <4>2. Passed(J, sv.root) <=> Passed(K, sv.root)
        BY <4>1 DEF Passed
      <4> QED BY <1>1, <2>2, <4>1, <4>2 DEF SavedOK
    <3>2. CASE ~J.dirty /\ sv.root = PAGE_NONE
      BY <1>1, <3>2 DEF SavedOK
    <3>3. CASE ~J.dirty /\ sv.root # PAGE_NONE
      <4> DEFINE sr == sv.root
      <4>1. /\ K.tail_sync = n /\ sr \in UPages /\ sr \in Pages /\ sr \in Nat
            /\ is_aligned(sr + 2, ppc)
        BY <1>1, <2>2, <3>3, PagesOf, BlockBounds DEF SavedOK, Checkpoints, Links
      <4>2. /\ r = sr \/ (r = PAGE_NONE /\ Live(en, sr) = {})
            /\ IF Ends(sr) THEN h = first_page(next_block(block_of(sr)))
               ELSE block_of(h) = block_of(sr) /\ sr < h
        BY <1>1, <3>3 DEF CleanOK
      <4>3. \A p \in Live(en, sr) : Upto(n, p, sr)
        BY <2>10, <4>1, <4>2
      <4>4. Live(en, sr) # {} => Before(n, sr, h)
        <5> SUFFICES ASSUME Live(en, sr) # {} PROVE Before(n, sr, h)
          OBVIOUS
        <5>1. r = sr /\ K.root = r
          BY <2>8, <4>2
        <5>2. K.root # PAGE_NONE
          BY <3>3, <5>1
        <5> QED BY <2>10, <4>1, <5>1, <5>2
      <4>5. ASSUME Before(f, sr, h) PROVE Before(n, sr, h) \/ Passed(K, sr)
        <5>1. CASE Upto(f, n, sr)
          BY <1>1, <4>1, <4>5, <5>1, TailMoves
        <5>2. CASE Before(f, sr, n) /\ Ends(sr)
          <6>1. h = next_upage(sr)
            BY <4>1, <4>2, <5>2, AfterPage
          <6>2. sr # n /\ Upto(f, sr, n)
            BY <1>1, <4>1, <5>2, OrderTrans
          <6>3. Upto(f, h, n)
            BY <1>1, <4>1, <6>1, <6>2, NextUser
          <6>4. n = h
            BY <1>1, <2>3, <6>3, OrderTrans
          <6> QED BY <4>1, <4>2, <5>2, <6>4 DEF Passed
        <5>3. CASE Before(f, sr, n) /\ ~Ends(sr)
          <6>1. Upto(f, sr, n) /\ sr # n
            BY <1>1, <4>1, <5>3, OrderTrans
          <6>2. block_of(n) = block_of(sr) /\ sr <= n
            <7>1. block_of(sr) = block_of(h) /\ sr <= h
              BY <1>1, <4>1, <4>2, <5>3, BlockBounds
            <7> QED BY <1>1, <2>3, <4>1, <6>1, <7>1, WithinBlock
          <6>3. sr < n
            BY <1>1, <4>1, <6>1, <6>2, BlockBounds
          <6> QED BY <4>1, <6>2, <6>3 DEF Passed
        <5> QED BY <1>1, <4>1, <5>1, <5>2, <5>3, OrderTrans
      <4>6. ASSUME block_of(f) = block_of(sr), sr < f PROVE Passed(K, sr)
        <5>1. ~Ends(sr)
          <6> SUFFICES ASSUME Ends(sr) PROVE FALSE
            OBVIOUS
          <6>1. f < block_start(f) + ppb /\ block_start(f) = block_start(sr) /\ f \in Nat
            BY <1>1, <4>1, <4>6, BlockBounds, SameBlock
          <6>2. f < sr + 2
            BY <6>1 DEF Ends
          <6>3. f + 1 = sr + 2
            BY <4>1, <4>6, <6>1, <6>2
          <6> QED BY <1>1, <4>1, <6>3 DEF UPages
        <5>2. block_of(f) = block_of(h) /\ f <= h /\ Upto(f, f, n)
          BY <1>1, <2>3, <4>2, <4>6, <5>1, OrderTrans DEF ClearOf
        <5>3. block_of(n) = block_of(f) /\ f <= n
          BY <1>1, <2>3, <5>2, WithinBlock
        <5>4. sr < n
          BY <1>1, <4>1, <4>6, <5>3, BlockBounds
        <5> QED BY <4>1, <4>6, <5>3, <5>4 DEF Passed
      <4>7. ASSUME Ends(sr), f = first_page(next_block(block_of(sr))) PROVE FALSE
        <5>1. f = h
          BY <4>2, <4>7
        <5>2. t = h
          BY <1>1, <2>3, <5>1, OrderTrans
        <5> QED BY <1>3, <5>2
      <4>8. Before(n, sr, h) \/ Passed(K, sr)
        <5>1. Before(f, sr, h) \/ Passed(J, sr)
          BY <1>1, <3>3 DEF SavedOK
        <5> QED BY <4>5, <4>6, <4>7, <5>1 DEF Passed
      <4> HIDE DEF n
      <4> QED BY <1>1, <2>2, <4>1, <4>3, <4>4, <4>8 DEF SavedOK
    <3> QED BY <3>1, <3>2, <3>3
  <2>14. CleanOK(K, en, sv)
    BY <1>1, <2>2, <2>8, <2>9 DEF CleanOK
  <2>15. BadOK(K, en, sv, bd)
    BY <1>1, <2>2, <2>8, <2>9 DEF BadOK
  <2>16. RecOK(K, en, bd)
    BY <1>1, <2>2 DEF RecOK
  <2>17. QueueOK(K, en, sv, bd)
    BY <1>1, <2>11, <2>12, <2>13, <2>14, <2>15, <2>16 DEF QueueOK
  <2> QED BY <2>2, <2>9, <2>17 DEF K
<1> QED BY <1>2, <1>3

\* dhara_journal_clear leaves no tree.
LEMMA ClearOK ==
  ASSUME NEW J, NEW en, NEW sv, NEW bd, QueueOK(J, en, sv, bd), ~J.recovery
  PROVE  LET K == dhara_journal_clear(J)
         IN  /\ QueueOK(K, en, sv, bd) /\ ~K.recovery
             /\ Mapped(en, K.root) = {}
             /\ Value(en, K.root) = [s \in Sectors |-> MISSING]
<1> DEFINE K == dhara_journal_clear(J)
<1>1. /\ J \in QJournals /\ J.head \in Pages /\ J.tail_sync \in Pages
      /\ en \in Entries /\ RingOK(J) /\ SavedOK(J, en, sv) /\ RecOK(J, en, bd)
      /\ BadOK(J, en, sv, bd)
  BY PagesOf DEF QueueOK, RingOK
<1>2. /\ K \in QJournals /\ K.head = J.head /\ K.tail = J.head /\ K.tail_sync = J.tail_sync
      /\ K.root = PAGE_NONE /\ K.dirty /\ K.recovery = J.recovery
      /\ K.recover_root = J.recover_root /\ K.recover_meta = J.recover_meta
      /\ K.bad_meta = J.bad_meta /\ K.enum_done = J.enum_done
  BY <1>1 DEF dhara_journal_clear, QJournals, Links
<1> HIDE DEF K
<1>3. /\ IsTree(en, PAGE_NONE) /\ Mapped(en, PAGE_NONE) = {} /\ Live(en, PAGE_NONE) = {}
      /\ Value(en, PAGE_NONE) = [s \in Sectors |-> MISSING]
  BY <1>1, PageNone, NoTree DEF Links
<1>4. RingOK(K)
  BY <1>1, <1>2, OrderTrans DEF RingOK
<1>5. TreeOK(K, en)
  BY <1>2, <1>3 DEF TreeOK, Between
<1>6. SavedOK(K, en, sv)
  <2>1. Passed(J, sv.root) <=> Passed(K, sv.root)
    BY <1>2 DEF Passed
  <2> QED BY <1>1, <1>2, <2>1 DEF SavedOK
<1>7. CleanOK(K, en, sv)
  BY <1>2 DEF CleanOK
<1>8. BadOK(K, en, sv, bd)
  BY <1>1, <1>2, <1>3 DEF BadOK
<1>9. RecOK(K, en, bd)
  BY <1>1, <1>2 DEF RecOK
<1> QED BY <1>1, <1>2, <1>3, <1>4, <1>5, <1>6, <1>7, <1>8, <1>9 DEF QueueOK, K

\* dhara_journal_next_recoverable goes on to the next page of the failed block.
LEMMA EnumerateOK ==
  ASSUME NEW J, NEW en, NEW sv, NEW bd, QueueOK(J, en, sv, bd), EnumOK(J, en, {}),
         J.recovery, ~J.enum_done
  PROVE  LET K == next_recoverable(J)
         IN  /\ QueueOK(K, en, sv, bd) /\ EnumOK(K, en, {J.recover_next})
             /\ K.root = J.root /\ K.recovery
<1> DEFINE K == next_recoverable(J)  r == J.recover_root  x == J.recover_next
<1>1. /\ J \in QJournals /\ en \in Entries /\ RingOK(J) /\ TreeOK(J, en)
      /\ SavedOK(J, en, sv) /\ RecOK(J, en, bd) /\ BadOK(J, en, sv, bd)
  BY DEF QueueOK, RingOK
<1>2. /\ r \in UPages /\ x \in UPages /\ r \in Pages /\ x \in Pages
      /\ block_of(x) = block_of(r) /\ x <= r /\ x \in Nat /\ r \in Nat
      /\ next_upage(x) \in UPages /\ next_upage(x) \in Pages
  BY <1>1, PagesOf, BlockBounds, NextUPage DEF RecOK
<1>3. ASSUME NEW p \in UPages, x <= p, x # p
      PROVE  x < next_upage(x) /\ next_upage(x) <= p
  <2>1. p \in Pages /\ Upto(x, x, p)
    BY <1>2, PagesOf, OrderTrans
  <2>2. Upto(x, next_upage(x), p)
    BY <1>2, <1>3, <2>1, NextUser
  <2>3. Before(x, x, next_upage(x))
    BY <1>2, <1>3, <2>1, NextUser
  <2> QED BY <1>2, <1>3, <2>1, <2>2, <2>3, Distance DEF Upto, Before
<1>4. x # r => /\ block_of(next_upage(x)) = block_of(r) /\ next_upage(x) <= r
  <2> SUFFICES ASSUME x # r
               PROVE  block_of(next_upage(x)) = block_of(r) /\ next_upage(x) <= r
    OBVIOUS
  <2>1. x < next_upage(x) /\ next_upage(x) <= r
    BY <1>2, <1>3
  <2>2. block_start(x) <= x /\ block_start(x) = block_start(r) /\ r < block_start(r) + ppb
        /\ block_start(x) \in Nat /\ ppb \in Nat /\ next_upage(x) \in Nat
    BY <1>2, BlockBounds, SameBlock, Sizes
  <2>3. block_start(x) <= next_upage(x) /\ next_upage(x) < block_start(x) + ppb
    BY <1>2, <2>1, <2>2
  <2> QED BY <1>2, <2>1, <2>2, <2>3, InBlock
<1>5. /\ K \in QJournals /\ K.head = J.head /\ K.tail = J.tail /\ K.tail_sync = J.tail_sync
      /\ K.root = J.root /\ K.recovery = J.recovery
      /\ K.recover_root = r /\ K.recover_meta = J.recover_meta
      /\ K.bad_meta = J.bad_meta
      /\ K.recover_next = (IF x = r THEN x ELSE next_upage(x))
      /\ (x = r) => K.enum_done
      /\ (x # r) => K.enum_done = J.enum_done
  BY <1>1, <1>2 DEF next_recoverable, QJournals, Links
<1> HIDE DEF K
<1>6. RingOK(K)
  BY <1>1, <1>5 DEF RingOK
<1>7. TreeOK(K, en)
  BY <1>1, <1>5 DEF TreeOK, Between
<1>8. SavedOK(K, en, sv)
  <2>1. Passed(J, sv.root) <=> Passed(K, sv.root)
    BY <1>5 DEF Passed
  <2> QED BY <1>1, <1>5, <2>1 DEF SavedOK
<1>9. CleanOK(K, en, sv)
  BY <1>5 DEF CleanOK
<1>10. BadOK(K, en, sv, bd)
  BY <1>1, <1>5 DEF BadOK
<1>11. RecOK(K, en, bd)
  <2>1. \A y : Apart(K, y) <=> Apart(J, y)
    BY <1>5 DEF Apart
  <2>2. Between(K, en, K.tail, r)
    BY <1>1, <1>5 DEF RecOK, Between
  <2>3. K.recover_next \in UPages /\ block_of(K.recover_next) = block_of(r) /\ K.recover_next <= r
    BY <1>2, <1>4, <1>5
  <2>4. RecOK(J, en, bd)
    BY <1>1
  <2> HIDE DEF x
  <2> QED BY <1>1, <1>5, <2>1, <2>2, <2>3, <2>4 DEF RecOK
<1>12. EnumOK(K, en, {x})
  <2> SUFFICES ASSUME NEW p \in Live(en, J.root), p # x, block_of(p) = block_of(r)
               PROVE  ~K.enum_done /\ K.recover_next <= p /\ p <= r
    BY <1>5 DEF EnumOK
  <2>1. p \in UPages
    BY <1>1, LiveCount DEF TreeOK, IsTree
  <2>2. ~J.enum_done /\ x <= p /\ p <= r
    BY DEF EnumOK
  <2>3. p \in Nat
    BY <2>1, PagesOf, BlockBounds
  <2>4. x # r
    BY <1>2, <2>2, <2>3
  <2> QED BY <1>3, <1>5, <2>1, <2>2, <2>4
<1>13. QueueOK(K, en, sv, bd)
  BY <1>1, <1>6, <1>7, <1>8, <1>9, <1>10, <1>11 DEF QueueOK
<1> QED BY <1>5, <1>12, <1>13 DEF K

-----------------------------------------------------------------------------
(* What is appended                                                        *)

\* A page is current when it is on the tree.
LEMMA CurrentIsLive ==
  ASSUME entry \in Entries, NEW jj, IsTree(entry, jj.root), NEW p \in UPages
  PROVE  current(jj, p) <=> p \in Live(entry, jj.root)
<1> DEFINE s == entry[p].id
<1>1. current(jj, p) <=> s # SECTOR_NONE /\ trace(entry, jj.root, s).ok
                         /\ trace(entry, jj.root, s).p = p
  BY TracePath DEF current
<1>2. s \in Sectors \cup {SECTOR_NONE}
  BY DEF Entries
<1>3. ASSUME current(jj, p) PROVE p \in Live(entry, jj.root)
  BY <1>1, <1>2, <1>3 DEF Live, Mapped
<1>4. ASSUME p \in Live(entry, jj.root) PROVE current(jj, p)
  <2>1. PICK c \in Mapped(entry, jj.root) : p = trace(entry, jj.root, c).p
    BY <1>4 DEF Live
  <2>2. c \in Sectors /\ s = c
    BY <2>1, MappedPage DEF IsTree
  <2>3. trace(entry, jj.root, c).ok /\ s # SECTOR_NONE
    BY <2>1, <2>2, MapAssumption DEF Mapped
  <2> QED BY <1>1, <2>1, <2>2, <2>3
<1> QED BY <1>3, <1>4

\* A page with the path of its sector.
LEMMA FitsWrite ==
  ASSUME entry \in Entries, NEW r, IsTree(entry, r), NEW e \in PageRecords,
         e.id \in Sectors, e.alt = trace(entry, r, e.id).alt
  PROVE  Fits(entry, r, e, {}, [Value(entry, r) EXCEPT ![e.id] = e.data],
              Mapped(entry, r) \cup {e.id})
<1> SUFFICES ASSUME NEW em \in Entries, NEW n \in UPages,
                    Same(entry, em, Nodes(entry, r)), em[n] = e
             PROVE  /\ IsTree(em, n)
                    /\ Value(em, n) = [Value(entry, r) EXCEPT ![e.id] = e.data]
                    /\ Mapped(em, n) = Mapped(entry, r) \cup {e.id}
                    /\ Live(em, n) \subseteq {n} \cup (Live(entry, r) \ {})
  BY DEF Fits
<1>1. em[n].id = e.id /\ em[n].alt = trace(entry, r, e.id).alt /\ em[n].data = e.data
  OBVIOUS
<1> DEFINE c == e.id
<1> HIDE DEF c
<1>2. c \in Sectors /\ em[n].id = c /\ em[n].alt = trace(entry, r, c).alt
  BY <1>1 DEF c
<1>3. /\ IsTree(em, n)
      /\ Mapped(em, n) = Mapped(entry, r) \cup {c}
      /\ Live(em, n) \subseteq {n} \cup {q \in Live(entry, r) : entry[q].id # c}
      /\ Value(em, n) = [Value(entry, r) EXCEPT ![c] = em[n].data]
  BY <1>2, Rewrite
<1> QED BY <1>1, <1>3 DEF c

\* A page of the tree, copied with a path of today.
LEMMA FitsRewritten ==
  ASSUME entry \in Entries, NEW r, IsTree(entry, r), NEW p \in Live(entry, r),
         NEW e, e = [entry[p] EXCEPT !.alt = trace(entry, r, entry[p].id).alt]
  PROVE  /\ e \in PageRecords
         /\ Fits(entry, r, e, {p}, Value(entry, r), Mapped(entry, r))
<1> DEFINE c == entry[p].id
<1>1. PICK d \in Mapped(entry, r) : p = trace(entry, r, d).p
  BY DEF Live
<1>2. d \in Sectors /\ c = d /\ p \in UPages
  BY <1>1, MappedPage DEF IsTree
<1>3. c \in Sectors /\ c \in Mapped(entry, r) /\ trace(entry, r, c).p = p
      /\ trace(entry, r, c).ok
  BY <1>1, <1>2 DEF Mapped
<1>4. entry[p] \in PageRecords
  BY <1>2 DEF Entries, PageRecords
<1>5. trace(entry, r, c).alt \in Alts
  <2>1. trace(entry, r, c) = walk(entry, r, c)[DEPTH] /\ DEPTH \in 0 .. DEPTH
    BY MapAssumption DEF trace
  <2>2. walk(entry, r, c)[DEPTH] \in Points
    BY <2>1, WalkTyped DEF IsTree, Walkable
  <2> QED BY <2>1, <2>2 DEF Points
<1>6. e \in PageRecords /\ e.id = c /\ e.alt = trace(entry, r, c).alt /\ e.data = entry[p].data
  BY <1>4, <1>5 DEF PageRecords
<1>7. [Value(entry, r) EXCEPT ![c] = e.data] = Value(entry, r)
  <2>1. Value(entry, r)[c] = e.data
    BY <1>3, <1>6 DEF Value
  <2> QED BY <1>3, <2>1 DEF Value
<1>8. Mapped(entry, r) \cup {c} = Mapped(entry, r)
  BY <1>3
<1> HIDE DEF c
<1>9. ASSUME NEW em \in Entries, NEW n \in UPages,
             Same(entry, em, Nodes(entry, r)), em[n] = e
      PROVE  /\ IsTree(em, n) /\ Value(em, n) = Value(entry, r)
             /\ Mapped(em, n) = Mapped(entry, r)
             /\ Live(em, n) \subseteq {n} \cup (Live(entry, r) \ {p})
  <2>1. em[n].id = c /\ em[n].alt = trace(entry, r, c).alt /\ em[n].data = e.data
    BY <1>6, <1>9
  <2>2. /\ IsTree(em, n)
        /\ Mapped(em, n) = Mapped(entry, r) \cup {c}
        /\ Live(em, n) \subseteq {n} \cup {q \in Live(entry, r) : entry[q].id # c}
        /\ Value(em, n) = [Value(entry, r) EXCEPT ![c] = em[n].data]
    <3>1. em \in Entries /\ n \in UPages /\ Same(entry, em, Nodes(entry, r))
      BY <1>9
    <3>2. c \in Sectors /\ em[n].id = c /\ em[n].alt = trace(entry, r, c).alt
      BY <1>3, <2>1
    <3> QED BY <3>1, <3>2, Rewrite
  <2>3. entry[p].id = c
    BY DEF c
  <2> QED BY <1>7, <1>8, <2>1, <2>2, <2>3
<1> QED BY <1>6, <1>9 DEF Fits

\* What pad_queue appends.
LEMMA FitsPadding ==
  ASSUME entry \in Entries, NEW r, IsTree(entry, r),
         NEW e, e = IF r = PAGE_NONE THEN Filler ELSE entry[r]
  PROVE  /\ e \in PageRecords
         /\ Fits(entry, r, e, {}, Value(entry, r), Mapped(entry, r))
<1>1. r \in Links
  BY DEF IsTree, Walkable
<1>2. Filler \in PageRecords /\ Filler.id = SECTOR_NONE
  BY DEF Filler, PageRecords, NoAlts, Alts, Links
<1> HIDE DEF Filler
<1>3. r \in UPages => entry[r] \in PageRecords /\ r # PAGE_NONE
  BY PageNone DEF Entries, PageRecords
<1>4. CASE e.id = SECTOR_NONE
  <2>1. r \in UPages => entry[r].id = SECTOR_NONE
    BY <1>3, <1>4
  <2>2. e \in PageRecords
    BY <1>1, <1>2, <1>3 DEF Links
  <2>3. Mapped(entry, r) = {} /\ Value(entry, r) = [s \in Sectors |-> MISSING]
    BY <1>1, <2>1, NoTree
  <2>4. ASSUME NEW em \in Entries, NEW n \in UPages, em[n] = e
        PROVE  /\ IsTree(em, n) /\ Value(em, n) = Value(entry, r)
               /\ Mapped(em, n) = Mapped(entry, r) /\ Live(em, n) = {}
    <3>1. n \in Links /\ em[n].id = SECTOR_NONE
      BY <1>4, <2>4 DEF Links
    <3> QED BY <2>3, <3>1, NoTree
  <2> QED BY <2>2, <2>4 DEF Fits
<1>5. CASE e.id # SECTOR_NONE
  <2>1. r \in UPages /\ e = entry[r]
    BY <1>1, <1>2, <1>5, PageNone DEF Links
  <2> DEFINE c == entry[r].id
  <2>2. /\ c \in Mapped(entry, r) /\ trace(entry, r, c).p = r
        /\ entry[r].alt = trace(entry, r, c).alt
    BY <1>5, <2>1, OwnRoot
  <2>3. c \in Sectors /\ trace(entry, r, c).ok
    BY <2>2 DEF Mapped
  <2>4. [Value(entry, r) EXCEPT ![c] = e.data] = Value(entry, r)
    <3>1. Value(entry, r)[c] = e.data
      BY <2>1, <2>2, <2>3 DEF Value
    <3> QED BY <2>3, <3>1 DEF Value
  <2>5. Mapped(entry, r) \cup {c} = Mapped(entry, r)
    BY <2>2
  <2>6. e.id = c /\ e.id \in Sectors /\ e.alt = trace(entry, r, e.id).alt /\ e \in PageRecords
    BY <1>3, <2>1, <2>2, <2>3
  <2>7. Fits(entry, r, e, {}, [Value(entry, r) EXCEPT ![e.id] = e.data],
             Mapped(entry, r) \cup {e.id})
    BY <2>6, FitsWrite
  <2> HIDE DEF c
  <2> QED BY <2>4, <2>5, <2>6, <2>7
<1> QED BY <1>4, <1>5

\* A set of levels has a deepest one.
LEMMA Deepest ==
  ASSUME NEW L \in SUBSET Levels, L # {}
  PROVE  \E l \in L : \A k \in L : k <= l
<1> DEFINE T == {n \in Nat : \A M \in SUBSET (0 .. n) :
                               M # {} => \E l \in M : \A k \in M : k <= l}
<1>1. 0 \in T
  <2>1. ASSUME NEW M \in SUBSET (0 .. 0), M # {} PROVE \E l \in M : \A k \in M : k <= l
    <3>1. PICK l : l \in M
      BY <2>1
    <3>2. \A k \in M : k \in 0 .. 0
      BY <2>1
    <3>3. \A k \in M : k <= l
      BY <3>1, <3>2
    <3> QED BY <3>1, <3>3
  <2> QED BY <2>1
<1>2. ASSUME NEW n \in T PROVE n + 1 \in T
  <2>1. n \in Nat /\ n + 1 \in Nat
    OBVIOUS
  <2>2. ASSUME NEW M \in SUBSET (0 .. (n + 1)), M # {}
        PROVE  \E l \in M : \A k \in M : k <= l
    <3>1. CASE n + 1 \in M
      <4>1. \A k \in M : k <= n + 1
        BY <2>1
      <4> QED BY <3>1, <4>1
    <3>2. CASE n + 1 \notin M
      <4>1. M \in SUBSET (0 .. n)
        BY <2>1, <3>2
      <4> QED BY <1>2, <2>2, <4>1
    <3> QED BY <3>1, <3>2
  <2> QED BY <2>1, <2>2
<1>3. T = Nat
  <2> HIDE DEF T
  <2>1. T \in SUBSET Nat
    BY DEF T
  <2> QED BY <1>1, <1>2, <2>1, SetInduction
<1>4. DEPTH \in Nat /\ L \in SUBSET (0 .. DEPTH)
  BY MapAssumption DEF Levels
<1>5. DEPTH \in T
  BY <1>3, <1>4
<1> QED BY <1>4, <1>5

\* Page e is page p on the path ta above a level, its own below it, and on no
\* page there.
Rerouted(e, p, ta, level) ==
  /\ e.id = p.id /\ e.data = p.data
  /\ \A l \in Levels : e.alt[l] = IF l < level THEN ta[l]
                                  ELSE IF l = level THEN PAGE_NONE
                                  ELSE p.alt[l]
EndsAt(ta, level) ==
  ta[level] # PAGE_NONE /\ \A k \in Levels : k > level => ta[k] = PAGE_NONE

\* Unmap with the new page as a record of its own.
LEMMA UnmapBy ==
  ASSUME NEW en \in Entries, NEW em \in Entries, NEW r, IsTree(en, r),
         Same(en, em, Nodes(en, r)),
         NEW dst \in Mapped(en, r), NEW level \in Levels,
         NEW ta, ta = trace(en, r, dst).alt,
         EndsAt(ta, level), NEW q, q = ta[level],
         NEW n \in UPages, NEW e, em[n] = e, Rerouted(e, en[q], ta, level)
  PROVE  /\ IsTree(em, n)
         /\ Mapped(em, n) = Mapped(en, r) \ {dst}
         /\ Live(em, n) \subseteq {n} \cup {x \in Live(en, r) : en[x].id \notin {dst, en[q].id}}
         /\ Value(em, n) = [Value(en, r) EXCEPT ![dst] = MISSING]
<1>1. em[n].id = en[q].id /\ em[n].data = en[q].data
  BY DEF Rerouted
<1>2. /\ \A l \in Levels : em[n].alt[l] = IF l < level THEN ta[l]
                                        ELSE IF l = level THEN PAGE_NONE
                                        ELSE en[q].alt[l]
      /\ q # PAGE_NONE /\ \A k \in Levels : k > level => ta[k] = PAGE_NONE
  BY DEF Rerouted, EndsAt
<1>3. /\ IsTree(em, n)
      /\ Mapped(em, n) = Mapped(en, r) \ {dst}
      /\ Live(em, n) \subseteq {n} \cup {x \in Live(en, r) : en[x].id \notin {dst, en[q].id}}
      /\ em[n].data = en[q].data =>
           Value(em, n) = [Value(en, r) EXCEPT ![dst] = MISSING]
  BY <1>1, <1>2, Unmap
<1> QED BY <1>1, <1>3

\* A page rerouted in this way unmaps the sector, wherever it is put.
LEMMA FitsRerouted ==
  ASSUME entry \in Entries, NEW r, IsTree(entry, r),
         NEW dst \in Mapped(entry, r), NEW level \in Levels,
         NEW ta, ta = trace(entry, r, dst).alt,
         EndsAt(ta, level), NEW q, q = ta[level],
         NEW e, Rerouted(e, entry[q], ta, level)
  PROVE  Fits(entry, r, e, {}, [Value(entry, r) EXCEPT ![dst] = MISSING],
              Mapped(entry, r) \ {dst})
<1> SUFFICES ASSUME NEW em \in Entries, NEW n \in UPages,
                    Same(entry, em, Nodes(entry, r)), em[n] = e
             PROVE  /\ IsTree(em, n)
                    /\ Value(em, n) = [Value(entry, r) EXCEPT ![dst] = MISSING]
                    /\ Mapped(em, n) = Mapped(entry, r) \ {dst}
                    /\ Live(em, n) \subseteq {n} \cup (Live(entry, r) \ {})
  BY DEF Fits
<1>1. /\ IsTree(em, n)
      /\ Mapped(em, n) = Mapped(entry, r) \ {dst}
      /\ Live(em, n) \subseteq {n} \cup {x \in Live(entry, r) : entry[x].id \notin {dst, entry[q].id}}
      /\ Value(em, n) = [Value(entry, r) EXCEPT ![dst] = MISSING]
  BY UnmapBy
<1> QED BY <1>1

\* The level that try_delete picks.
LEMMA ClosestCousin ==
  ASSUME NEW ta, NEW cousins, cousins = {l \in Levels : ta[l] # PAGE_NONE}, cousins # {},
         NEW level, level = CHOOSE l \in cousins : \A k \in cousins : k <= l
  PROVE  level \in Levels /\ EndsAt(ta, level)
<1>1. cousins \in SUBSET Levels
  OBVIOUS
<1>2. level \in cousins /\ \A k \in cousins : k <= level
  BY <1>1, Deepest
<1> QED BY <1>2 DEF EndsAt, Levels

\* What dhara_map_trim appends.
LEMMA FitsWithout ==
  ASSUME entry \in Entries, NEW r, IsTree(entry, r), NEW dst \in Mapped(entry, r),
         NEW t, t = trace(entry, r, dst), NEW level \in Levels, EndsAt(t.alt, level),
         NEW e, e = without(t, level, t.alt[level])
  PROVE  /\ e \in PageRecords
         /\ Fits(entry, r, e, {}, [Value(entry, r) EXCEPT ![dst] = MISSING],
                 Mapped(entry, r) \ {dst})
<1> DEFINE q == t.alt[level]
<1>3. level \in Levels /\ q # PAGE_NONE /\ \A k \in Levels : k > level => t.alt[k] = PAGE_NONE
  BY DEF EndsAt
<1>4. dst \in Sectors /\ r \in Links
  BY DEF Mapped, IsTree, Walkable
<1>5. Cousin(entry, dst, level, q)
  BY <1>3, <1>4 DEF IsTree
<1>6. q \in UPages /\ entry[q].id \in Sectors /\ entry[q] \in PageRecords
  BY <1>5 DEF Cousin, Entries, PageRecords
<1>7. t.alt \in Alts
  <2>1. t = walk(entry, r, dst)[DEPTH] /\ DEPTH \in 0 .. DEPTH
    BY MapAssumption DEF trace
  <2>2. walk(entry, r, dst)[DEPTH] \in Points
    BY <1>4, <2>1, WalkTyped
  <2> QED BY <2>1, <2>2 DEF Points
<1> HIDE DEF q
<1>8. /\ e \in PageRecords /\ e.id = entry[q].id /\ e.data = entry[q].data
      /\ \A l \in Levels : e.alt[l] = IF l < level THEN t.alt[l]
                                      ELSE IF l = level THEN PAGE_NONE
                                      ELSE entry[q].alt[l]
  <2> DEFINE A == [l \in Levels |-> IF l < level THEN t.alt[l]
                                    ELSE IF l = level THEN PAGE_NONE
                                    ELSE entry[q].alt[l]]
  <2>1. e = [entry[q] EXCEPT !.alt = A]
    BY DEF without, q
  <2>2. A \in Alts
    <3>1. entry[q].alt \in Alts
      BY <1>6 DEF PageRecords
    <3> QED BY <1>7, <3>1 DEF Alts, Links
  <2>3. \A l \in Levels : A[l] = IF l < level THEN t.alt[l]
                                 ELSE IF l = level THEN PAGE_NONE
                                 ELSE entry[q].alt[l]
    OBVIOUS
  <2> HIDE DEF A
  <2>4. e \in PageRecords /\ e.id = entry[q].id /\ e.data = entry[q].data /\ e.alt = A
    BY <1>6, <2>1, <2>2 DEF PageRecords
  <2> QED BY <2>3, <2>4
<1>9. Fits(entry, r, e, {}, [Value(entry, r) EXCEPT ![dst] = MISSING],
           Mapped(entry, r) \ {dst})
  <2> DEFINE ta == t.alt
  <2>1. ta = trace(entry, r, dst).alt /\ q = ta[level]
    BY DEF q
  <2>2. level \in Levels /\ EndsAt(ta, level) /\ Rerouted(e, entry[q], ta, level)
    BY <1>3, <1>8, <2>1 DEF EndsAt, Rerouted
  <2> HIDE DEF ta
  <2> QED BY <2>1, <2>2, FitsRerouted
<1> QED BY <1>8, <1>9

-----------------------------------------------------------------------------
(* Power fails                                                             *)

\* The empty journal of a chip without a checkpoint.
LEMMA EmptyOK ==
  ASSUME NEW en \in Entries, \A p \in UPages : en[p].id = SECTOR_NONE,
         NEW bd \in SUBSET Blocks
  PROVE  /\ QueueOK(EmptyJournal, en, NoCheckpoint, bd) /\ ~EmptyJournal.recovery
         /\ EmptyJournal.root = PAGE_NONE
         /\ Mapped(en, PAGE_NONE) = {}
         /\ Value(en, PAGE_NONE) = [s \in Sectors |-> MISSING]
<1> DEFINE K == EmptyJournal
<1>1. 0 \in Blocks /\ first_page(0) = 0
  BY GeometryAssumption, Sizes DEF Blocks, first_page
<1>2. 0 \in UPages /\ 0 \in Pages
  BY <1>1, FirstPage, PagesOf
<1>3. num_blocks \div 64 \in Nat
  BY GeometryAssumption, DivMod
<1>4. /\ K \in QJournals /\ K.head = 0 /\ K.tail = 0 /\ K.tail_sync = 0
      /\ K.root = PAGE_NONE /\ K.recover_root = PAGE_NONE /\ K.recover_meta = PAGE_NONE
      /\ ~K.dirty /\ ~K.bad_meta /\ ~K.recovery /\ ~K.enum_done
  BY <1>2, <1>3 DEF EmptyJournal, QJournals, Links
<1> HIDE DEF K
<1>5. /\ IsTree(en, PAGE_NONE) /\ Mapped(en, PAGE_NONE) = {} /\ Live(en, PAGE_NONE) = {}
      /\ Value(en, PAGE_NONE) = [s \in Sectors |-> MISSING]
  BY PageNone, NoTree DEF Links
<1>6. RingOK(K)
  BY <1>2, <1>4, OrderTrans DEF RingOK, ClearOf
<1>7. TreeOK(K, en)
  BY <1>4, <1>5 DEF TreeOK, Between
<1>8. /\ NoCheckpoint \in Checkpoints /\ NoCheckpoint.root = PAGE_NONE
      /\ NoCheckpoint.count = 0
  BY <1>2 DEF NoCheckpoint, Checkpoints, Links
<1>9. SavedOK(K, en, NoCheckpoint)
  BY <1>5, <1>8, FS_EmptySet DEF SavedOK
<1>10. CleanOK(K, en, NoCheckpoint)
  BY <1>4, <1>8 DEF CleanOK
<1>11. is_aligned(0, ppb)
  <2>1. block_of(0) = 0
    BY Sizes DEF block_of
  <2> QED BY <1>1, <1>2, <2>1, AlignedBlock DEF block_start
<1>12. BadOK(K, en, NoCheckpoint, bd)
  BY <1>4, <1>5, <1>8, <1>11 DEF BadOK
<1>13. RecOK(K, en, bd)
  BY <1>4 DEF RecOK
<1> QED BY <1>4, <1>5, <1>6, <1>7, <1>9, <1>10, <1>12, <1>13 DEF QueueOK, K

\* A page at which the last group before a block boundary ends is followed by
\* the next block, any other by a page of its block.
LEMMA AfterCheckpoint ==
  ASSUME NEW sr \in UPages, is_aligned(sr + 2, ppc)
  PROVE  LET after == align_down(sr, ppc) + ppc
         IN  /\ after = sr + 2
             /\ is_aligned(after, ppb) <=> Ends(sr)
             /\ Ends(sr) => after % chip_size = first_page(next_block(block_of(sr)))
             /\ ~Ends(sr) => /\ after = next_upage(sr) /\ after \in UPages
                             /\ after \in Pages /\ block_of(after) = block_of(sr)
<1> DEFINE after == align_down(sr, ppc) + ppc
<1>1. /\ sr \in Pages /\ sr \in Nat /\ ppc \in Nat /\ sr % ppc \in Int
      /\ cp_page(sr) \in Pages /\ sr + 1 = cp_page(sr) /\ block_of(cp_page(sr)) = block_of(sr)
  <2>1. sr \in Nat /\ sr % ppc \in Nat /\ ppc \in Nat
    BY UPageOffset, Sizes
  <2> QED BY <2>1, GroupBounds
<1>2. after = sr + 2
  BY <1>1 DEF cp_page, align_down
<1> HIDE DEF after
<1>3. /\ block_start(sr) \in Nat /\ block_start(sr) <= sr
      /\ sr + 1 < block_start(sr) + ppb /\ block_start(sr) + ppb <= chip_size
      /\ first_page(next_block(block_of(sr))) =
           IF block_start(sr) + ppb >= chip_size THEN 0 ELSE block_start(sr) + ppb
      /\ ppb \in Nat /\ chip_size \in Nat /\ chip_size > 0
  <2>1. block_start(cp_page(sr)) = block_start(sr)
    BY <1>1 DEF block_start
  <2>2. cp_page(sr) < block_start(cp_page(sr)) + ppb
    BY <1>1, BlockBounds
  <2> QED BY <1>1, <2>1, <2>2, BlockBounds, Sizes
<1>4. CASE Ends(sr)
  <2>1. after = block_start(sr) + ppb
    BY <1>2, <1>4 DEF Ends
  <2>2. after % ppb = 0
    <3>1. block_of(sr) \in Nat
      BY <1>1, BlockBounds DEF Blocks
    <3>2. after = ((block_of(sr) + 1) * ppb) + 0
      BY <2>1, <3>1, Sizes DEF block_start, first_page
    <3>3. 0 \in 0 .. (ppb - 1) /\ ppb \in Nat \ {0} /\ block_of(sr) + 1 \in Nat
      BY <3>1, Sizes
    <3> QED BY <3>2, <3>3, ModUnique
  <2>3. after % chip_size = IF after >= chip_size THEN 0 ELSE after
    <3>1. CASE after = chip_size
      <4>1. after = (1 * chip_size) + 0 /\ 0 \in 0 .. (chip_size - 1) /\ chip_size \in Nat \ {0}
        BY <1>3, <3>1
      <4>2. after % chip_size = 0
        BY <4>1, ModUnique
      <4> QED BY <1>3, <3>1, <4>2
    <3>2. CASE after < chip_size
      <4>1. after = (0 * chip_size) + after /\ after \in 0 .. (chip_size - 1) /\ chip_size \in Nat \ {0}
        BY <1>1, <1>2, <1>3, <3>2
      <4>2. after % chip_size = after
        BY <4>1, ModUnique
      <4> QED BY <1>1, <1>2, <1>3, <3>2, <4>2
    <3> QED BY <1>1, <1>2, <1>3, <2>1, <3>1, <3>2
  <2> QED BY <1>2, <1>3, <1>4, <2>1, <2>2, <2>3 DEF is_aligned, after
<1>5. CASE ~Ends(sr)
  <2>1. after < block_start(sr) + ppb /\ block_start(sr) <= after /\ after \in Nat
    BY <1>1, <1>2, <1>3, <1>5 DEF Ends
  <2>2. after \in Pages /\ block_of(after) = block_of(sr) /\ block_start(after) = block_start(sr)
    BY <1>1, <2>1, InBlock
  <2>3. ~is_aligned(after, ppb)
    BY <1>1, <1>2, <1>3, <2>2, AlignedBlock
  <2>4. after = next_upage(sr)
    <3>1. sr + 1 = cp_page(sr) /\ sr + 2 < chip_size
      BY <1>1, <1>2, <2>2, Distance
    <3>2. next_upage(sr) = sr + 2
      BY <1>1, <1>3, <3>1, GroupBounds
    <3> QED BY <1>2, <3>2
  <2> QED BY <1>2, <1>5, <2>2, <2>3, <2>4, NextUPage DEF after
<1> QED BY <1>4, <1>5

\* The head has not fallen behind the last checkpoint in its block.
LEMMA HeadAhead ==
  ASSUME NEW J, RingOK(J), NEW r \in UPages,
         Before(J.tail_sync, r, J.head) \/ Passed(J, r), ~Ends(r),
         block_of(J.head) = block_of(r)
  PROVE  r < J.head
<1> DEFINE f == J.tail_sync  h == J.head
<1>1. f \in Pages /\ h \in Pages /\ r \in Pages /\ ClearOf(f, h)
  BY PagesOf DEF RingOK
<1>2. /\ block_start(h) = block_start(r) /\ block_start(r) <= r
      /\ block_start(r) <= h /\ r < block_start(r) + ppb
      /\ f \in Nat /\ h \in Nat /\ r \in Nat /\ ppb \in Nat /\ block_start(r) \in Nat
  BY <1>1, BlockBounds, SameBlock, Sizes
<1>3. CASE Before(f, r, h)
  <2> SUFFICES ASSUME h <= r PROVE FALSE
    BY <1>2
  <2>1. h < f /\ f <= r
    BY <1>1, <1>3, Distance DEF Before
  <2>2. block_of(f) = block_of(r)
    BY <1>1, <1>2, <2>1, InBlock
  <2> QED BY <1>1, <1>2, <2>1, <2>2 DEF ClearOf
<1>4. CASE Passed(J, r)
  BY <1>1, <1>2, <1>4 DEF Passed, ClearOf
<1> QED BY <1>3, <1>4

\* Where dhara_journal_resume puts the head: behind the root of the checkpoint,
\* in its block or at the start of the next.
Resumes(K, sv) ==
  /\ K \in QJournals /\ K.root = sv.root /\ K.tail = sv.tail /\ K.tail_sync = sv.tail
  /\ K.recover_root = PAGE_NONE /\ K.recover_meta = PAGE_NONE
  /\ ~K.dirty /\ ~K.bad_meta /\ ~K.recovery /\ ~K.enum_done
  /\ IF Ends(sv.root)
       THEN K.head = first_page(next_block(block_of(sv.root)))
       ELSE block_of(K.head) = block_of(sv.root) /\ sv.root < K.head

\* dhara_journal_resume does that.
LEMMA ResumedHead ==
  ASSUME num_blocks >= 2, QueueOK(j, entry, saved, bad), saved.root # PAGE_NONE
  PROVE  Resumes(resumed, saved)
<1> DEFINE sr == saved.root
           after == align_down(sr, ppc) + ppc
           found == [EmptyJournal EXCEPT
                       !.root = saved.root, !.tail = saved.tail,
                       !.epoch = saved.epoch, !.bb_current = saved.bb_current,
                       !.bb_last = saved.bb_last]
           K1 == chased(move_head(found, after % chip_size))
           K2 == [found EXCEPT !.head = IF align_eq(j.head, after, ppb) THEN j.head ELSE after]
<1>1. /\ saved \in Checkpoints /\ sr \in UPages /\ saved.tail \in UPages
      /\ saved # NoCheckpoint /\ is_aligned(sr + 2, ppc)
      /\ RingOK(j) /\ j.head \in UPages /\ j.head \in Pages /\ saved.tail \in Pages /\ sr \in Pages
      /\ Before(j.tail_sync, sr, j.head) \/ Passed(j, sr)
      /\ Ends(sr) => block_of(saved.tail) # next_block(block_of(sr))
  BY PagesOf DEF QueueOK, RingOK, SavedOK, Checkpoints, Links, QJournals
<1>2. /\ is_aligned(after, ppb) <=> Ends(sr)
      /\ Ends(sr) => after % chip_size = first_page(next_block(block_of(sr)))
      /\ ~Ends(sr) => /\ after = next_upage(sr) /\ after \in UPages
                      /\ after \in Pages /\ block_of(after) = block_of(sr)
      /\ after = sr + 2
  BY <1>1, AfterCheckpoint
<1>3. /\ found \in QJournals /\ found.root = sr /\ found.tail = saved.tail
      /\ found.recover_root = PAGE_NONE /\ found.recover_meta = PAGE_NONE
      /\ ~found.dirty /\ ~found.bad_meta /\ ~found.recovery /\ ~found.enum_done
  <2>1. EmptyJournal \in QJournals
    <3>1. {} \in SUBSET Blocks /\ [p \in UPages |-> Filler] \in Entries
          /\ \A p \in UPages : [q \in UPages |-> Filler][p].id = SECTOR_NONE
      BY DEF Filler, Entries, NoAlts, Alts, Links
    <3>2. RingOK(EmptyJournal)
      BY <3>1, EmptyOK DEF QueueOK
    <3> QED BY <3>2 DEF RingOK
  <2>2. /\ EmptyJournal.recover_root = PAGE_NONE /\ EmptyJournal.recover_meta = PAGE_NONE
        /\ ~EmptyJournal.dirty /\ ~EmptyJournal.bad_meta /\ ~EmptyJournal.recovery
        /\ ~EmptyJournal.enum_done
    BY DEF EmptyJournal
  <2> QED BY <1>1, <2>1, <2>2 DEF QJournals, Checkpoints, Links
<1>4. resumed = [(IF is_aligned(after, ppb) THEN K1 ELSE K2) EXCEPT
                   !.tail_sync = (IF is_aligned(after, ppb) THEN K1 ELSE K2).tail]
  BY <1>1 DEF resumed
<1> HIDE DEF after, found
<1>5. CASE Ends(sr)
  <2> DEFINE h == first_page(next_block(block_of(sr)))
             M == move_head(found, h)
  <2>1. h \in UPages /\ h \in Pages /\ block_of(h) = next_block(block_of(sr))
    BY <1>1, BlockBounds
  <2>2. K1 = chased(M)
    BY <1>2, <1>5
  <2> HIDE DEF h
  <2>3. SameBut(found, M) /\ M.head = h /\ ~M.dirty /\ M \in QJournals
    BY <1>3, <2>1, HeadMoves DEF SameBut
  <2> HIDE DEF M
  <2>4. M.tail = saved.tail
    BY <1>3, <2>3 DEF SameBut
  <2>5. ~align_eq(M.head, M.tail, ppb)
    BY <1>1, <1>5, <2>1, <2>3, <2>4, SameBlock
  <2>6. K1 = M
    BY <2>2, <2>5 DEF chased
  <2>7. resumed = [M EXCEPT !.tail_sync = M.tail]
    BY <1>2, <1>4, <1>5, <2>6
  <2>8. /\ resumed \in QJournals /\ resumed.tail_sync = saved.tail /\ resumed.tail = saved.tail
        /\ resumed.head = h /\ resumed.root = M.root /\ resumed.recover_root = M.recover_root
        /\ resumed.recover_meta = M.recover_meta /\ resumed.dirty = M.dirty
        /\ resumed.bad_meta = M.bad_meta /\ resumed.recovery = M.recovery
        /\ resumed.enum_done = M.enum_done
    BY <1>1, <2>3, <2>4, <2>7 DEF QJournals
  <2> QED BY <1>3, <1>5, <2>3, <2>8 DEF Resumes, SameBut, h
<1>6. CASE ~Ends(sr)
  <2> DEFINE h == IF align_eq(j.head, after, ppb) THEN j.head ELSE after
  <2>1. h \in UPages /\ block_of(h) = block_of(sr) /\ sr < h
    <3>1. CASE align_eq(j.head, after, ppb)
      <4>1. block_of(j.head) = block_of(sr)
        BY <1>1, <1>2, <1>6, <3>1, SameBlock
      <4> QED BY <1>1, <1>6, <3>1, <4>1, HeadAhead
    <3>2. CASE ~align_eq(j.head, after, ppb)
      BY <1>1, <1>2, <1>6, <3>2 DEF Pages
    <3> QED BY <3>1, <3>2
  <2>2. K2 = [found EXCEPT !.head = h]
    OBVIOUS
  <2> HIDE DEF h
  <2>3. /\ K2 \in QJournals /\ K2.root = sr /\ K2.tail = saved.tail /\ K2.head = h
        /\ K2.recover_root = PAGE_NONE /\ K2.recover_meta = PAGE_NONE
        /\ ~K2.dirty /\ ~K2.bad_meta /\ ~K2.recovery /\ ~K2.enum_done
    BY <1>3, <2>1, <2>2 DEF QJournals
  <2>4. resumed = [K2 EXCEPT !.tail_sync = K2.tail]
    BY <1>2, <1>4, <1>6
  <2> HIDE DEF K2
  <2>5. /\ resumed \in QJournals /\ resumed.tail_sync = saved.tail /\ resumed.tail = saved.tail
        /\ resumed.head = h /\ resumed.root = K2.root /\ resumed.recover_root = K2.recover_root
        /\ resumed.recover_meta = K2.recover_meta /\ resumed.dirty = K2.dirty
        /\ resumed.bad_meta = K2.bad_meta /\ resumed.recovery = K2.recovery
        /\ resumed.enum_done = K2.enum_done
    BY <1>1, <2>3, <2>4 DEF QJournals
  <2> QED BY <1>6, <2>1, <2>3, <2>5 DEF Resumes
<1> QED BY <1>5, <1>6

\* What a restart finds on the pages.
Recalled(em) ==
  /\ em \in Entries
  /\ \A p \in UPages : entry[p].id = SECTOR_NONE => em[p].id = SECTOR_NONE
  /\ saved = NoCheckpoint => \A p \in UPages : em[p].id = SECTOR_NONE
  /\ saved # NoCheckpoint =>
       \A p \in UPages : p \notin queue(next_upage(saved.root), j.head) => em[p] = entry[p]

\* Restarted leaves such pages.
LEMMA RestartedPages ==
  ASSUME entry \in Entries, 
         NEW em, em = [p \in UPages |->
                         IF /\ saved # NoCheckpoint
                            /\ p \notin queue(next_upage(saved.root), j.head)
                           THEN entry[p] ELSE without_meta(entry[p])]
  PROVE  Recalled(em)
<1> DEFINE sr == saved.root  jh == j.head
<1>1. ASSUME NEW p \in UPages
      PROVE  /\ without_meta(entry[p]) \in PageRecords
             /\ without_meta(entry[p]).id = SECTOR_NONE
             /\ entry[p] \in PageRecords
  BY DEF without_meta, Filler, PageRecords, Entries, NoAlts, Alts, Links
<1>2. em \in [UPages -> PageRecords]
  BY <1>1
<1>3. em \in Entries
  BY <1>2 DEF Entries, PageRecords
<1>4. ASSUME NEW p \in UPages
      PROVE  em[p] = IF saved # NoCheckpoint /\ p \notin queue(next_upage(sr), jh)
                       THEN entry[p] ELSE without_meta(entry[p])
  OBVIOUS
<1>5. \A p \in UPages : em[p] = entry[p] \/ em[p].id = SECTOR_NONE
  BY <1>1, <1>4
<1>6. \A p \in UPages : entry[p].id = SECTOR_NONE => em[p].id = SECTOR_NONE
  BY <1>5
<1>7. saved = NoCheckpoint => \A p \in UPages : em[p].id = SECTOR_NONE
  BY <1>1, <1>4
<1>8. saved # NoCheckpoint =>
        \A p \in UPages : p \notin queue(next_upage(sr), jh) => em[p] = entry[p]
  BY <1>4
<1> QED BY <1>3, <1>6, <1>7, <1>8 DEF Recalled

\* A restart finds the tree of the last checkpoint, and a ring around it.  The
\* metadata it misses was on pages behind that checkpoint.
LEMMA RestartOK ==
  ASSUME num_blocks >= 2, QueueOK(j, entry, saved, bad), ~j.recovery,
         NEW K, K = resumed,
         NEW em, Recalled(em)
  PROVE  /\ QueueOK(K, em, saved, bad) /\ ~K.recovery /\ K.root = saved.root
         /\ Mapped(em, K.root) = Mapped(entry, saved.root)
         /\ Value(em, K.root) = Value(entry, saved.root)
<1> DEFINE sr == saved.root  f == j.tail_sync  jh == j.head  t == saved.tail  h == K.head
<1>1. /\ entry \in Entries /\ RingOK(j) /\ SavedOK(j, entry, saved) /\ BadOK(j, entry, saved, bad)
      /\ saved \in Checkpoints /\ bad \in SUBSET Blocks
      /\ f \in Pages /\ jh \in Pages /\ jh \in UPages /\ t \in Pages
  BY PagesOf DEF QueueOK, RingOK, SavedOK, BadOK, Checkpoints, QJournals
<1>2. /\ em \in Entries
      /\ \A p \in UPages : entry[p].id = SECTOR_NONE => em[p].id = SECTOR_NONE
      /\ saved = NoCheckpoint => \A p \in UPages : em[p].id = SECTOR_NONE
      /\ saved # NoCheckpoint =>
           \A p \in UPages : p \notin queue(next_upage(sr), jh) => em[p] = entry[p]
  BY DEF Recalled
<1>3. CASE sr = PAGE_NONE
  <2>1. saved = NoCheckpoint
    BY <1>1, <1>3 DEF SavedOK
  <2>2. K = EmptyJournal
    BY <2>1 DEF resumed
  <2>3. Mapped(entry, sr) = {} /\ Value(entry, sr) = [s \in Sectors |-> MISSING]
    BY <1>1, <1>3, PageNone, NoTree DEF Links
  <2>4. /\ QueueOK(EmptyJournal, em, NoCheckpoint, bad) /\ ~EmptyJournal.recovery
        /\ EmptyJournal.root = PAGE_NONE
        /\ Mapped(em, PAGE_NONE) = {}
        /\ Value(em, PAGE_NONE) = [s \in Sectors |-> MISSING]
    <3>1. \A p \in UPages : em[p].id = SECTOR_NONE
      BY <1>2, <2>1
    <3>2. em \in Entries /\ bad \in SUBSET Blocks
      BY <1>1, <1>2
    <3> HIDE DEF sr
    <3> QED BY <3>1, <3>2, EmptyOK
  <2> QED BY <1>3, <2>1, <2>2, <2>3, <2>4
<1>4. CASE sr # PAGE_NONE
  <2>1. /\ saved # NoCheckpoint /\ sr \in UPages /\ sr \in Pages
        /\ ClearOf(t, sr) /\ is_aligned(sr + 2, ppc) /\ IsTree(entry, sr)
        /\ \A p \in Live(entry, sr) : Upto(t, p, sr) /\ Upto(f, p, sr)
        /\ Live(entry, sr) # {} => Before(f, sr, jh)
        /\ Ends(sr) => block_of(t) # next_block(block_of(sr))
    BY <1>1, <1>4, PagesOf DEF SavedOK, Checkpoints, Links
  <2>2. Resumes(K, saved)
    BY <1>4, ResumedHead
  <2>3. /\ K \in QJournals /\ K.root = sr /\ K.tail = t /\ K.tail_sync = t
        /\ K.recover_root = PAGE_NONE /\ K.recover_meta = PAGE_NONE
        /\ ~K.dirty /\ ~K.bad_meta /\ ~K.recovery /\ ~K.enum_done
        /\ h \in UPages /\ h \in Pages
    BY <2>2, PagesOf DEF Resumes, QJournals
  <2>4. IF Ends(sr) THEN h = first_page(next_block(block_of(sr)))
                    ELSE block_of(h) = block_of(sr) /\ sr < h
    BY <2>2 DEF Resumes
  <2>5. Onward(t, sr, h) /\ sr # h
    <3>1. CASE Ends(sr)
      <4>1. Onward(t, sr, h)
        BY <1>1, <2>1, <2>4, <3>1, OnwardNextBlock
      <4>2. block_of(h) # block_of(sr)
        BY <2>1, <2>4, <3>1, BlockBounds, NextBlockApart
      <4> QED BY <4>1, <4>2
    <3>2. CASE ~Ends(sr)
      <4>1. sr \in Nat /\ h \in Nat /\ sr < h /\ block_of(h) = block_of(sr)
        BY <2>1, <2>3, <2>4, <3>2, BlockBounds
      <4>2. sr <= h /\ sr # h
        BY <4>1
      <4> QED BY <1>1, <2>1, <2>3, <4>1, <4>2, OnwardInBlock
    <3> QED BY <3>1, <3>2
  <2>6. ClearOf(t, h) /\ Upto(t, t, h) /\ Upto(t, t, sr) /\ Before(t, sr, h)
    BY <1>1, <2>1, <2>3, <2>5, OrderTrans DEF Onward
  <2>7. /\ IsTree(em, sr) /\ Mapped(em, sr) = Mapped(entry, sr)
        /\ Live(em, sr) = Live(entry, sr) /\ Value(em, sr) = Value(entry, sr)
    <3>1. CASE Live(entry, sr) = {}
      <4>1. entry[sr].id = SECTOR_NONE
        <5> SUFFICES ASSUME entry[sr].id # SECTOR_NONE PROVE FALSE
          OBVIOUS
        <5>1. entry[sr].id \in Mapped(entry, sr)
          BY <1>1, <2>1, OwnRoot
        <5> QED BY <3>1, <5>1 DEF Live
      <4>2. sr \in Links /\ em[sr].id = SECTOR_NONE
        BY <1>2, <2>1, <4>1 DEF Links
      <4>3. /\ IsTree(em, sr) /\ Mapped(em, sr) = {} /\ Live(em, sr) = {}
            /\ Value(em, sr) = [s \in Sectors |-> MISSING]
        BY <1>2, <4>2, NoTree
      <4>4. /\ Mapped(entry, sr) = {}
            /\ Value(entry, sr) = [s \in Sectors |-> MISSING]
        BY <1>1, <4>1, <4>2, NoTree
      <4> QED BY <3>1, <4>3, <4>4
    <3>2. CASE Live(entry, sr) # {}
      <4> DEFINE n == next_upage(sr)
      <4>1. Before(f, sr, jh) /\ Upto(f, sr, jh) /\ sr # jh
        BY <1>1, <2>1, <3>2, OrderTrans
      <4>2. n \in UPages /\ n \in Pages /\ Upto(f, n, jh) /\ Before(f, sr, n)
        BY <1>1, <2>1, <4>1, NextUser, NextUPage, PagesOf
      <4>3. ASSUME NEW p \in Nodes(entry, sr) \cap UPages PROVE em[p] = entry[p]
        <5>1. p \in UPages /\ p \in Pages /\ Upto(f, p, sr)
          BY <1>1, <2>1, PagesOf, OrderTrans DEF Nodes
        <5>2. ~Before(n, p, jh)
          <6> SUFFICES ASSUME Before(n, p, jh) PROVE FALSE
            OBVIOUS
          <6>1. Upto(f, n, p)
            BY <1>1, <4>2, <5>1, TailMoves
          <6>2. Before(f, sr, p)
            BY <1>1, <2>1, <4>2, <5>1, <6>1, OrderTrans
          <6> QED BY <1>1, <2>1, <5>1, <6>2, OrderTrans
        <5>3. p \notin queue(n, jh)
          BY <5>2, InQueue
        <5> QED BY <1>2, <2>1, <5>1, <5>3
      <4>4. Same(entry, em, Nodes(entry, sr))
        BY <4>3 DEF Same
      <4> QED BY <1>1, <1>2, <2>1, <4>4, StableTree
    <3> QED BY <3>1, <3>2
  <2>8. RingOK(K)
    BY <2>3, <2>6 DEF RingOK
  <2>9. TreeOK(K, em)
    <3>1. ASSUME NEW p \in Live(em, sr) PROVE Upto(t, t, p) /\ Upto(t, p, sr)
      <4>1. p \in UPages /\ p \in Pages
        BY <1>1, <2>1, <2>7, LiveCount, PagesOf DEF IsTree
      <4> QED BY <1>1, <2>1, <2>7, <4>1, OrderTrans
    <3> QED BY <2>3, <2>7, <3>1 DEF TreeOK, Between
  <2>10. SavedOK(K, em, saved)
    BY <1>1, <1>4, <2>1, <2>3, <2>6, <2>7 DEF SavedOK
  <2>11. CleanOK(K, em, saved)
    BY <2>3, <2>4 DEF CleanOK
  <2>12. BadOK(K, em, saved, bad)
    <3>1. block_of(sr) \notin bad /\ \A p \in Live(entry, sr) : block_of(p) \notin bad
      BY <1>1, <1>4 DEF BadOK
    <3>2. ~is_aligned(h, ppb) => block_of(h) \notin bad
      <4>1. CASE Ends(sr)
        <5>1. h = block_start(h)
          BY <2>1, <2>4, <4>1, BlockBounds DEF block_start
        <5> QED BY <2>3, <5>1, AlignedBlock
      <4>2. CASE ~Ends(sr)
        BY <2>4, <3>1, <4>2
      <4> QED BY <4>1, <4>2
    <3> QED BY <1>1, <2>3, <2>7, <3>1, <3>2 DEF BadOK
  <2>13. RecOK(K, em, bad)
    BY <2>3 DEF RecOK
  <2> QED BY <1>2, <2>3, <2>7, <2>8, <2>9, <2>10, <2>11, <2>12, <2>13 DEF QueueOK
<1> QED BY <1>3, <1>4

-----------------------------------------------------------------------------
(* Calls                                                                   *)

\* What a request names.
LEMMA RequestFields ==
  ASSUME NEW r \in D!Requests
  PROVE  /\ r # D!NoRequest /\ r.op \in {"write", "trim", "copy", "sync", "gc", "clear"}
         /\ r.op = "write" => r.dst \in Sectors /\ r.data \in Data
         /\ r.op = "trim" => r.dst \in Sectors
         /\ r.op = "copy" => r.src \in Sectors /\ r.dst \in Sectors
<1>1. CASE r \in [op : {"write"}, dst : Sectors, data : Data]
  BY <1>1 DEF D!NoRequest
<1>2. CASE r \in [op : {"trim"}, dst : Sectors]
  BY <1>2 DEF D!NoRequest
<1>3. CASE r \in [op : {"copy"}, src : Sectors, dst : Sectors]
  BY <1>3 DEF D!NoRequest
<1>4. CASE r \in [op : {"sync", "gc", "clear"}]
  BY <1>4 DEF D!NoRequest
<1> QED BY <1>1, <1>2, <1>3, <1>4 DEF D!Requests

\* A call that has returned is no call.
LEMMA ReturnOK ==
  ASSUME NEW result, Return(result)
  PROVE  ControlOK' /\ recovering' = FALSE
<1>1. /\ NoCall \in Calls /\ NoCall.req = D!NoRequest
  BY DEF NoCall, Calls, Links
<1>2. call' = NoCall /\ pc' = "idle" /\ recovering' = FALSE
  BY DEF Return
<1> QED BY <1>1, <1>2 DEF ControlOK, Calls

\* A call that has come to the top of its loop.
LEMMA EnterOK ==
  ASSUME NEW c \in Calls, c.req \in D!Requests, NEW jj, Enter(c, jj)
  PROVE  ControlOK' /\ recovering' = FALSE
<1>1. c.req # D!NoRequest
  BY RequestFields
<1>2. gc_ratio + 1 \in Nat
  BY MapAssumption
<1>3. recovering' = FALSE /\ ok' = TRUE
  BY DEF Enter
<1>4. CASE /\ c.req.op \in {"write", "trim", "copy"}
           /\ pc' = "gc" /\ call' = [c EXCEPT !.gcs = gc_ratio + 1]
  <2>1. call' \in Calls /\ call'.req = c.req
    BY <1>2, <1>4 DEF Calls
  <2> QED BY <1>1, <1>3, <1>4, <2>1 DEF ControlOK, Calls
<1>5. CASE /\ c.req.op \in {"write", "trim", "copy"}
           /\ pc' = "do" /\ call' = c
  BY <1>1, <1>3, <1>5 DEF ControlOK, Calls
<1>6. CASE /\ c.req.op = "gc"
           /\ pc' = "gc" /\ call' = [c EXCEPT !.gcs = 1]
  <2>1. call' \in Calls /\ call'.req = c.req
    BY <1>6 DEF Calls
  <2> QED BY <1>1, <1>3, <1>6, <2>1 DEF ControlOK, Calls
<1>7. CASE /\ c.req.op \in {"sync", "clear"}
           /\ pc' = "do" /\ call' = c
  BY <1>1, <1>3, <1>7 DEF ControlOK, Calls
<1> QED BY <1>4, <1>5, <1>6, <1>7 DEF Enter

\* A call that stays in its loop, with other counters.
SameCall(c) ==
  c \in Calls /\ c.req = call.req /\ c.page = call.page

\* Control stays as it should be.
LEMMA StayOK ==
  ASSUME ControlOK, SameCall(call'), pc' = pc, ok' = ok,
         recovering' => recovering \/ (pc # "idle" /\ call.req.op # "clear")
  PROVE  ControlOK'
BY DEF ControlOK, SameCall, Calls

\* An iteration of dhara_map_gc is followed by another, by the call's own loop,
\* or by the end of the call.
LEMMA CollectedOK ==
  ASSUME ControlOK, pc = "gc", ~recovering, Collected
  PROVE  ControlOK' /\ ~recovering'
<1>1. call \in Calls
  BY DEF ControlOK
<1>2. CASE call.gcs > 1 /\ Stay /\ call' = [call EXCEPT !.gcs = @ - 1, !.tries = 0]
  <2>1. call.gcs - 1 \in Nat
    BY <1>1, <1>2 DEF Calls
  <2>2. SameCall(call')
    BY <1>1, <1>2, <2>1 DEF Calls, SameCall
  <2> QED BY <1>2, <2>2, StayOK DEF Stay
<1>3. CASE Return(TRUE)
  BY <1>3, ReturnOK
<1>4. CASE /\ call.req.op # "gc"
           /\ pc' = "do" /\ call' = [call EXCEPT !.gcs = 0, !.tries = 0]
           /\ UNCHANGED <<recovering, ok>>
  <2>1. SameCall(call')
    BY <1>1, <1>4 DEF Calls, SameCall
  <2>2. call.req # D!NoRequest /\ call.req.op \in {"write", "trim", "copy"}
    BY <1>4 DEF ControlOK
  <2> QED BY <1>4, <2>1, <2>2 DEF ControlOK, SameCall, Calls
<1> QED BY <1>2, <1>3, <1>4 DEF Collected

-----------------------------------------------------------------------------
(* Steps                                                                   *)

\* An outcome has the fields of one.
Shape(o) ==
  o = [err |-> o.err, j |-> o.j, entry |-> o.entry, saved |-> o.saved,
       bad |-> o.bad, fails |-> o.fails]

\* What append yields is an outcome.
LEMMA AppendShape ==
  ASSUME NEW J, NEW e, NEW cookie, NEW o \in append(J, e, cookie)
  PROVE  Shape(o)
<1>1. CASE o = Outcome(prepare_head(J).err, prepare_head(J).j)
  BY <1>1 DEF Outcome, Shape
<1>2. CASE o = push_meta(prepare_head(J).j, e, cookie)
  <2> DEFINE K == prepare_head(J).j
  <2> HIDE DEF K
  <2>1. o = push_meta(K, e, cookie)
    BY <1>2 DEF K
  <2> QED BY <2>1 DEF push_meta, Outcome, Shape
<1>3. CASE o = [recover_from(prepare_head(J).j) EXCEPT !.fails = fails + 1]
  <2> DEFINE q == recover_from(prepare_head(J).j)
  <2>1. q = [err |-> q.err, j |-> q.j, entry |-> q.entry, saved |-> q.saved,
             bad |-> q.bad, fails |-> q.fails]
    BY RecoverFromShape
  <2> HIDE DEF q
  <2>2. o = [q EXCEPT !.fails = fails + 1]
    BY <1>3 DEF q
  <2> QED BY <2>1, <2>2 DEF Shape
<1> QED BY <1>1, <1>2, <1>3 DEF append

\* The invariant after a step.
LEMMA NextInv ==
  ASSUME NEW J, J = j', NEW en, en = entry', NEW sv, sv = saved', NEW bd, bd = bad',
         QueueOK(J, en, sv, bd), EnumOK(J, en, {}),
         recovering' => J.recovery,
         count' = Cardinality(Mapped(en, J.root)), ControlOK'
  PROVE  MapInv'
BY DEF MapInv, CountOK

\* The same when the journal is in no recovery.
LEMMA NextCalm ==
  ASSUME NEW J, J = j', NEW en, en = entry', NEW sv, sv = saved', NEW bd, bd = bad',
         QueueOK(J, en, sv, bd), ~J.recovery, ~recovering',
         count' = Cardinality(Mapped(en, J.root)), ControlOK'
  PROVE  MapInv' /\ NoRecoveryGivenUp'
<1>1. EnumOK(J, en, {})
  BY DEF EnumOK
<1>2. NoRecoveryGivenUp'
  BY DEF NoRecoveryGivenUp
<1> QED BY <1>1, <1>2, NextInv

\* While no recovery runs, the journal is in none.
LEMMA Calm ==
  ASSUME MapInv, NoRecoveryGivenUp, ~recovering
  PROVE  /\ ~j.recovery /\ QueueOK(j, entry, saved, bad)
         /\ entry \in Entries /\ IsTree(entry, j.root) /\ j.root \in Links
         /\ count = Cardinality(Mapped(entry, j.root)) /\ count \in Nat
         /\ ControlOK /\ call \in Calls /\ EnumOK(j, entry, {})
         /\ j.tail \in UPages
<1>1. /\ QueueOK(j, entry, saved, bad) /\ ControlOK /\ CountOK /\ ~j.recovery
      /\ EnumOK(j, entry, {})
  BY DEF MapInv, NoRecoveryGivenUp
<1>2. entry \in Entries /\ IsTree(entry, j.root) /\ j.root \in Links /\ j.tail \in UPages
  BY <1>1 DEF QueueOK, TreeOK, RingOK, QJournals
<1>3. Cardinality(Mapped(entry, j.root)) \in Nat
  BY <1>2, LiveCount, FS_CardinalityType DEF IsTree
<1> QED BY <1>1, <1>2, <1>3 DEF CountOK, ControlOK

\* An attempt to append has failed.
LEMMA FailedOK ==
  ASSUME MapInv, NoRecoveryGivenUp, ~recovering, pc # "idle", call.req.op # "clear",
         NEW J, ~J.recovery, Mapped(entry, J.root) = Mapped(entry, j.root),
         NEW o, Kept(J, o), Becomes(o), Failed(o)
  PROVE  MapInv' /\ NoRecoveryGivenUp'
<1>1. /\ QueueOK(o.j, o.entry, o.saved, o.bad)
      /\ Mapped(o.entry, o.j.root) = Mapped(entry, j.root)
      /\ o.err = "RECOVER" => o.j.recovery /\ EnumOK(o.j, o.entry, {})
      /\ o.err # "RECOVER" => ~o.j.recovery
  BY DEF Kept
<1>2. count' = Cardinality(Mapped(o.entry, o.j.root))
  BY <1>1, Calm DEF Failed
<1>3. ControlOK /\ call \in Calls
  BY Calm
<1>4. o.j = j' /\ o.entry = entry' /\ o.saved = saved' /\ o.bad = bad'
  BY DEF Becomes
<1>5. CASE o.err = "RETRY" /\ Stay /\ call' = [call EXCEPT !.tries = @ + 1]
  <2>1. SameCall(call') /\ pc' = pc /\ ok' = ok /\ recovering' = recovering
    BY <1>3, <1>5 DEF Calls, SameCall, Stay
  <2>2. ControlOK'
    BY <1>3, <2>1, StayOK
  <2>3. ~recovering' /\ ~o.j.recovery
    BY <1>1, <1>5, <2>1
  <2> QED BY <1>1, <1>2, <1>4, <2>2, <2>3, NextCalm
<1>6. CASE /\ o.err = "RECOVER" /\ recovering' = TRUE
           /\ call' = [call EXCEPT !.tries = 0, !.restarts = 0] /\ UNCHANGED <<pc, ok>>
  <2>1. SameCall(call') /\ pc' = pc /\ ok' = ok
    BY <1>3, <1>6 DEF Calls, SameCall
  <2>2. ControlOK'
    BY <1>3, <2>1, StayOK
  <2>3. o.j.recovery /\ EnumOK(o.j, o.entry, {})
    BY <1>1, <1>6
  <2>4. NoRecoveryGivenUp'
    BY <1>6 DEF NoRecoveryGivenUp
  <2> QED BY <1>1, <1>2, <1>4, <2>2, <2>3, <2>4, NextInv
<1>7. CASE o.err # "RECOVER" /\ Return(FALSE)
  <2>1. ControlOK' /\ ~recovering'
    BY <1>7, ReturnOK
  <2> QED BY <1>1, <1>2, <1>4, <1>7, <2>1, NextCalm
<1> QED BY <1>5, <1>6, <1>7 DEF Failed

\* A call begins.
LEMMA BeginInv ==
  ASSUME MapInv, NoRecoveryGivenUp, NEW r \in D!Requests, Begin(r)
  PROVE  MapInv' /\ NoRecoveryGivenUp'
<1> DEFINE pg == IF r.op = "copy" /\ trace_path(j.root, r.src).ok
                 THEN trace_path(j.root, r.src).p ELSE PAGE_NONE
           c == [NoCall EXCEPT !.req = r, !.page = pg]
<1>1. ~recovering
  BY DEF MapInv, ControlOK, Begin
<1>2. /\ QueueOK(j, entry, saved, bad) /\ ~j.recovery /\ entry \in Entries /\ j.root \in Links
      /\ count = Cardinality(Mapped(entry, j.root))
  BY <1>1, Calm
<1>3. pg \in Links
  <2>1. trace_path(j.root, r.src) = walk(entry, j.root, r.src)[DEPTH]
    BY TracePath DEF trace
  <2>2. DEPTH \in 0 .. DEPTH
    BY MapAssumption
  <2>3. walk(entry, j.root, r.src)[DEPTH] \in Points
    BY <1>2, <2>2, WalkTyped
  <2> QED BY <2>1, <2>3 DEF Points, Links
<1>4. c \in Calls /\ c.req = r
  <2> HIDE DEF pg
  <2> QED BY <1>3 DEF NoCall, Calls
<1>5. Enter(c, j)
  BY DEF Begin
<1>6. ControlOK' /\ ~recovering'
  <2> HIDE DEF c
  <2> QED BY <1>4, <1>5, EnterOK
<1>7. j' = j /\ entry' = entry /\ saved' = saved /\ bad' = bad /\ count' = count
  BY DEF Begin, queueVars
<1> QED BY <1>2, <1>6, <1>7, NextCalm

\* The page at the tail is not on the tree: raw_gc drops it.
LEMMA TailDropped ==
  ASSUME MapInv, NoRecoveryGivenUp, ~recovering, j.head # j.tail,
         NEW J, J = peek(j), ~current(J, J.tail)
  PROVE  /\ QueueOK(dequeue(J), entry, saved, bad) /\ ~dequeue(J).recovery
         /\ Mapped(entry, dequeue(J).root) = Mapped(entry, j.root)
         /\ Value(entry, dequeue(J).root) = Value(entry, j.root)
<1>1. QueueOK(j, entry, saved, bad) /\ ~j.recovery /\ entry \in Entries
  BY Calm
<1>2. QueueOK(J, entry, saved, bad) /\ J.root = j.root /\ ~J.recovery
  BY <1>1, PeekOK
<1>3. J.tail \in UPages /\ IsTree(entry, J.root)
  BY <1>2 DEF QueueOK, RingOK, TreeOK, QJournals
<1>4. J.tail \notin Live(entry, J.root)
  BY <1>1, <1>3, CurrentIsLive
<1> QED BY <1>2, <1>4, DequeueOK

\* What an appended page makes of the last checkpoint: it may have been taken
\* of the new tree.
SavedStays(o, val) ==
  \/ o.saved = saved /\ Value(o.entry, saved.root) = Value(entry, saved.root)
  \/ Value(o.entry, o.saved.root) = val
\* The page at the tail is on the tree: raw_gc appends it once more, and drops
\* it when that has succeeded.
LEMMA TailCopied ==
  ASSUME num_blocks >= 2, MapInv, NoRecoveryGivenUp, ~recovering, j.head # j.tail,
         NEW J, J = peek(j), current(J, J.tail),
         NEW o \in append(J, rewritten(J, J.tail), count)
  PROVE  /\ ~J.recovery /\ J.root = j.root
         /\ o.err = "OK" =>
              /\ QueueOK(dequeue(o.j), o.entry, o.saved, o.bad)
              /\ ~dequeue(o.j).recovery
              /\ Mapped(o.entry, dequeue(o.j).root) = Mapped(entry, j.root)
              /\ Value(o.entry, dequeue(o.j).root) = Value(entry, j.root)
              /\ SavedStays(o, Value(entry, j.root))
         /\ o.err # "OK" => Kept(J, o)
<1> DEFINE p == J.tail  e == rewritten(J, p)
           val == Value(entry, J.root)  m == Mapped(entry, J.root)
<1>1. /\ QueueOK(j, entry, saved, bad) /\ ~j.recovery /\ entry \in Entries
      /\ count = Cardinality(Mapped(entry, j.root))
  BY Calm
<1>2. QueueOK(J, entry, saved, bad) /\ J.root = j.root /\ ~J.recovery
  BY <1>1, PeekOK
<1>3. p \in UPages /\ IsTree(entry, J.root) /\ J.head \in UPages /\ J.tail_sync \in UPages
  BY <1>2 DEF QueueOK, RingOK, TreeOK, QJournals
<1>4. p \in Live(entry, J.root)
  BY <1>1, <1>3, CurrentIsLive
<1>5. J.head # p
  <2>1. J.root # PAGE_NONE
    BY <1>1, <1>4, PageNone, NoTree DEF Links
  <2>2. /\ Upto(J.tail_sync, p, J.root) /\ Before(J.tail_sync, J.root, J.head)
        /\ J.root \in Pages /\ J.head \in Pages /\ J.tail_sync \in Pages /\ p \in Pages
    BY <1>2, <1>4, <2>1, PagesOf DEF QueueOK, TreeOK, Between, RingOK
  <2> QED BY <2>2, OrderTrans
<1>6. e \in PageRecords /\ Fits(entry, J.root, e, {p}, val, m)
  <2>1. e = [entry[p] EXCEPT !.alt = trace(entry, J.root, entry[p].id).alt]
    BY TracePath DEF rewritten
  <2> HIDE DEF e, p
  <2> QED BY <1>1, <1>3, <1>4, <2>1, FitsRewritten
<1>7. EnumOK(J, entry, {p})
  BY <1>2 DEF EnumOK
<1>8. IF o.err = "OK" THEN Done(J, o, {p}, val, m) ELSE Kept(J, o)
  <2>1. count = Cardinality(m) /\ o \in append(J, e, count)
    BY <1>1, <1>2
  <2> HIDE DEF e, p, val, m
  <2> QED BY <1>2, <1>6, <1>7, <2>1, AppendOK
<1>9. ASSUME o.err = "OK"
      PROVE  /\ QueueOK(dequeue(o.j), o.entry, o.saved, o.bad)
             /\ ~dequeue(o.j).recovery
             /\ Mapped(o.entry, dequeue(o.j).root) = Mapped(entry, j.root)
             /\ Value(o.entry, dequeue(o.j).root) = Value(entry, j.root)
             /\ SavedStays(o, Value(entry, j.root))
  <2>1. /\ QueueOK(o.j, o.entry, o.saved, o.bad) /\ ~o.j.recovery
        /\ Value(o.entry, o.j.root) = val /\ Mapped(o.entry, o.j.root) = m
        /\ Live(o.entry, o.j.root) \subseteq {o.j.root} \cup (Live(entry, J.root) \ {p})
        /\ SavedStays(o, val)
        /\ o.j.tail = p /\ o.j.root # p
    BY <1>2, <1>5, <1>8, <1>9 DEF Done, SavedStays
  <2>2. o.j.tail \notin Live(o.entry, o.j.root)
    BY <2>1
  <2>3. /\ QueueOK(dequeue(o.j), o.entry, o.saved, o.bad)
        /\ Value(o.entry, dequeue(o.j).root) = Value(o.entry, o.j.root)
        /\ Mapped(o.entry, dequeue(o.j).root) = Mapped(o.entry, o.j.root)
        /\ dequeue(o.j).recovery = o.j.recovery
    BY <2>1, <2>2, DequeueOK
  <2> QED BY <1>2, <2>1, <2>3
<1> QED BY <1>2, <1>8, <1>9

\* What Becomes does for an outcome whose page at the tail is dropped.
LEMMA DroppedBecomes ==
  ASSUME NEW o, Shape(o), Becomes([o EXCEPT !.j = dequeue(@)])
  PROVE  j' = dequeue(o.j) /\ entry' = o.entry /\ saved' = o.saved /\ bad' = o.bad
<1> DEFINE q == [o EXCEPT !.j = dequeue(@)]
<1>1. q.j = dequeue(o.j) /\ q.entry = o.entry /\ q.saved = o.saved /\ q.bad = o.bad
  BY DEF Shape
<1> HIDE DEF q
<1>2. Becomes(q)
  BY DEF q
<1> QED BY <1>1, <1>2 DEF Becomes

\* An iteration of dhara_map_gc keeps the invariant.
LEMMA GcInv ==
  ASSUME num_blocks >= 2, MapInv, NoRecoveryGivenUp, Gc
  PROVE  MapInv' /\ NoRecoveryGivenUp'
<1> DEFINE J == peek(j)
<1>1. ~recovering /\ pc = "gc" /\ pc # "idle"
  BY DEF Gc
<1>2. /\ QueueOK(j, entry, saved, bad) /\ ~j.recovery /\ ControlOK
      /\ count = Cardinality(Mapped(entry, j.root))
  BY <1>1, Calm
<1>3. call.req.op # "clear"
  BY <1>1, <1>2 DEF ControlOK
<1>4. ASSUME Collected PROVE ControlOK' /\ ~recovering'
  BY <1>1, <1>2, <1>4, CollectedOK
<1> HIDE DEF J
<1>5. CASE Collected /\ UNCHANGED <<queueVars, count>>
  <2>1. j' = j /\ entry' = entry /\ saved' = saved /\ bad' = bad /\ count' = count
    BY <1>5 DEF queueVars
  <2> QED BY <1>2, <1>4, <1>5, <2>1, NextCalm
<1>6. CASE /\ j.head # j.tail /\ ~current(J, J.tail)
           /\ j' = dequeue(J) /\ Collected
           /\ UNCHANGED <<entry, saved, bad, fails, count>>
  <2>1. /\ QueueOK(dequeue(J), entry, saved, bad) /\ ~dequeue(J).recovery
        /\ Mapped(entry, dequeue(J).root) = Mapped(entry, j.root)
    BY <1>1, <1>6, TailDropped DEF J
  <2> QED BY <1>2, <1>4, <1>6, <2>1, NextCalm
<1>7. ASSUME j.head # j.tail, current(J, J.tail),
             NEW o \in append(J, rewritten(J, J.tail), count),
             \/ /\ o.err = "OK"
                /\ Becomes([o EXCEPT !.j = dequeue(@)])
                /\ Collected /\ UNCHANGED count
             \/ o.err # "OK" /\ Becomes(o) /\ Failed(o)
      PROVE  MapInv' /\ NoRecoveryGivenUp'
  <2>1. /\ ~J.recovery /\ J.root = j.root
        /\ o.err = "OK" =>
             /\ QueueOK(dequeue(o.j), o.entry, o.saved, o.bad)
             /\ ~dequeue(o.j).recovery
             /\ Mapped(o.entry, dequeue(o.j).root) = Mapped(entry, j.root)
        /\ o.err # "OK" => Kept(J, o)
    BY <1>1, <1>7, TailCopied DEF J
  <2>2. Shape(o)
    BY <1>7, AppendShape
  <2>3. CASE o.err = "OK" /\ Becomes([o EXCEPT !.j = dequeue(@)]) /\ Collected /\ UNCHANGED count
    <3>1. j' = dequeue(o.j) /\ entry' = o.entry /\ saved' = o.saved /\ bad' = o.bad
      BY <2>2, <2>3, DroppedBecomes
    <3> QED BY <1>2, <1>4, <2>1, <2>3, <3>1, NextCalm
  <2>4. CASE o.err # "OK" /\ Becomes(o) /\ Failed(o)
    BY <1>1, <1>3, <2>1, <2>4, FailedOK
  <2> QED BY <1>7, <2>3, <2>4
<1> QED BY <1>5, <1>6, <1>7 DEF Gc, J

\* What a write or a copy appends, when no error is met before.
LEMMA WriteAppends ==
  ASSUME num_blocks >= 2, MapInv, NoRecoveryGivenUp, ~recovering, pc = "do",
         call.req.op = "write" \/ (call.req.op = "copy" /\ call.page # PAGE_NONE),
         NEW dst, dst = call.req.dst,
         NEW o \in append(j, new_page(dst), count_with(dst))
  PROVE  /\ dst \in Sectors
         /\ IF o.err = "OK"
              THEN /\ Done(j, o, {}, [Value(entry, j.root) EXCEPT ![dst] = new_page(dst).data],
                           Mapped(entry, j.root) \cup {dst})
                   /\ count_with(dst) = Cardinality(Mapped(entry, j.root) \cup {dst})
              ELSE Kept(j, o)
<1> DEFINE e == new_page(dst)
           m == Mapped(entry, j.root) \cup {dst}
           val == [Value(entry, j.root) EXCEPT ![dst] = e.data]
<1>1. /\ QueueOK(j, entry, saved, bad) /\ ~j.recovery /\ ControlOK /\ EnumOK(j, entry, {})
      /\ count = Cardinality(Mapped(entry, j.root)) /\ entry \in Entries
      /\ IsTree(entry, j.root) /\ j.root \in Links /\ call \in Calls
  BY Calm
<1>2. /\ dst \in Sectors
      /\ call.req.op = "write" => call.req.data \in Data
  BY <1>1, RequestFields DEF ControlOK, Calls
<1>3. trace_path(j.root, dst) = trace(entry, j.root, dst)
  BY TracePath
<1>4. trace(entry, j.root, dst).alt \in Alts
  <2>1. DEPTH \in 0 .. DEPTH
    BY MapAssumption
  <2>2. walk(entry, j.root, dst)[DEPTH] \in Points
    BY <1>1, <2>1, WalkTyped
  <2> QED BY <2>2 DEF Points, trace
<1>5. /\ e \in PageRecords /\ e.id = dst /\ e.alt = trace(entry, j.root, dst).alt
  <2> DEFINE d == IF call.req.op = "write" THEN call.req.data ELSE entry[call.page].data
  <2>1. d \in Data \cup {MISSING}
    <3>1. CASE call.req.op = "write"
      BY <1>2, <3>1
    <3>2. CASE call.req.op # "write"
      <4>1. call.page \in UPages
        BY <1>1, <3>2 DEF Calls, Links
      <4> QED BY <1>1, <3>2, <4>1 DEF Entries
    <3> QED BY <3>1, <3>2
  <2> HIDE DEF d
  <2>2. e = [id |-> dst, alt |-> trace(entry, j.root, dst).alt, data |-> d]
    BY <1>3 DEF new_page, d
  <2> QED BY <1>2, <1>4, <2>1, <2>2 DEF PageRecords
<1> HIDE DEF e
<1>6. Fits(entry, j.root, e, {}, val, m)
  BY <1>1, <1>2, <1>5, FitsWrite
<1>7. count_with(dst) = Cardinality(m)
  <2> DEFINE M == Mapped(entry, j.root)
  <2>1. IsFiniteSet(M)
    BY <1>1, LiveCount DEF IsTree
  <2>2. trace(entry, j.root, dst).ok <=> dst \in M
    BY <1>2 DEF Mapped
  <2>3. count_with(dst) = IF dst \in M THEN Cardinality(M) ELSE Cardinality(M) + 1
    BY <1>1, <1>3, <2>2 DEF count_with
  <2> HIDE DEF M
  <2>4. Cardinality(M \cup {dst}) = IF dst \in M THEN Cardinality(M) ELSE Cardinality(M) + 1
    BY <2>1, FS_AddElement
  <2> QED BY <2>3, <2>4 DEF M
<1>8. o \in append(j, e, count_with(dst))
  BY DEF e
<1> HIDE DEF m, val
<1>9. IF o.err = "OK" THEN Done(j, o, {}, val, m) ELSE Kept(j, o)
  BY <1>1, <1>5, <1>6, <1>7, <1>8, AppendOK
<1> QED BY <1>2, <1>7, <1>9 DEF m, val, e

\* An attempt to write or copy keeps the invariant.
LEMMA WriteInv ==
  ASSUME num_blocks >= 2, MapInv, NoRecoveryGivenUp, Write
  PROVE  MapInv' /\ NoRecoveryGivenUp'
<1> DEFINE dst == call.req.dst
<1>1. /\ ~recovering /\ pc = "do" /\ pc # "idle"
      /\ call.req.op = "write" \/ (call.req.op = "copy" /\ call.page # PAGE_NONE)
      /\ call.req.op # "clear"
  BY DEF Write
<1>2. /\ QueueOK(j, entry, saved, bad) /\ ~j.recovery
      /\ count = Cardinality(Mapped(entry, j.root))
  BY <1>1, Calm
<1>3. CASE Return(FALSE) /\ UNCHANGED <<queueVars, count>>
  <2>1. j' = j /\ entry' = entry /\ saved' = saved /\ bad' = bad /\ count' = count
    BY <1>3 DEF queueVars
  <2>2. ControlOK' /\ ~recovering'
    BY <1>3, ReturnOK
  <2> QED BY <1>2, <2>1, <2>2, NextCalm
<1>4. ASSUME NEW o \in append(j, new_page(dst), count_with(dst)), Becomes(o),
             \/ o.err = "OK" /\ count' = count_with(dst) /\ Return(TRUE)
             \/ o.err # "OK" /\ Failed(o)
      PROVE  MapInv' /\ NoRecoveryGivenUp'
  <2>1. IF o.err = "OK"
          THEN /\ Done(j, o, {}, [Value(entry, j.root) EXCEPT ![dst] = new_page(dst).data],
                       Mapped(entry, j.root) \cup {dst})
               /\ count_with(dst) = Cardinality(Mapped(entry, j.root) \cup {dst})
          ELSE Kept(j, o)
    BY <1>1, <1>4, WriteAppends
  <2>2. CASE o.err = "OK" /\ count' = count_with(dst) /\ Return(TRUE)
    <3>1. ControlOK' /\ ~recovering'
      BY <2>2, ReturnOK
    <3>2. /\ QueueOK(o.j, o.entry, o.saved, o.bad) /\ ~o.j.recovery
          /\ count' = Cardinality(Mapped(o.entry, o.j.root))
      BY <1>2, <2>1, <2>2 DEF Done
    <3>3. o.j = j' /\ o.entry = entry' /\ o.saved = saved' /\ o.bad = bad'
      BY <1>4 DEF Becomes
    <3> QED BY <3>1, <3>2, <3>3, NextCalm
  <2>3. CASE o.err # "OK" /\ Failed(o)
    BY <1>1, <1>2, <1>4, <2>1, <2>3, FailedOK
  <2> QED BY <1>4, <2>2, <2>3
<1> QED BY <1>3, <1>4 DEF Write

\* A set without one of its elements.
LEMMA OneLess ==
  ASSUME NEW M, IsFiniteSet(M), NEW d \in M
  PROVE  Cardinality(M \ {d}) = Cardinality(M) - 1
BY FS_RemoveElement

\* What a trim appends: its sector's closest cousin.
LEMMA TrimAppends ==
  ASSUME num_blocks >= 2, MapInv, NoRecoveryGivenUp, ~recovering, pc = "do",
         call.req.op \in {"trim", "copy"},
         NEW dst, dst = call.req.dst, NEW t, t = trace_path(j.root, dst), t.ok,
         NEW level \in Levels, EndsAt(t.alt, level),
         NEW o \in append(j, without(t, level, t.alt[level]), count - 1)
  PROVE  /\ dst \in Sectors
         /\ IF o.err = "OK"
              THEN /\ Done(j, o, {}, [Value(entry, j.root) EXCEPT ![dst] = MISSING],
                           Mapped(entry, j.root) \ {dst})
                   /\ count - 1 = Cardinality(Mapped(entry, j.root) \ {dst})
              ELSE Kept(j, o)
<1> DEFINE e == without(t, level, t.alt[level])
           m == Mapped(entry, j.root) \ {dst}
           val == [Value(entry, j.root) EXCEPT ![dst] = MISSING]
<1>1. /\ QueueOK(j, entry, saved, bad) /\ ~j.recovery /\ ControlOK /\ EnumOK(j, entry, {})
      /\ count = Cardinality(Mapped(entry, j.root)) /\ entry \in Entries
      /\ IsTree(entry, j.root) /\ j.root \in Links /\ call \in Calls
  BY Calm
<1>2. dst \in Sectors
  BY <1>1, RequestFields DEF ControlOK, Calls
<1>3. t = trace(entry, j.root, dst) /\ dst \in Mapped(entry, j.root)
  BY <1>2, TracePath DEF Mapped
<1>4. e \in PageRecords /\ Fits(entry, j.root, e, {}, val, m)
  <2>2. e = without(t, level, t.alt[level])
    OBVIOUS
  <2> HIDE DEF val, m, e
  <2> DEFINE r == j.root
  <2>3. IsTree(entry, r) /\ dst \in Mapped(entry, r) /\ t = trace(entry, r, dst) /\ entry \in Entries
    BY <1>1, <1>3
  <2> HIDE DEF r
  <2>1. e \in PageRecords
        /\ Fits(entry, r, e, {}, [Value(entry, r) EXCEPT ![dst] = MISSING],
                Mapped(entry, r) \ {dst})
    BY <2>2, <2>3, FitsWithout
  <2> QED BY <2>1 DEF val, m, r
<1>5. count - 1 = Cardinality(m)
  <2> DEFINE M == Mapped(entry, j.root)
  <2>1. IsFiniteSet(M) /\ dst \in M
    BY <1>1, <1>3, LiveCount DEF IsTree
  <2> HIDE DEF M
  <2>2. Cardinality(M \ {dst}) = Cardinality(M) - 1
    BY <2>1, OneLess
  <2> QED BY <1>1, <2>2 DEF M
<1>6. o \in append(j, e, count - 1)
  OBVIOUS
<1> HIDE DEF m, val, e
<1>7. IF o.err = "OK" THEN Done(j, o, {}, val, m) ELSE Kept(j, o)
  BY <1>1, <1>4, <1>5, <1>6, AppendOK
<1> QED BY <1>2, <1>5, <1>7 DEF m, val

\* An attempt to trim keeps the invariant.
LEMMA TrimInv ==
  ASSUME num_blocks >= 2, MapInv, NoRecoveryGivenUp, Trim
  PROVE  MapInv' /\ NoRecoveryGivenUp'
<1> DEFINE dst == call.req.dst
           t == trace_path(j.root, dst)
           cousins == {l \in Levels : t.alt[l] # PAGE_NONE}
           level == CHOOSE l \in cousins : \A k \in cousins : k <= l
<1>1. /\ ~recovering /\ pc = "do" /\ pc # "idle"
      /\ call.req.op \in {"trim", "copy"} /\ call.req.op # "clear"
  BY DEF Trim
<1>2. /\ QueueOK(j, entry, saved, bad) /\ ~j.recovery
      /\ count = Cardinality(Mapped(entry, j.root))
  BY <1>1, Calm
<1>3. CASE Return(TRUE) /\ UNCHANGED <<queueVars, count>>
  <2>1. j' = j /\ entry' = entry /\ saved' = saved /\ bad' = bad /\ count' = count
    BY <1>3 DEF queueVars
  <2>2. ControlOK' /\ ~recovering'
    BY <1>3, ReturnOK
  <2> QED BY <1>2, <2>1, <2>2, NextCalm
<1>4. CASE /\ count' = 0
           /\ j' = dhara_journal_clear(j)
           /\ Return(TRUE) /\ UNCHANGED <<entry, saved, bad, fails>>
  <2> DEFINE K == dhara_journal_clear(j)
  <2>1. QueueOK(K, entry, saved, bad) /\ ~K.recovery /\ Mapped(entry, K.root) = {}
    BY <1>2, ClearOK
  <2> HIDE DEF K
  <2>2. Cardinality(Mapped(entry, K.root)) = 0
    BY <2>1, FS_EmptySet
  <2>3. ControlOK' /\ ~recovering'
    BY <1>4, ReturnOK
  <2>4. K = j'
    BY <1>4 DEF K
  <2> QED BY <1>4, <2>1, <2>2, <2>3, <2>4, NextCalm
<1>5. ASSUME t.ok, cousins # {},
             NEW o \in append(j, without(t, level, t.alt[level]), count - 1),
             Becomes(o),
             \/ o.err = "OK" /\ count' = count - 1 /\ Return(TRUE)
             \/ o.err # "OK" /\ Failed(o)
      PROVE  MapInv' /\ NoRecoveryGivenUp'
  <2>4. level \in Levels /\ EndsAt(t.alt, level)
    BY <1>5, ClosestCousin
  <2> HIDE DEF level, cousins
  <2>1. IF o.err = "OK"
          THEN /\ Done(j, o, {}, [Value(entry, j.root) EXCEPT ![dst] = MISSING],
                       Mapped(entry, j.root) \ {dst})
               /\ count - 1 = Cardinality(Mapped(entry, j.root) \ {dst})
          ELSE Kept(j, o)
    BY <1>1, <1>5, <2>4, TrimAppends
  <2>2. CASE o.err = "OK" /\ count' = count - 1 /\ Return(TRUE)
    <3>1. ControlOK' /\ ~recovering'
      BY <2>2, ReturnOK
    <3>2. /\ QueueOK(o.j, o.entry, o.saved, o.bad) /\ ~o.j.recovery
          /\ count' = Cardinality(Mapped(o.entry, o.j.root))
      BY <1>2, <2>1, <2>2 DEF Done
    <3>3. o.j = j' /\ o.entry = entry' /\ o.saved = saved' /\ o.bad = bad'
      BY <1>5 DEF Becomes
    <3> QED BY <3>1, <3>2, <3>3, NextCalm
  <2>3. CASE o.err # "OK" /\ Failed(o)
    BY <1>1, <1>2, <1>5, <2>1, <2>3, FailedOK
  <2> QED BY <1>5, <2>2, <2>3
<1> QED BY <1>3, <1>4, <1>5 DEF Trim

\* pad_queue appends the root once more, or filler.
LEMMA PadAppends ==
  ASSUME num_blocks >= 2, QueueOK(j, entry, saved, bad), EnumOK(j, entry, {}),
         count = Cardinality(Mapped(entry, j.root)), NEW o \in pad_queue(j)
  PROVE  IF o.err = "OK"
           THEN Done(j, o, {}, Value(entry, j.root), Mapped(entry, j.root))
           ELSE Kept(j, o)
<1> DEFINE e == IF j.root = PAGE_NONE THEN Filler ELSE entry[j.root]
<1>1. entry \in Entries /\ IsTree(entry, j.root)
  BY DEF QueueOK, TreeOK
<1>2. e \in PageRecords /\ Fits(entry, j.root, e, {}, Value(entry, j.root), Mapped(entry, j.root))
  BY <1>1, FitsPadding
<1>3. o \in append(j, e, count)
  BY DEF pad_queue
<1> HIDE DEF e
<1> QED BY <1>2, <1>3, AppendOK

\* An iteration of dhara_map_sync keeps the invariant.
LEMMA SyncInv ==
  ASSUME num_blocks >= 2, MapInv, NoRecoveryGivenUp, Sync
  PROVE  MapInv' /\ NoRecoveryGivenUp'
<1> DEFINE J == peek(j)
           Goes(o) == \/ /\ o.err = "OK" /\ UNCHANGED count
                         /\ Stay /\ call' = [call EXCEPT !.tries = 0]
                      \/ o.err # "OK" /\ Failed(o)
<1>1. ~recovering /\ pc = "do" /\ pc # "idle" /\ call.req.op # "clear"
  BY DEF Sync
<1>2. /\ QueueOK(j, entry, saved, bad) /\ ~j.recovery /\ ControlOK /\ call \in Calls
      /\ count = Cardinality(Mapped(entry, j.root)) /\ EnumOK(j, entry, {})
  BY <1>1, Calm
<1>3. ASSUME Stay, call' = [call EXCEPT !.tries = 0] \/ call' = call
      PROVE  ControlOK' /\ ~recovering'
  <2>1. SameCall(call') /\ pc' = pc /\ ok' = ok /\ ~recovering'
    BY <1>1, <1>2, <1>3 DEF Calls, SameCall, Stay
  <2> QED BY <1>2, <2>1, StayOK
<1> HIDE DEF J
<1>4. CASE Return(TRUE) /\ UNCHANGED <<queueVars, count>>
  <2>1. j' = j /\ entry' = entry /\ saved' = saved /\ bad' = bad /\ count' = count
    BY <1>4 DEF queueVars
  <2>2. ControlOK' /\ ~recovering'
    BY <1>4, ReturnOK
  <2> QED BY <1>2, <2>1, <2>2, NextCalm
<1>5. ASSUME NEW o \in pad_queue(j), Becomes(o), Goes(o) PROVE MapInv'
  <2>1. IF o.err = "OK"
          THEN Done(j, o, {}, Value(entry, j.root), Mapped(entry, j.root))
          ELSE Kept(j, o)
    BY <1>2, <1>5, PadAppends
  <2>2. CASE o.err = "OK" /\ UNCHANGED count /\ Stay /\ call' = [call EXCEPT !.tries = 0]
    <3>1. ControlOK' /\ ~recovering'
      BY <1>3, <2>2
    <3>2. /\ QueueOK(o.j, o.entry, o.saved, o.bad) /\ ~o.j.recovery
          /\ count' = Cardinality(Mapped(o.entry, o.j.root))
      BY <1>2, <2>1, <2>2 DEF Done
    <3>3. o.j = j' /\ o.entry = entry' /\ o.saved = saved' /\ o.bad = bad'
      BY <1>5 DEF Becomes
    <3> QED BY <3>1, <3>2, <3>3, NextCalm
  <2>3. CASE o.err # "OK" /\ Failed(o)
    BY <1>1, <1>2, <1>5, <2>1, <2>3, FailedOK
  <2> QED BY <1>5, <2>2, <2>3
<1>6. CASE /\ j.head # j.tail /\ ~current(J, J.tail)
           /\ j' = dequeue(J)
           /\ UNCHANGED <<entry, saved, bad, fails, count, call>> /\ Stay
  <2>1. /\ QueueOK(dequeue(J), entry, saved, bad) /\ ~dequeue(J).recovery
        /\ Mapped(entry, dequeue(J).root) = Mapped(entry, j.root)
    BY <1>1, <1>6, TailDropped DEF J
  <2>2. ControlOK' /\ ~recovering'
    BY <1>3, <1>6
  <2> QED BY <1>2, <1>6, <2>1, <2>2, NextCalm
<1>7. ASSUME j.head # j.tail, current(J, J.tail),
             NEW o \in append(J, rewritten(J, J.tail), count),
             Becomes(IF o.err = "OK" THEN [o EXCEPT !.j = dequeue(@)] ELSE o), Goes(o)
      PROVE  MapInv' /\ NoRecoveryGivenUp'
  <2>1. /\ ~J.recovery /\ J.root = j.root
        /\ o.err = "OK" =>
             /\ QueueOK(dequeue(o.j), o.entry, o.saved, o.bad)
             /\ ~dequeue(o.j).recovery
             /\ Mapped(o.entry, dequeue(o.j).root) = Mapped(entry, j.root)
        /\ o.err # "OK" => Kept(J, o)
    BY <1>1, <1>7, TailCopied DEF J
  <2>2. Shape(o)
    BY <1>7, AppendShape
  <2>3. CASE o.err = "OK" /\ UNCHANGED count /\ Stay /\ call' = [call EXCEPT !.tries = 0]
    <3>1. Becomes([o EXCEPT !.j = dequeue(@)])
      BY <1>7, <2>3
    <3>2. j' = dequeue(o.j) /\ entry' = o.entry /\ saved' = o.saved /\ bad' = o.bad
      BY <2>2, <3>1, DroppedBecomes
    <3>3. ControlOK' /\ ~recovering'
      BY <1>3, <2>3
    <3> QED BY <1>2, <2>1, <2>3, <3>2, <3>3, NextCalm
  <2>4. CASE o.err # "OK" /\ Failed(o)
    <3>1. Becomes(o)
      BY <1>7, <2>4
    <3> QED BY <1>1, <2>1, <2>4, <3>1, FailedOK
  <2> QED BY <1>7, <2>3, <2>4
<1>8. MapInv'
  BY <1>4, <1>5, <1>6, <1>7 DEF Sync, J
<1>9. NoRecoveryGivenUp'
  BY <1>4, <1>5, <1>6, <1>7 DEF Sync, J
<1> QED BY <1>8, <1>9

\* dhara_map_clear keeps the invariant.
LEMMA ClearInv ==
  ASSUME MapInv, NoRecoveryGivenUp, Clear
  PROVE  MapInv' /\ NoRecoveryGivenUp'
<1> DEFINE K == dhara_journal_clear(j)
<1>1. ~recovering
  BY DEF MapInv, ControlOK, Clear
<1>2. /\ QueueOK(j, entry, saved, bad) /\ ~j.recovery
      /\ count = Cardinality(Mapped(entry, j.root))
  BY <1>1, Calm
<1>3. ControlOK' /\ ~recovering'
  BY ReturnOK DEF Clear
<1>4. entry' = entry /\ saved' = saved /\ bad' = bad
  BY DEF Clear
<1>5. CASE UNCHANGED <<j, count>>
  BY <1>2, <1>3, <1>4, <1>5, NextCalm
<1>6. CASE count' = 0 /\ j' = K
  <2>1. QueueOK(K, entry, saved, bad) /\ ~K.recovery /\ Mapped(entry, K.root) = {}
    BY <1>2, ClearOK
  <2> HIDE DEF K
  <2>2. Cardinality(Mapped(entry, K.root)) = 0
    BY <2>1, FS_EmptySet
  <2> QED BY <1>3, <1>4, <1>6, <2>1, <2>2, NextCalm
<1> QED BY <1>5, <1>6 DEF Clear

\* A power failure keeps the invariant.
LEMMA CrashInv ==
  ASSUME num_blocks >= 2, MapInv, Crash
  PROVE  MapInv' /\ NoRecoveryGivenUp'
<1>1. QueueOK(j, entry, saved, bad) /\ ~j.recovery /\ entry \in Entries
  BY DEF MapInv, QueueOK, Crash, Restarted
<1>2. j' = resumed /\ saved' = saved /\ bad' = bad /\ count' = saved.count
  BY DEF Crash, Restarted
<1>3. entry' = [p \in UPages |->
                  IF /\ saved # NoCheckpoint
                     /\ p \notin queue(next_upage(saved.root), j.head)
                    THEN entry[p] ELSE without_meta(entry[p])]
  BY DEF Crash, Restarted
<1>4. Recalled(entry')
  BY <1>1, <1>3, RestartedPages
<1>5. /\ QueueOK(j', entry', saved, bad) /\ ~j'.recovery
      /\ Mapped(entry', j'.root) = Mapped(entry, saved.root)
  BY <1>1, <1>2, <1>4, RestartOK
<1>6. ControlOK' /\ ~recovering'
  BY ReturnOK DEF Crash
<1>7. saved.count = Cardinality(Mapped(entry, saved.root))
  BY <1>1 DEF QueueOK, SavedOK
<1> QED BY <1>2, <1>5, <1>6, <1>7, NextCalm

\* The invariant holds of an empty chip.
LEMMA InitInv ==
  ASSUME MapInit
  PROVE  MapInv
<1>1. /\ j = EmptyJournal /\ entry = [p \in UPages |-> Filler] /\ saved = NoCheckpoint
      /\ bad = {} /\ count = 0 /\ pc = "idle" /\ recovering = FALSE /\ call = NoCall
  BY DEF MapInit, QueueInit
<1>2. entry \in Entries /\ \A p \in UPages : entry[p].id = SECTOR_NONE
  <2>1. Filler \in PageRecords /\ Filler.id = SECTOR_NONE
    BY DEF Filler, PageRecords, NoAlts, Alts, Links
  <2> HIDE DEF Filler
  <2> QED BY <1>1, <2>1 DEF Entries, PageRecords
<1>3. /\ QueueOK(j, entry, saved, bad) /\ ~j.recovery /\ j.root = PAGE_NONE
      /\ Mapped(entry, PAGE_NONE) = {}
  BY <1>1, <1>2, EmptyOK
<1>4. CountOK
  BY <1>1, <1>3, FS_EmptySet DEF CountOK
<1>5. ControlOK
  <2>1. NoCall \in Calls /\ NoCall.req = D!NoRequest
    BY DEF NoCall, Calls, Links
  <2> QED BY <1>1, <2>1 DEF ControlOK
<1> QED BY <1>1, <1>3, <1>4, <1>5 DEF MapInv, EnumOK

\* A recovery that has not been given up goes on, or has left the journal in no
\* recovery.
RecoveryGoesOn(k) ==
  \/ k.recovery /\ Stay /\ UNCHANGED call
  \/ /\ ~k.recovery /\ pc = "do" /\ Enter(call, k)
  \/ /\ ~k.recovery /\ pc = "gc"
     /\ recovering' = FALSE /\ UNCHANGED <<pc, call, ok>>

\* Control is as it should be then.
LEMMA GoesOnOK ==
  ASSUME ControlOK, recovering, NEW k, RecoveryGoesOn(k)
  PROVE  ControlOK' /\ (recovering' => k.recovery)
<1>1. call \in Calls /\ call.req \in D!Requests /\ call.req.op # "clear"
  BY DEF ControlOK, Calls
<1>2. CASE k.recovery /\ Stay /\ UNCHANGED call
  <2>1. SameCall(call') /\ pc' = pc /\ ok' = ok
    BY <1>1, <1>2 DEF SameCall, Stay
  <2> QED BY <1>2, <2>1, StayOK DEF Stay
<1>3. CASE Enter(call, k)
  BY <1>1, <1>3, EnterOK
<1>4. CASE recovering' = FALSE /\ UNCHANGED <<pc, call, ok>>
  <2>1. SameCall(call') /\ pc' = pc /\ ok' = ok
    BY <1>1, <1>4 DEF SameCall
  <2> QED BY <1>4, <2>1, StayOK
<1> QED BY <1>2, <1>3, <1>4 DEF RecoveryGoesOn

\* What a page that is appended during a recovery leaves.
RecoveryAfter(o) ==
  \/ o.err = "OK" /\ RecoveryGoesOn(o.j)
  \/ /\ o.err = "RECOVER" /\ call.restarts < MAX_RETRIES
     /\ Stay /\ call' = [call EXCEPT !.restarts = @ + 1]
  \/ /\ o.err = "RECOVER" /\ call.restarts >= MAX_RETRIES
     /\ Return(FALSE)
  \/ o.err \notin {"OK", "RECOVER"} /\ Return(FALSE)

\* The invariant holds after such a page.
LEMMA AfterOK ==
  ASSUME MapInv, recovering, NEW J, J.recovery, NEW gone, NEW o, NEW val, NEW m,
         m = Mapped(entry, j.root), Mapped(entry, J.root) = m,
         IF o.err = "OK" THEN Done(J, o, gone, val, m) ELSE Kept(J, o),
         Becomes(o), UNCHANGED count, RecoveryAfter(o), NoRecoveryGivenUp'
  PROVE  MapInv'
<1>1. ControlOK /\ call \in Calls /\ count = Cardinality(Mapped(entry, j.root))
  BY DEF MapInv, ControlOK, CountOK
<1>2. o.j = j' /\ o.entry = entry' /\ o.saved = saved' /\ o.bad = bad'
  BY DEF Becomes
<1>3. CASE o.err = "OK" /\ RecoveryGoesOn(o.j)
  <2>1. /\ QueueOK(o.j, o.entry, o.saved, o.bad) /\ EnumOK(o.j, o.entry, {})
        /\ Mapped(o.entry, o.j.root) = m
    BY <1>3 DEF Done
  <2>2. ControlOK' /\ (recovering' => o.j.recovery)
    BY <1>1, <1>3, GoesOnOK
  <2> QED BY <1>1, <1>2, <2>1, <2>2, NextInv
<1>4. CASE o.err = "RECOVER" /\ Stay /\ call' = [call EXCEPT !.restarts = @ + 1]
  <2>1. /\ QueueOK(o.j, o.entry, o.saved, o.bad) /\ EnumOK(o.j, o.entry, {})
        /\ Mapped(o.entry, o.j.root) = m /\ o.j.recovery
    BY <1>4 DEF Kept
  <2>2. SameCall(call') /\ pc' = pc /\ ok' = ok
    BY <1>1, <1>4 DEF SameCall, Stay, Calls
  <2>3. ControlOK'
    BY <1>1, <2>2, StayOK
  <2> QED BY <1>1, <1>2, <2>1, <2>3, NextInv
<1>5. CASE o.err # "OK" /\ Return(FALSE)
  <2>1. o.j.recovery
    BY <1>5 DEF Kept
  <2>2. ~recovering'
    BY <1>5, ReturnOK
  <2> QED BY <1>2, <2>1, <2>2 DEF NoRecoveryGivenUp
<1> QED BY <1>3, <1>4, <1>5 DEF RecoveryAfter

\* An iteration of try_recover keeps the invariant.
LEMMA RecoverInv ==
  ASSUME num_blocks >= 2, MapInv, NoRecoveryGivenUp, Recover, NoRecoveryGivenUp'
  PROVE  MapInv'
<1> DEFINE x == j.recover_next
           J == next_recoverable(j)
           jj == IF j.enum_done THEN j ELSE J
           val == Value(entry, j.root)
           m == Mapped(entry, j.root)
<1>1. /\ recovering /\ j.recovery /\ ControlOK /\ QueueOK(j, entry, saved, bad)
      /\ EnumOK(j, entry, {}) /\ count = Cardinality(m) /\ count' = count
      /\ entry \in Entries /\ IsTree(entry, j.root) /\ x \in UPages
  BY DEF Recover, MapInv, CountOK, QueueOK, TreeOK, RecOK
<1>2. ~j.enum_done => /\ QueueOK(J, entry, saved, bad) /\ EnumOK(J, entry, {x})
                      /\ J.root = j.root /\ J.recovery
  BY <1>1, EnumerateOK
<1>3. current(j, x) <=> x \in Live(entry, j.root)
  BY <1>1, CurrentIsLive
<1> HIDE DEF J, x
<1>4. CASE /\ ~j.enum_done /\ ~current(j, x)
           /\ j' = jj /\ RecoveryGoesOn(jj)
           /\ UNCHANGED <<entry, saved, bad, fails>>
  <2>1. jj = J
    BY <1>4
  <2>2. EnumOK(J, entry, {})
    BY <1>2, <1>3, <1>4 DEF EnumOK
  <2>3. ControlOK' /\ (recovering' => J.recovery)
    BY <1>1, <1>4, <2>1, GoesOnOK
  <2> QED BY <1>1, <1>2, <1>4, <2>1, <2>2, <2>3, NextInv
<1>5. ASSUME ~j.enum_done, current(j, x),
             NEW o \in append(jj, rewritten(j, x), count), Becomes(o), RecoveryAfter(o)
      PROVE  MapInv'
  <2> DEFINE e == rewritten(j, x)
  <2>1. e = [entry[x] EXCEPT !.alt = trace(entry, j.root, entry[x].id).alt]
    BY TracePath DEF rewritten
  <2> HIDE DEF e
  <2>2. e \in PageRecords /\ Fits(entry, j.root, e, {x}, val, m)
    BY <1>1, <1>3, <1>5, <2>1, FitsRewritten
  <2>3. o \in append(J, e, count)
    BY <1>5 DEF e
  <2> HIDE DEF val, m
  <2>4. val = Value(entry, J.root) /\ m = Mapped(entry, J.root) /\ m = Mapped(entry, j.root)
    BY <1>2, <1>5 DEF val, m
  <2>5. IF o.err = "OK" THEN Done(J, o, {x}, val, m) ELSE Kept(J, o)
    BY <1>1, <1>2, <1>5, <2>2, <2>3, <2>4, AppendOK
  <2> QED BY <1>1, <1>2, <1>5, <2>4, <2>5, AfterOK
<1>6. ASSUME j.enum_done, NEW o \in pad_queue(j), Becomes(o), RecoveryAfter(o)
      PROVE  MapInv'
  <2>1. IF o.err = "OK" THEN Done(j, o, {}, val, m) ELSE Kept(j, o)
    BY <1>1, <1>6, PadAppends
  <2> HIDE DEF val
  <2> QED BY <1>1, <1>6, <2>1, AfterOK
<1> QED BY <1>4, <1>5, <1>6 DEF Recover, J, x, RecoveryGoesOn, RecoveryAfter

-----------------------------------------------------------------------------
(* Theorems                                                                *)

\* The invariant is inductive, as long as no recovery is given up.
LEMMA StepInv ==
  ASSUME num_blocks >= 2, MapInv, NoRecoveryGivenUp, NoRecoveryGivenUp', [MapNext]_mapVars
  PROVE  MapInv'
<1>1. ASSUME NEW r \in D!Requests, Begin(r) PROVE MapInv'
  BY <1>1, BeginInv
<1>2. CASE UNCHANGED mapVars
  <2>1. /\ j' = j /\ entry' = entry /\ saved' = saved /\ bad' = bad
        /\ count' = count /\ pc' = pc /\ recovering' = recovering /\ call' = call
        /\ ok' = ok
    BY <1>2 DEF mapVars, queueVars
  <2> QED BY <2>1 DEF MapInv, CountOK, ControlOK
<1> QED BY <1>1, <1>2, GcInv, WriteInv, TrimInv, SyncInv, ClearInv, RecoverInv, CrashInv
        DEF MapNext

\* The invariant holds on every behaviour of the map in which no recovery is
\* given up, on every chip of two blocks or more.
THEOREM MapInvariance ==
  ASSUME num_blocks >= 2
  PROVE  MapSpec /\ []NoRecoveryGivenUp => []MapInv
<1>1. MapInit => MapInv
  BY InitInv
<1>2. MapInv /\ NoRecoveryGivenUp /\ NoRecoveryGivenUp' /\ [MapNext]_mapVars => MapInv'
  BY StepInv
<1> QED BY <1>1, <1>2, PTL DEF MapSpec

\* The operators of Map are those of the trees.
LEMMA LiveIs ==
  ASSUME NEW r
  PROVE  live(r) = Live(entry, r)
<1>1. ASSUME NEW s \in Sectors PROVE trace_path(r, s) = trace(entry, r, s)
  BY TracePath
<1> QED BY <1>1 DEF live, Live, Mapped

\* The same for what dhara_map_read finds.
LEMMA LookupIs ==
  ASSUME NEW r
  PROVE  lookup(r) = Value(entry, r)
<1>1. ASSUME NEW s \in Sectors PROVE trace_path(r, s) = trace(entry, r, s)
  BY TracePath
<1> QED BY <1>1 DEF lookup, Value

\* Pages, counters and the call stay in their ranges, and a call recovers only
\* a journal that is in recovery.
LEMMA TypeFromInv ==
  ASSUME MapInv
  PROVE  MapTypeOK
<1>1. /\ QueueOK(j, entry, saved, bad) /\ CountOK /\ ControlOK
      /\ recovering => j.recovery
      /\ entry \in Entries /\ j \in QJournals /\ saved \in Checkpoints /\ bad \subseteq Blocks
      /\ IsTree(entry, j.root)
  BY DEF MapInv, QueueOK, RingOK, TreeOK, SavedOK, BadOK
<1>2. /\ {j.head, j.tail, j.tail_sync} \subseteq UPages
      /\ {j.root, saved.root} \subseteq UPages \cup {PAGE_NONE}
  BY <1>1 DEF QJournals, Checkpoints, Links
<1>3. count \in 0 .. Cardinality(Sectors)
  BY <1>1, LiveCount DEF CountOK, IsTree
<1>4. \A p \in UPages :
       /\ entry[p].id \in Sectors \cup {SECTOR_NONE}
       /\ entry[p].alt \in [Levels -> UPages \cup {PAGE_NONE}]
       /\ entry[p].data \in Data \cup {MISSING}
  BY <1>1 DEF Entries, Alts, Links
<1>5. pc \in {"idle", "gc", "do"} /\ call.req \in D!Requests \cup {D!NoRequest}
  BY <1>1 DEF ControlOK, Calls
<1> QED BY <1>1, <1>2, <1>3, <1>4, <1>5 DEF MapTypeOK

\* The count is that of the tree: a tree has as many pages as sectors.
LEMMA CountFromInv ==
  ASSUME MapInv
  PROVE  CountIsMapped
<1>1. /\ entry \in Entries /\ IsTree(entry, j.root) /\ IsTree(entry, saved.root)
      /\ count = Cardinality(Mapped(entry, j.root))
      /\ saved.count = Cardinality(Mapped(entry, saved.root))
  BY DEF MapInv, QueueOK, TreeOK, SavedOK, CountOK
<1>2. /\ Cardinality(Live(entry, j.root)) = Cardinality(Mapped(entry, j.root))
      /\ Cardinality(Live(entry, saved.root)) = Cardinality(Mapped(entry, saved.root))
  BY <1>1, LiveCount DEF IsTree
<1> QED BY <1>1, <1>2, LiveIs DEF CountIsMapped

\* The queue holds the trees.
LEMMA QueuedFromInv ==
  ASSUME MapInv
  PROVE  LiveIsQueued
<1> DEFINE f == j.tail_sync  t == j.tail  h == j.head
<1>1. /\ entry \in Entries /\ RingOK(j) /\ TreeOK(j, entry) /\ SavedOK(j, entry, saved)
      /\ f \in Pages /\ t \in Pages /\ h \in Pages
      /\ Live(entry, j.root) \subseteq UPages /\ Live(entry, saved.root) \subseteq UPages
  BY PagesOf, LiveCount DEF MapInv, QueueOK, RingOK, TreeOK, SavedOK, IsTree
<1>2. ASSUME NEW p \in Live(entry, j.root) PROVE p \in queue(t, h)
  <2>1. /\ j.root # PAGE_NONE /\ p \in UPages /\ p \in Pages
        /\ Upto(f, t, p) /\ Upto(f, p, j.root)
    BY <1>1, PagesOf, PageNone, NoTree DEF TreeOK, Between, Links
  <2>2. Before(f, j.root, h) /\ j.root \in Pages
    BY <1>1, <2>1, PagesOf DEF RingOK
  <2>3. Before(t, p, h)
    BY <1>1, <2>1, <2>2, OrderTrans, TailMoves
  <2> QED BY <2>1, <2>3, InQueue
<1>3. ASSUME NEW p \in Live(entry, saved.root) PROVE p \in queue(f, h)
  <2>1. saved.root # PAGE_NONE
    BY <1>1, PageNone, NoTree DEF Links
  <2>2. /\ saved.root \in UPages /\ saved.root \in Pages
        /\ Upto(f, p, saved.root) /\ Before(f, saved.root, h)
        /\ p \in UPages /\ p \in Pages
    BY <1>1, <2>1, PagesOf DEF SavedOK, Checkpoints, Links
  <2>3. Before(f, p, h)
    BY <1>1, <2>2, OrderTrans
  <2> QED BY <2>2, <2>3, InQueue
<1> QED BY <1>2, <1>3, LiveIs DEF LiveIsQueued

\* The trees avoid bad blocks.
LEMMA GoodFromInv ==
  ASSUME MapInv
  PROVE  NothingOnBadBlocks
<1>1. BadOK(j, entry, saved, bad) /\ entry \in Entries
  BY DEF MapInv, QueueOK
<1>2. saved.root = PAGE_NONE => Live(entry, saved.root) = {}
  BY <1>1, PageNone, NoTree DEF Links
<1> QED BY <1>1, <1>2, LiveIs DEF NothingOnBadBlocks, BadOK

\* The map's state stays well-typed: MapTypeOK.
THEOREM MapTypeCorrect ==
  ASSUME num_blocks >= 2
  PROVE  MapSpec /\ []NoRecoveryGivenUp => []MapTypeOK
BY MapInvariance, TypeFromInv, PTL

\* The sector count, and the one in the cookie of the last checkpoint, are the
\* numbers of sectors on the trees: CountIsMapped.
THEOREM CountIsExact ==
  ASSUME num_blocks >= 2
  PROVE  MapSpec /\ []NoRecoveryGivenUp => []CountIsMapped
BY MapInvariance, CountFromInv, PTL

\* All that is live is in the queue, so that the journal never erases it, and
\* neither what a restart would need: LiveIsQueued.
THEOREM LiveStaysQueued ==
  ASSUME num_blocks >= 2
  PROVE  MapSpec /\ []NoRecoveryGivenUp => []LiveIsQueued
BY MapInvariance, QueuedFromInv, PTL

\* No sector is left on a block marked bad: NothingOnBadBlocks.
THEOREM BadBlocksAreEmpty ==
  ASSUME num_blocks >= 2
  PROVE  MapSpec /\ []NoRecoveryGivenUp => []NothingOnBadBlocks
BY MapInvariance, GoodFromInv, PTL

-----------------------------------------------------------------------------
(* Without failures                                                        *)

\* Nothing fails: the journal is never in recovery.
NoFailure == MapInv /\ fails = 0 /\ ~j.recovery

\* Without failures no attempt to append starts a recovery.
LEMMA AppendsCalmly ==
  ASSUME MaxFails = 0, fails = 0, NEW J, NEW e, NEW cookie, NEW o \in append(J, e, cookie),
         num_blocks >= 2, J \in QJournals, ClearOf(J.tail_sync, J.head)
  PROVE  o.err # "RECOVER" /\ o.fails = 0
<1> DEFINE K == prepare_head(J)
<1>1. ~can_fail(K.j)
  BY DEF can_fail
<1>2. K.err \in {"OK", "TOO_BAD", "JOURNAL_FULL"}
  BY PreparedHead
<1>3. append(J, e, cookie) = IF K.err # "OK" THEN {Outcome(K.err, K.j)}
                             ELSE {push_meta(K.j, e, cookie)}
  BY <1>1 DEF append
<1> HIDE DEF K
<1>4. CASE o = Outcome(K.err, K.j) /\ K.err # "OK"
  BY <1>2, <1>4 DEF Outcome
<1>5. CASE o = push_meta(K.j, e, cookie)
  <2>1. o.err = "OK" /\ o.fails = fails
    BY <1>5 DEF push_meta, Outcome
  <2> QED BY <2>1
<1> QED BY <1>3, <1>4, <1>5

\* What an attempt to append leaves in a journal without failures.
LEMMA AppendIsQuiet ==
  ASSUME num_blocks >= 2, MaxFails = 0, fails = 0, NEW J, QueueOK(J, entry, saved, bad),
         ~J.recovery, NEW e, NEW cookie, NEW o \in append(J, e, cookie),
         o.err # "OK" => Kept(J, o)
  PROVE  o.fails = 0 /\ (o.err # "OK" => ~o.j.recovery)
<1>1. J \in QJournals /\ ClearOf(J.tail_sync, J.head)
  BY DEF QueueOK, RingOK
<1>2. o.err # "RECOVER" /\ o.fails = 0
  BY <1>1, AppendsCalmly
<1> QED BY <1>2 DEF Kept

\* The same for a page at the tail that is still on the tree.
LEMMA CopyIsQuiet ==
  ASSUME num_blocks >= 2, MaxFails = 0, fails = 0, MapInv, NoRecoveryGivenUp, ~recovering, j.head # j.tail,
         NEW J, J = peek(j), current(J, J.tail),
         NEW o \in append(J, rewritten(J, J.tail), count)
  PROVE  /\ o.fails = 0 /\ (o.err # "OK" => ~o.j.recovery)
         /\ o.err = "OK" => ~dequeue(o.j).recovery
<1>1. /\ o.err = "OK" => ~dequeue(o.j).recovery
      /\ o.err # "OK" => Kept(J, o)
      /\ ~J.recovery
  BY TailCopied
<1>2. QueueOK(J, entry, saved, bad)
  BY Calm, PeekOK
<1> QED BY <1>1, <1>2, AppendIsQuiet

\* Without failures no step starts a recovery.
LEMMA QuietStep ==
  ASSUME num_blocks >= 2, MaxFails = 0, NoFailure, MapNext
  PROVE  fails' = 0 /\ ~j'.recovery
<1> DEFINE J == peek(j)
<1>1. MapInv /\ NoRecoveryGivenUp /\ ~recovering /\ fails = 0 /\ ~j.recovery
  BY DEF NoFailure, MapInv, NoRecoveryGivenUp
<1>2. /\ QueueOK(j, entry, saved, bad) /\ EnumOK(j, entry, {}) /\ entry \in Entries
      /\ count = Cardinality(Mapped(entry, j.root))
  BY <1>1, Calm
<1>3. ASSUME j.head # j.tail, ~current(J, J.tail), j' = dequeue(J), UNCHANGED fails
      PROVE  fails' = 0 /\ ~j'.recovery
  BY <1>1, <1>3, TailDropped
<1>4. ASSUME j.head # j.tail, current(J, J.tail),
             NEW o \in append(J, rewritten(J, J.tail), count),
             \/ o.err = "OK" /\ Becomes([o EXCEPT !.j = dequeue(@)])
             \/ o.err # "OK" /\ Becomes(o)
      PROVE  fails' = 0 /\ ~j'.recovery
  <2>1. /\ o.fails = 0 /\ (o.err # "OK" => ~o.j.recovery)
        /\ o.err = "OK" => ~dequeue(o.j).recovery
    BY <1>1, <1>4, CopyIsQuiet
  <2>2. Shape(o)
    BY <1>4, AppendShape
  <2>3. CASE o.err = "OK" /\ Becomes([o EXCEPT !.j = dequeue(@)])
    <3> DEFINE q == [o EXCEPT !.j = dequeue(@)]
    <3>1. q.j = dequeue(o.j) /\ q.fails = o.fails
      BY <2>2 DEF Shape
    <3> HIDE DEF q
    <3>2. Becomes(q)
      BY <2>3 DEF q
    <3> QED BY <2>1, <2>3, <3>1, <3>2 DEF Becomes
  <2> QED BY <1>4, <2>1, <2>3 DEF Becomes
<1> HIDE DEF J
<1>5. ASSUME UNCHANGED queueVars PROVE fails' = 0 /\ ~j'.recovery
  BY <1>1, <1>5 DEF queueVars
<1>6. ASSUME NEW e, NEW cookie, NEW o \in append(j, e, cookie), Becomes(o),
             NEW gone, NEW val, NEW m, IF o.err = "OK" THEN Done(j, o, gone, val, m) ELSE Kept(j, o)
      PROVE  fails' = 0 /\ ~j'.recovery
  <2>1. o.fails = 0 /\ (o.err # "OK" => ~o.j.recovery)
    BY <1>1, <1>2, <1>6, AppendIsQuiet
  <2>2. o.err = "OK" => ~o.j.recovery
    BY <1>1, <1>6 DEF Done
  <2> QED BY <1>6, <2>1, <2>2 DEF Becomes
<1>7. ASSUME NEW r \in D!Requests, Begin(r) PROVE fails' = 0 /\ ~j'.recovery
  BY <1>5, <1>7 DEF Begin
<1>8. CASE Gc
  BY <1>3, <1>4, <1>5, <1>8 DEF Gc, J
<1>9. CASE Write
  <2> DEFINE dst == call.req.dst
  <2>1. CASE UNCHANGED queueVars
    BY <1>5, <2>1
  <2>2. ASSUME NEW o \in append(j, new_page(dst), count_with(dst)), Becomes(o)
        PROVE  fails' = 0 /\ ~j'.recovery
    <3>1. IF o.err = "OK"
            THEN Done(j, o, {}, [Value(entry, j.root) EXCEPT ![dst] = new_page(dst).data],
                      Mapped(entry, j.root) \cup {dst})
            ELSE Kept(j, o)
      BY <1>1, <1>9, <2>2, WriteAppends DEF Write
    <3> QED BY <1>6, <2>2, <3>1
  <2> QED BY <1>9, <2>1, <2>2 DEF Write
<1>10. CASE Trim
  <2> DEFINE dst == call.req.dst
             t == trace_path(j.root, dst)
             cousins == {l \in Levels : t.alt[l] # PAGE_NONE}
             level == CHOOSE l \in cousins : \A k \in cousins : k <= l
  <2>1. CASE UNCHANGED queueVars
    BY <1>5, <2>1
  <2>2. CASE j' = dhara_journal_clear(j) /\ UNCHANGED fails
    BY <1>1, <1>2, <2>2, ClearOK
  <2>3. ASSUME t.ok, cousins # {},
               NEW o \in append(j, without(t, level, t.alt[level]), count - 1), Becomes(o)
        PROVE  fails' = 0 /\ ~j'.recovery
    <3>1. level \in Levels /\ EndsAt(t.alt, level)
      BY <2>3, ClosestCousin
    <3>2. pc = "do" /\ call.req.op \in {"trim", "copy"}
      BY <1>10 DEF Trim
    <3> HIDE DEF level, cousins
    <3>3. IF o.err = "OK"
            THEN Done(j, o, {}, [Value(entry, j.root) EXCEPT ![dst] = MISSING],
                      Mapped(entry, j.root) \ {dst})
            ELSE Kept(j, o)
      BY <1>1, <2>3, <3>1, <3>2, TrimAppends
    <3> QED BY <1>6, <2>3, <3>3
  <2> QED BY <1>10, <2>1, <2>2, <2>3 DEF Trim
<1>11. CASE Sync
  <2>1. CASE UNCHANGED queueVars
    BY <1>5, <2>1
  <2>2. ASSUME NEW o \in pad_queue(j), Becomes(o) PROVE fails' = 0 /\ ~j'.recovery
    <3>1. IF o.err = "OK"
            THEN Done(j, o, {}, Value(entry, j.root), Mapped(entry, j.root))
            ELSE Kept(j, o)
      BY <1>2, <2>2, PadAppends
    <3> QED BY <1>6, <2>2, <3>1 DEF pad_queue
  <2>3. ASSUME j.head # j.tail, current(J, J.tail),
               NEW o \in append(J, rewritten(J, J.tail), count),
               Becomes(IF o.err = "OK" THEN [o EXCEPT !.j = dequeue(@)] ELSE o)
        PROVE  fails' = 0 /\ ~j'.recovery
    <3>1. \/ o.err = "OK" /\ Becomes([o EXCEPT !.j = dequeue(@)])
          \/ o.err # "OK" /\ Becomes(o)
      BY <2>3
    <3> QED BY <1>4, <2>3, <3>1
  <2> QED BY <1>3, <1>11, <2>1, <2>2, <2>3 DEF Sync, J
<1>12. CASE Clear
  <2>1. ASSUME j' = dhara_journal_clear(j) PROVE ~j'.recovery
    BY <1>1, <1>2, <2>1, ClearOK
  <2> QED BY <1>1, <1>12, <2>1 DEF Clear
<1>13. CASE Recover
  BY <1>1, <1>13 DEF Recover
<1>14. CASE Crash
  <2>1. resumed.recovery = FALSE
    <3>1. saved = NoCheckpoint => resumed = EmptyJournal
      BY DEF resumed
    <3>2. ~EmptyJournal.recovery
      BY DEF EmptyJournal
    <3>3. saved # NoCheckpoint => Resumes(resumed, saved)
      BY <1>2, ResumedHead DEF QueueOK, SavedOK
    <3>4. Resumes(resumed, saved) => resumed.recovery \in BOOLEAN /\ ~resumed.recovery
      BY DEF Resumes, QJournals
    <3> QED BY <3>1, <3>2, <3>3, <3>4 DEF EmptyJournal
  <2> QED BY <1>1, <1>14, <2>1 DEF Crash, Restarted
<1> QED BY <1>7, <1>8, <1>9, <1>10, <1>11, <1>12, <1>13, <1>14 DEF MapNext

\* Without failures nothing is left to suppose: power may fail at any moment.
LEMMA NoFailureInvariance ==
  ASSUME num_blocks >= 2, MaxFails = 0
  PROVE  MapSpec => []NoFailure
<1>1. MapInit => NoFailure
  <2>1. ~EmptyJournal.recovery
    BY DEF EmptyJournal
  <2>2. MapInit => j = EmptyJournal /\ fails = 0
    BY DEF MapInit, QueueInit
  <2> QED BY <2>1, <2>2, InitInv DEF NoFailure
<1>2. ASSUME NoFailure, [MapNext]_mapVars PROVE NoFailure'
  <2>1. MapInv /\ NoRecoveryGivenUp /\ fails = 0 /\ ~j.recovery
    BY <1>2 DEF NoFailure, NoRecoveryGivenUp
  <2>2. CASE MapNext
    <3>1. fails' = 0 /\ ~j'.recovery
      BY <1>2, <2>2, QuietStep
    <3>2. NoRecoveryGivenUp'
      BY <3>1 DEF NoRecoveryGivenUp
    <3> QED BY <1>2, <2>1, <3>1, <3>2, StepInv DEF NoFailure
  <2>3. CASE UNCHANGED mapVars
    <3>1. fails' = fails /\ j' = j
      BY <2>3 DEF mapVars, queueVars
    <3>2. NoRecoveryGivenUp'
      BY <2>1, <3>1 DEF NoRecoveryGivenUp
    <3> QED BY <1>2, <2>1, <3>1, <3>2, StepInv DEF NoFailure
  <2> QED BY <1>2, <2>2, <2>3
<1> QED BY <1>1, <1>2, PTL DEF MapSpec

\* On a chip without failing commands the count is exact and all that is live
\* is in the queue, whenever power fails: CountIsMapped and LiveIsQueued.
THEOREM ExactWithoutFailures ==
  ASSUME num_blocks >= 2, MaxFails = 0
  PROVE  MapSpec => [](CountIsMapped /\ LiveIsQueued)
<1>1. NoFailure => CountIsMapped /\ LiveIsQueued
  BY CountFromInv, QueuedFromInv DEF NoFailure
<1> QED BY <1>1, NoFailureInvariance, PTL

-----------------------------------------------------------------------------
(* Recoveries that end                                                     *)

\* try_recover has the restarts it needs: each of them is a failure, and so was
\* the start of the recovery.
Tried ==
  /\ fails \in 0 .. MaxFails
  /\ recovering => call.restarts < fails

\* The invariant of recoveries that end.
Untiring == MapInv /\ NoRecoveryGivenUp /\ Tried

\* An attempt to append counts its failures.
LEMMA AppendFails ==
  ASSUME num_blocks >= 2, MaxFails \in Nat, fails \in 0 .. MaxFails,
         NEW J, QueueOK(J, entry, saved, bad), NEW e, NEW cookie,
         NEW o \in append(J, e, cookie)
  PROVE  /\ o.fails \in 0 .. MaxFails
         /\ o.err = "RECOVER" => o.fails = fails + 1
<1> DEFINE r == prepare_head(J)  q == recover_from(r.j)
<1>1. r.err \in {"OK", "TOO_BAD", "JOURNAL_FULL"}
  BY PreparedHead DEF QueueOK, RingOK
<1>2. q = [err |-> q.err, j |-> q.j, entry |-> q.entry, saved |-> q.saved,
           bad |-> q.bad, fails |-> q.fails]
  BY RecoverFromShape
<1>3. \/ o = Outcome(r.err, r.j)
      \/ o = push_meta(r.j, e, cookie)
      \/ fails < MaxFails /\ o = [q EXCEPT !.fails = fails + 1]
  BY DEF append, can_fail
<1> HIDE DEF r, q
<1>4. CASE o = Outcome(r.err, r.j)
  BY <1>1, <1>4 DEF Outcome
<1>5. CASE o = push_meta(r.j, e, cookie)
  <2>1. o.err = "OK" /\ o.fails = fails
    BY <1>5 DEF push_meta, Outcome
  <2> QED BY <2>1
<1>6. CASE fails < MaxFails /\ o = [q EXCEPT !.fails = fails + 1]
  <2>1. o.fails = fails + 1
    BY <1>2, <1>6
  <2> QED BY <1>6, <2>1
<1> QED BY <1>3, <1>4, <1>5, <1>6

\* A call that has met an error recovers only if that was a failure, and has
\* then not restarted yet.
LEMMA FailedTried ==
  ASSUME fails \in Nat, ~recovering, call \in Calls, NEW o, Failed(o),
         fails' \in 0 .. MaxFails, o.err = "RECOVER" => fails' = fails + 1
  PROVE  Tried'
<1>1. recovering' => o.err = "RECOVER" /\ call' = [call EXCEPT !.tries = 0, !.restarts = 0]
  BY DEF Failed, Stay, Return
<1>2. recovering' => call'.restarts = 0
  BY <1>1 DEF Calls
<1> QED BY <1>1, <1>2 DEF Tried

\* Outside of a recovery, the failures are counted.
LEMMA CalmTried ==
  ASSUME num_blocks >= 2, MaxFails \in Nat, Untiring, ~recovering, MapNext
  PROVE  Tried'
<1> DEFINE J == peek(j)
<1>1. /\ QueueOK(j, entry, saved, bad) /\ QueueOK(J, entry, saved, bad)
      /\ call \in Calls /\ fails \in 0 .. MaxFails /\ fails \in Nat
  <2>1. MapInv /\ NoRecoveryGivenUp /\ fails \in 0 .. MaxFails
    BY DEF Untiring, Tried
  <2>2. QueueOK(j, entry, saved, bad) /\ ~j.recovery /\ call \in Calls
    BY <2>1, Calm
  <2>3. j.head = j.tail => J = j
    BY Zenon DEF peek
  <2>4. QueueOK(J, entry, saved, bad)
    <3> HIDE DEF J
    <3>1. CASE j.head = j.tail
      BY <2>2, <2>3, <3>1
    <3>2. CASE j.head # j.tail
      BY <2>2, <3>2, PeekOK DEF J
    <3> QED BY <3>1, <3>2
  <2> QED BY <2>1, <2>2, <2>4
<1>2. ASSUME UNCHANGED fails, ~recovering' PROVE Tried'
  BY <1>1, <1>2 DEF Tried
<1>3. ASSUME NEW K \in {j, J}, NEW e, NEW cookie, NEW o \in append(K, e, cookie),
             fails' = o.fails, ~recovering' \/ Failed(o)
      PROVE  Tried'
  <2>1. /\ o.fails \in 0 .. MaxFails
        /\ o.err = "RECOVER" => o.fails = fails + 1
    BY <1>1, <1>3, AppendFails
  <2>2. CASE ~recovering'
    BY <1>3, <2>1, <2>2 DEF Tried
  <2>3. CASE Failed(o)
    BY <1>1, <1>3, <2>1, <2>3, FailedTried
  <2> QED BY <1>3, <2>2, <2>3
<1> HIDE DEF J
<1>4. ASSUME NEW e, NEW cookie, NEW o \in append(J, e, cookie),
             \/ Becomes([o EXCEPT !.j = dequeue(@)])
             \/ Becomes(o)
      PROVE  fails' = o.fails
  <2>1. Shape(o)
    BY <1>4, AppendShape
  <2>2. CASE Becomes([o EXCEPT !.j = dequeue(@)])
    <3> DEFINE q == [o EXCEPT !.j = dequeue(@)]
    <3>1. q.fails = o.fails
      BY <2>1 DEF Shape
    <3> HIDE DEF q
    <3>2. Becomes(q)
      BY <2>2 DEF q
    <3> QED BY <3>1, <3>2 DEF Becomes
  <2> QED BY <1>4, <2>2 DEF Becomes
<1>5. Return(TRUE) \/ Return(FALSE) => ~recovering'
  BY DEF Return
<1>6. Stay \/ Collected => ~recovering'
  BY <1>5 DEF Stay, Collected
<1>7. ASSUME NEW r \in D!Requests, Begin(r) PROVE Tried'
  BY <1>2, <1>7 DEF Begin, Enter, queueVars
<1>8. CASE Gc
  <2>1. CASE Collected /\ UNCHANGED fails
    BY <1>2, <1>6, <2>1
  <2>2. ASSUME NEW o \in append(J, rewritten(J, J.tail), count),
               \/ Becomes([o EXCEPT !.j = dequeue(@)]) /\ Collected
               \/ Becomes(o) /\ Failed(o)
        PROVE  Tried'
    <3>1. fails' = o.fails
      BY <1>4, <2>2
    <3> QED BY <1>3, <1>6, <2>2, <3>1
  <2> QED BY <1>8, <2>1, <2>2 DEF Gc, J, queueVars
<1>9. CASE Write
  <2>1. CASE Return(FALSE) /\ UNCHANGED fails
    BY <1>2, <1>5, <2>1
  <2>2. ASSUME NEW c, NEW o \in append(j, new_page(call.req.dst), c), Becomes(o),
               Return(TRUE) \/ Failed(o)
        PROVE  Tried'
    <3>1. fails' = o.fails
      BY <2>2 DEF Becomes
    <3> QED BY <1>3, <1>5, <2>2, <3>1
  <2> QED BY <1>9, <2>1, <2>2 DEF Write, queueVars
<1>10. CASE Trim
  <2>1. CASE Return(TRUE) /\ UNCHANGED fails
    BY <1>2, <1>5, <2>1
  <2>2. ASSUME NEW e, NEW o \in append(j, e, count - 1), Becomes(o),
               Return(TRUE) \/ Failed(o)
        PROVE  Tried'
    <3>1. fails' = o.fails
      BY <2>2 DEF Becomes
    <3> QED BY <1>3, <1>5, <2>2, <3>1
  <2> QED BY <1>10, <2>1, <2>2 DEF Trim, queueVars
<1>11. CASE Sync
  <2>1. CASE (Return(TRUE) \/ Stay) /\ UNCHANGED fails
    BY <1>2, <1>5, <1>6, <2>1
  <2>2. ASSUME NEW o \in pad_queue(j), Becomes(o), Stay \/ Failed(o) PROVE Tried'
    <3>1. fails' = o.fails
      BY <2>2 DEF Becomes
    <3>2. o \in append(j, IF j.root = PAGE_NONE THEN Filler ELSE entry[j.root], count)
      BY <2>2 DEF pad_queue
    <3> QED BY <1>3, <1>6, <2>2, <3>1, <3>2
  <2>3. ASSUME NEW o \in append(J, rewritten(J, J.tail), count),
               Becomes(IF o.err = "OK" THEN [o EXCEPT !.j = dequeue(@)] ELSE o),
               Stay \/ Failed(o)
        PROVE  Tried'
    <3>1. Becomes([o EXCEPT !.j = dequeue(@)]) \/ Becomes(o)
      BY <2>3
    <3>2. fails' = o.fails
      BY <1>4, <2>3, <3>1
    <3> QED BY <1>3, <1>6, <2>3, <3>2
  <2> QED BY <1>11, <2>1, <2>2, <2>3 DEF Sync, J, queueVars
<1>12. CASE Clear
  BY <1>2, <1>5, <1>12 DEF Clear
<1>13. CASE Recover
  BY <1>13 DEF Recover
<1>14. CASE Crash
  BY <1>2, <1>5, <1>14 DEF Crash, Restarted
<1> QED BY <1>7, <1>8, <1>9, <1>10, <1>11, <1>12, <1>13, <1>14 DEF MapNext

\* During a recovery, an attempt to append that finds room either appends its
\* page or starts the recovery again.
LEMMA RecoveryAppends ==
  ASSUME num_blocks >= 2, NEW J, QueueOK(J, entry, saved, bad), J.recovery,
         prepare_head(J).err = "OK",
         fails < MaxFails => can_skip(prepare_head(J).j),
         NEW e, NEW cookie, NEW o \in append(J, e, cookie)
  PROVE  \/ o.err = "OK" /\ o.fails = fails
         \/ o.err = "RECOVER" /\ o.fails = fails + 1 /\ fails < MaxFails
<1> DEFINE K == prepare_head(J).j  q == recover_from(K)
<1>1. K.recovery
  BY PreparedHead DEF QueueOK, RingOK, Prepared, SameBut
<1>2. \/ o = push_meta(K, e, cookie)
      \/ /\ fails < MaxFails /\ can_skip(K)
         /\ o = [q EXCEPT !.fails = fails + 1]
  BY DEF append, can_fail
<1>3. q = [err |-> q.err, j |-> q.j, entry |-> q.entry, saved |-> q.saved,
           bad |-> q.bad, fails |-> q.fails]
  BY RecoverFromShape
<1> HIDE DEF K
<1>4. CASE o = push_meta(K, e, cookie)
  <2>1. o.err = "OK" /\ o.fails = fails
    BY <1>4 DEF push_meta, Outcome
  <2> QED BY <2>1
<1>5. CASE fails < MaxFails /\ can_skip(K) /\ o = [q EXCEPT !.fails = fails + 1]
  <2>1. q = restart_recovery(skip_block(counted(K)), K.head)
    BY <1>1, <1>5 DEF recover_from
  <2>2. q.err = "RECOVER"
    BY <2>1 DEF restart_recovery, Outcome
  <2> HIDE DEF q
  <2> QED BY <1>3, <1>5, <2>2
<1> QED BY <1>2, <1>4, <1>5

\* An iteration of try_recover that finds room does not give up.
LEMMA RecoverTried ==
  ASSUME num_blocks >= 2, MaxFails \in 0 .. MAX_RETRIES, Untiring, RoomToRecover, Recover
  PROVE  NoRecoveryGivenUp' /\ Tried'
<1> DEFINE K == next_recoverable(j)
           jj == IF j.enum_done THEN j ELSE K
           ready == prepare_head(jj)
<1>1. /\ recovering /\ j.recovery /\ call \in Calls
      /\ QueueOK(j, entry, saved, bad) /\ EnumOK(j, entry, {})
      /\ fails \in 0 .. MaxFails /\ call.restarts < fails
  BY DEF Untiring, Tried, MapInv, ControlOK, Recover
<1>2. QueueOK(jj, entry, saved, bad) /\ jj.recovery
  BY <1>1, EnumerateOK
<1>3. ready.err = "OK" /\ (fails < MaxFails => can_skip(ready.j))
  BY <1>1 DEF RoomToRecover
<1>4. MAX_RETRIES \in Nat /\ fails \in Nat /\ MaxFails \in Nat /\ call.restarts \in Nat
  BY <1>1, GeometryAssumption DEF Calls
<1> HIDE DEF jj
<1>5. ASSUME NEW k, j' = k, RecoveryGoesOn(k), fails' = fails
      PROVE  NoRecoveryGivenUp' /\ Tried'
  <2>1. CASE k.recovery /\ Stay /\ UNCHANGED call
    BY <1>1, <1>5, <2>1 DEF Stay, NoRecoveryGivenUp, Tried
  <2>2. CASE ~k.recovery /\ ~recovering'
    BY <1>1, <1>5, <2>2 DEF NoRecoveryGivenUp, Tried
  <2>3. Enter(call, k) => ~recovering'
    BY DEF Enter
  <2> QED BY <1>5, <2>1, <2>2, <2>3 DEF RecoveryGoesOn
<1>6. ASSUME NEW e, NEW o \in append(jj, e, count), Becomes(o), RecoveryAfter(o)
      PROVE  NoRecoveryGivenUp' /\ Tried'
  <2>1. \/ o.err = "OK" /\ o.fails = fails
        \/ o.err = "RECOVER" /\ o.fails = fails + 1 /\ fails < MaxFails
    BY <1>2, <1>3, <1>6, RecoveryAppends
  <2>2. j' = o.j /\ fails' = o.fails
    BY <1>6 DEF Becomes
  <2>3. CASE o.err = "OK"
    <3>1. RecoveryGoesOn(o.j)
      BY <1>6, <2>3 DEF RecoveryAfter
    <3> QED BY <1>5, <2>1, <2>2, <2>3, <3>1
  <2>4. CASE o.err = "RECOVER" /\ o.fails = fails + 1 /\ fails < MaxFails
    <3>1. call.restarts < MAX_RETRIES
      BY <1>1, <1>4, <2>4
    <3>2. Stay /\ call' = [call EXCEPT !.restarts = @ + 1]
      <4>1. ~(call.restarts >= MAX_RETRIES)
        BY <1>4, <3>1
      <4>2. o.err = "RECOVER" /\ RecoveryAfter(o)
        BY <1>6, <2>4
      <4> QED BY <4>1, <4>2, Zenon DEF RecoveryAfter
    <3>3. call'.restarts = call.restarts + 1 /\ recovering'
      BY <1>1, <3>2 DEF Stay, Calls
    <3> QED BY <1>1, <1>4, <2>2, <2>4, <3>3 DEF NoRecoveryGivenUp, Tried
  <2> QED BY <2>1, <2>3, <2>4
<1>7. CASE j' = jj /\ RecoveryGoesOn(jj) /\ UNCHANGED fails
  BY <1>5, <1>7
<1>8. ASSUME NEW o \in pad_queue(j), Becomes(o), RecoveryAfter(o), j.enum_done
      PROVE  NoRecoveryGivenUp' /\ Tried'
  <2>1. o \in append(jj, IF j.root = PAGE_NONE THEN Filler ELSE entry[j.root], count)
    BY <1>8 DEF pad_queue, jj
  <2> QED BY <1>6, <1>8, <2>1
<1> QED BY <1>6, <1>7, <1>8 DEF Recover, jj, RecoveryGoesOn, RecoveryAfter

\* The steps keep the invariant as long as there is room.
LEMMA UntiringStep ==
  ASSUME num_blocks >= 2, MaxFails \in 0 .. MAX_RETRIES, Untiring, RoomToRecover,
         [MapNext]_mapVars
  PROVE  Untiring'
<1>1. MaxFails \in Nat /\ MapInv /\ NoRecoveryGivenUp /\ Tried
  BY GeometryAssumption DEF Untiring
<1>2. CASE UNCHANGED mapVars
  <2>1. NoRecoveryGivenUp' /\ Tried'
    BY <1>1, <1>2 DEF mapVars, queueVars, NoRecoveryGivenUp, Tried
  <2> QED BY <1>1, <2>1, StepInv DEF Untiring
<1>3. CASE Recover
  <2>1. NoRecoveryGivenUp' /\ Tried'
    BY <1>3, RecoverTried
  <2> QED BY <1>1, <1>3, <2>1, RecoverInv DEF Untiring
<1>4. CASE MapNext /\ ~Recover
  <2>1. MapInv' /\ NoRecoveryGivenUp'
    <3>1. ASSUME NEW r \in D!Requests, Begin(r) PROVE MapInv' /\ NoRecoveryGivenUp'
      BY <1>1, <3>1, BeginInv
    <3> QED BY <1>1, <1>4, <3>1, GcInv, WriteInv, TrimInv, SyncInv, ClearInv, CrashInv
            DEF MapNext
  <2>2. ~recovering
    <3>1. recovering => pc # "idle" /\ j.recovery /\ call.req.op # "clear"
      BY <1>1 DEF MapInv, ControlOK
    <3> QED BY <1>4, <3>1 DEF MapNext, Begin, Gc, Write, Trim, Sync, Clear, Crash, Restarted
  <2>3. Tried'
    BY <1>1, <1>4, <2>2, CalmTried DEF Untiring
  <2> QED BY <2>1, <2>3 DEF Untiring
<1> QED BY <1>2, <1>3, <1>4

\* With no more failures than try_recover makes attempts (DHARA_MAX_RETRIES), a
\* recovery that always finds room for its pages is never given up:
\* NoRecoveryGivenUp.
THEOREM RecoveriesEnd ==
  ASSUME num_blocks >= 2, MaxFails \in 0 .. MAX_RETRIES
  PROVE  MapSpec /\ []RoomToRecover => []NoRecoveryGivenUp
<1>1. MapInit => Untiring
  <2>1. ASSUME MapInit PROVE NoRecoveryGivenUp /\ Tried
    <3>1. ~EmptyJournal.recovery /\ MaxFails \in Nat
      BY GeometryAssumption DEF EmptyJournal
    <3> QED BY <2>1, <3>1 DEF MapInit, QueueInit, NoRecoveryGivenUp, Tried
  <2> QED BY <2>1, InitInv DEF Untiring
<1>2. Untiring /\ RoomToRecover /\ [MapNext]_mapVars => Untiring'
  BY UntiringStep
<1>3. Untiring => NoRecoveryGivenUp
  BY DEF Untiring
<1> QED BY <1>1, <1>2, <1>3, PTL DEF MapSpec

\* The claims about the map need no more than that: what the count says, where
\* the live pages are, and that bad blocks are empty (CountIsMapped,
\* LiveIsQueued, NothingOnBadBlocks).
THEOREM ExactWithRoom ==
  ASSUME num_blocks >= 2, MaxFails \in 0 .. MAX_RETRIES
  PROVE  MapSpec /\ []RoomToRecover
           => [](CountIsMapped /\ LiveIsQueued /\ NothingOnBadBlocks)
<1>1. MapInv => CountIsMapped /\ LiveIsQueued /\ NothingOnBadBlocks
  BY CountFromInv, QueuedFromInv, GoodFromInv
<1> QED BY <1>1, RecoveriesEnd, MapInvariance, PTL

-----------------------------------------------------------------------------
(* The map is a dictionary                                                 *)

\* What the user reads, and what a restart would read.
Dict == Value(entry, j.root)
Durable == Value(entry, saved.root)
NoSectors == [s \in Sectors |-> MISSING]

\* They are what the refinement mapping takes for the dictionary.
LEMMA DictIs ==
  lookup(j.root) = Dict /\ lookup(saved.root) = Durable
BY LookupIs DEF Dict, Durable

\* The same after a step.
LEMMA DictIsPrimed ==
  lookup(j.root)' = Dict' /\ lookup(saved.root)' = Durable'
<1>1. (lookup(j.root) = Dict /\ lookup(saved.root) = Durable)'
  BY DictIs, PTL
<1> QED BY <1>1

\* A step of the dictionary, or none.
Refines == [D!DNext]_(D!dvars)

\* What the calls make of the dictionary.
LEMMA Effects ==
  ASSUME NEW r
  PROVE  /\ r.op = "write" => D!Effect(r) = [Dict EXCEPT ![r.dst] = r.data]
         /\ r.op = "trim" => D!Effect(r) = [Dict EXCEPT ![r.dst] = MISSING]
         /\ r.op = "copy" => D!Effect(r) = [Dict EXCEPT ![r.dst] = Dict[r.src]]
         /\ r.op = "clear" => D!Effect(r) = NoSectors
         /\ r.op \in {"sync", "gc"} => D!Effect(r) = Dict
BY DictIs DEF D!Effect, NoSectors

\* The dictionary stays as it is; its durable part may come up to it.
LEMMA QuietRefines ==
  ASSUME Dict' = Dict, Durable' \in {Durable, Dict}, call'.req = call.req, ok' = ok
  PROVE  Refines
<1>1. CASE Durable' = Durable
  BY <1>1, DictIs, DictIsPrimed DEF Refines, D!dvars
<1>2. CASE Durable' = Dict
  <2>1. D!Persist
    BY <1>2, DictIs, DictIsPrimed DEF D!Persist
  <2> QED BY <2>1 DEF D!DNext, Refines
<1> QED BY <1>1, <1>2

\* A call returns with success, and the dictionary is as it says.
LEMMA SuccessRefines ==
  ASSUME Return(TRUE), call.req # D!NoRequest,
         Dict' = D!Effect(call.req), Durable' \in {Durable, Dict'},
         call.req.op = "sync" => Durable' = Dict'
  PROVE  Refines
<1>1. call'.req = D!NoRequest /\ ok' = TRUE
  BY DEF Return, NoCall
<1>2. D!Succeed
  BY <1>1, DictIs, DictIsPrimed DEF D!Succeed
<1> QED BY <1>2 DEF D!DNext, Refines

\* A call returns with an error, and the dictionary is as it was.
LEMMA FailureRefines ==
  ASSUME Return(FALSE), call.req # D!NoRequest, Dict' = Dict, Durable' = Durable
  PROVE  Refines
<1>1. call'.req = D!NoRequest /\ ok' = FALSE
  BY DEF Return, NoCall
<1>2. D!Fail
  BY <1>1, DictIs, DictIsPrimed DEF D!Fail
<1> QED BY <1>2 DEF D!DNext, Refines

\* The dictionary after a step that leaves an outcome's pages, or the old ones.
LEMMA NextDict ==
  ASSUME NEW K, K = j', NEW en, en = entry', NEW sv, sv = saved'
  PROVE  Dict' = Value(en, K.root) /\ Durable' = Value(en, sv.root)
BY DEF Dict, Durable

-----------------------------------------------------------------------------
(* Each step is a step of the dictionary                                   *)

\* An attempt to append that has failed changes nothing that the user sees.
LEMMA FailedRefines ==
  ASSUME MapInv, pc # "idle", NEW J, Value(entry, J.root) = Dict,
         NEW o, Kept(J, o), Becomes(o), Failed(o)
  PROVE  Refines
<1>1. call \in Calls /\ call.req # D!NoRequest
  BY DEF MapInv, ControlOK
<1>2. o.j = j' /\ o.entry = entry' /\ o.saved = saved'
  BY DEF Becomes
<1>3. Dict' = Dict /\ Durable' = Durable
  <2>1. /\ Value(o.entry, o.j.root) = Dict /\ o.saved = saved
        /\ Value(o.entry, saved.root) = Durable
    BY DEF Kept, Durable
  <2> QED BY <1>2, <2>1, NextDict
<1>4. CASE Return(FALSE)
  BY <1>1, <1>3, <1>4, FailureRefines
<1>5. CASE ok' = ok /\ (\/ call' = [call EXCEPT !.tries = @ + 1]
                        \/ call' = [call EXCEPT !.tries = 0, !.restarts = 0])
  <2>1. call'.req = call.req
    BY <1>1, <1>5 DEF Calls
  <2> QED BY <1>3, <1>5, <2>1, QuietRefines
<1> QED BY <1>4, <1>5 DEF Failed, Stay

\* An iteration of dhara_map_gc has no effect on the dictionary.
LEMMA CollectedRefines ==
  ASSUME MapInv, pc = "gc", Collected, Dict' = Dict, Durable' \in {Durable, Dict}
  PROVE  Refines
<1>1. call \in Calls /\ call.req # D!NoRequest
  BY DEF MapInv, ControlOK
<1>2. CASE call.req.op = "gc" /\ Return(TRUE)
  BY <1>1, <1>2, Effects, SuccessRefines
<1>3. CASE ok' = ok /\ (\/ call' = [call EXCEPT !.gcs = @ - 1, !.tries = 0]
                        \/ call' = [call EXCEPT !.gcs = 0, !.tries = 0])
  <2>1. call'.req = call.req
    BY <1>1, <1>3 DEF Calls
  <2> QED BY <1>3, <2>1, QuietRefines
<1> QED BY <1>2, <1>3 DEF Collected, Stay

\* A call begins.
LEMMA BeginRefines ==
  ASSUME MapInv, NEW r \in D!Requests, Begin(r)
  PROVE  Refines
<1>1. call.req = D!NoRequest
  BY DEF MapInv, ControlOK, Begin
<1>2. Dict' = Dict /\ Durable' = Durable
  BY DEF Begin, queueVars, Dict, Durable
<1>3. call'.req = r /\ ok' = TRUE
  BY DEF Begin, Enter, NoCall
<1>4. D!Call(r)
  BY <1>1, <1>2, <1>3, DictIs, DictIsPrimed DEF D!Call
<1> QED BY <1>4 DEF D!DNext, Refines

\* Garbage collection cannot be seen, whether it drops a page or moves it.
LEMMA GcRefines ==
  ASSUME num_blocks >= 2, MapInv, NoRecoveryGivenUp, Gc
  PROVE  Refines
<1> DEFINE J == peek(j)
<1>1. ~recovering /\ pc = "gc" /\ pc # "idle"
  BY DEF Gc
<1> HIDE DEF J
<1>2. CASE Collected /\ UNCHANGED <<queueVars, count>>
  <2>1. Dict' = Dict /\ Durable' = Durable
    BY <1>2 DEF queueVars, Dict, Durable
  <2> QED BY <1>1, <1>2, <2>1, CollectedRefines
<1>3. CASE /\ j.head # j.tail /\ ~current(J, J.tail)
           /\ j' = dequeue(J) /\ Collected
           /\ UNCHANGED <<entry, saved, bad, fails, count>>
  <2>1. Value(entry, dequeue(J).root) = Dict
    BY <1>1, <1>3, TailDropped DEF J, Dict
  <2>2. Dict' = Dict /\ Durable' = Durable
    BY <1>3, <2>1, NextDict DEF Durable
  <2> QED BY <1>1, <1>3, <2>2, CollectedRefines
<1>4. ASSUME j.head # j.tail, current(J, J.tail),
             NEW o \in append(J, rewritten(J, J.tail), count),
             \/ /\ o.err = "OK"
                /\ Becomes([o EXCEPT !.j = dequeue(@)])
                /\ Collected /\ UNCHANGED count
             \/ o.err # "OK" /\ Becomes(o) /\ Failed(o)
      PROVE  Refines
  <2>1. /\ J.root = j.root
        /\ o.err = "OK" => /\ Value(o.entry, dequeue(o.j).root) = Value(entry, j.root)
                           /\ SavedStays(o, Value(entry, j.root))
        /\ o.err # "OK" => Kept(J, o)
    BY <1>1, <1>4, TailCopied DEF J
  <2>2. CASE o.err = "OK" /\ Becomes([o EXCEPT !.j = dequeue(@)]) /\ Collected
    <3>1. Shape(o)
      BY <1>4, AppendShape
    <3>2. j' = dequeue(o.j) /\ entry' = o.entry /\ saved' = o.saved
      BY <2>2, <3>1, DroppedBecomes
    <3>3. Dict' = Dict /\ Durable' \in {Durable, Dict}
      BY <2>1, <2>2, <3>2, NextDict DEF SavedStays, Dict, Durable
    <3> QED BY <1>1, <2>2, <3>3, CollectedRefines
  <2>3. CASE o.err # "OK" /\ Becomes(o) /\ Failed(o)
    <3>1. Value(entry, J.root) = Dict
      BY <2>1 DEF Dict
    <3> QED BY <1>1, <2>1, <2>3, <3>1, FailedRefines
  <2> QED BY <1>4, <2>2, <2>3
<1> QED BY <1>2, <1>3, <1>4 DEF Gc, J

\* The source of a copy still has the contents that the call has found: it has
\* looked up the page at its start, and garbage may have been collected since.
SourceKept ==
  call.req.op = "copy" =>
    Value(entry, j.root)[call.req.src] =
      IF call.page = PAGE_NONE THEN MISSING ELSE entry[call.page].data

\* What a page that has been appended makes of the dictionary.
LEMMA DoneDict ==
  ASSUME NEW J, NEW o, NEW gone, NEW val, NEW m, Done(J, o, gone, val, m), Becomes(o)
  PROVE  Dict' = val /\ Durable' \in {Durable, val}
<1>1. o.j = j' /\ o.entry = entry' /\ o.saved = saved'
  BY DEF Becomes
<1>2. /\ Value(o.entry, o.j.root) = val
      /\ \/ o.saved = saved /\ Value(o.entry, saved.root) = Durable
         \/ Value(o.entry, o.saved.root) = val
  BY DEF Done, Durable
<1> QED BY <1>1, <1>2, NextDict

\* A write or a copy takes effect when it returns.
LEMMA WriteRefines ==
  ASSUME num_blocks >= 2, MapInv, NoRecoveryGivenUp, SourceKept, Write
  PROVE  Refines
<1> DEFINE dst == call.req.dst
           val == [Dict EXCEPT ![dst] = new_page(dst).data]
<1>1. /\ ~recovering /\ pc = "do" /\ pc # "idle"
      /\ call.req.op = "write" \/ (call.req.op = "copy" /\ call.page # PAGE_NONE)
  BY DEF Write
<1>2. call.req # D!NoRequest
  BY <1>1 DEF MapInv, ControlOK
<1>3. CASE Return(FALSE) /\ UNCHANGED <<queueVars, count>>
  <2>1. Dict' = Dict /\ Durable' = Durable
    BY <1>3 DEF queueVars, Dict, Durable
  <2> QED BY <1>2, <1>3, <2>1, FailureRefines
<1>4. ASSUME NEW o \in append(j, new_page(dst), count_with(dst)), Becomes(o),
             \/ o.err = "OK" /\ count' = count_with(dst) /\ Return(TRUE)
             \/ o.err # "OK" /\ Failed(o)
      PROVE  Refines
  <2>1. IF o.err = "OK" THEN Done(j, o, {}, val, Mapped(entry, j.root) \cup {dst})
        ELSE Kept(j, o)
    BY <1>1, <1>4, WriteAppends DEF Dict
  <2>2. val = D!Effect(call.req)
    BY <1>1, Effects DEF new_page, SourceKept, Dict
  <2> HIDE DEF val
  <2>3. CASE o.err = "OK" /\ Return(TRUE)
    <3>1. Dict' = val /\ Durable' \in {Durable, Dict'}
      BY <1>4, <2>1, <2>3, DoneDict
    <3> QED BY <1>1, <1>2, <2>2, <2>3, <3>1, SuccessRefines
  <2>4. CASE o.err # "OK" /\ Failed(o)
    BY <1>1, <1>4, <2>1, <2>4, FailedRefines DEF Dict
  <2> QED BY <1>4, <2>3, <2>4
<1> QED BY <1>3, <1>4 DEF Write

\* A sector that is not mapped is trimmed already, and a sector that is the only
\* one is trimmed by clearing the journal.
LEMMA TrimRefines ==
  ASSUME num_blocks >= 2, MapInv, NoRecoveryGivenUp, SourceKept, Trim
  PROVE  Refines
<1> DEFINE dst == call.req.dst
           t == trace_path(j.root, dst)
           cousins == {l \in Levels : t.alt[l] # PAGE_NONE}
           level == CHOOSE l \in cousins : \A k \in cousins : k <= l
           val == [Dict EXCEPT ![dst] = MISSING]
<1>1. /\ ~recovering /\ pc = "do" /\ pc # "idle"
      /\ call.req.op = "trim" \/ (call.req.op = "copy" /\ call.page = PAGE_NONE)
  BY DEF Trim
<1>2. /\ QueueOK(j, entry, saved, bad) /\ ~j.recovery /\ IsTree(entry, j.root)
      /\ call.req # D!NoRequest /\ dst \in Sectors
  BY <1>1, Calm, RequestFields DEF ControlOK, Calls
<1>3. val = D!Effect(call.req)
  BY <1>1, Effects DEF SourceKept, Dict
<1>4. /\ t = trace(entry, j.root, dst)
      /\ \A s \in Sectors : s \notin Mapped(entry, j.root) => Dict[s] = MISSING
      /\ t.ok <=> dst \in Mapped(entry, j.root)
  BY <1>2, TracePath DEF Mapped, Dict, Value
<1>5. Dict \in [Sectors -> {Dict[s] : s \in Sectors}]
  BY DEF Dict, Value
<1> HIDE DEF val, t
<1>6. CASE ~t.ok /\ Return(TRUE) /\ UNCHANGED <<queueVars, count>>
  <2>1. Dict[dst] = MISSING
    BY <1>2, <1>4, <1>6
  <2>2. val = Dict
    BY <1>2, <1>5, <2>1 DEF val
  <2>3. Dict' = Dict /\ Durable' = Durable
    BY <1>6 DEF queueVars, Dict, Durable
  <2> QED BY <1>1, <1>2, <1>3, <1>6, <2>2, <2>3, SuccessRefines
<1>7. CASE /\ t.ok /\ cousins = {}
           /\ j' = dhara_journal_clear(j)
           /\ Return(TRUE) /\ UNCHANGED <<entry, saved, bad, fails>>
  <2>1. Mapped(entry, j.root) = {dst}
    <3>1. \A k \in Levels : trace(entry, j.root, dst).alt[k] = PAGE_NONE
      BY <1>4, <1>7
    <3>2. dst \in Mapped(entry, j.root)
      BY <1>4, <1>7
    <3> HIDE DEF dst
    <3> QED BY <1>2, <3>1, <3>2, OnlySector DEF QueueOK
  <2>2. val = NoSectors
    BY <1>2, <1>4, <1>5, <2>1 DEF val, NoSectors
  <2> DEFINE K == dhara_journal_clear(j)
  <2>3. Value(entry, K.root) = NoSectors
    BY <1>2, ClearOK DEF NoSectors
  <2>4. K = j'
    BY <1>7
  <2> HIDE DEF K
  <2>5. Dict' = val /\ Durable' = Durable
    BY <1>7, <2>2, <2>3, <2>4, NextDict DEF Durable
  <2> QED BY <1>1, <1>2, <1>3, <1>7, <2>5, SuccessRefines
<1>8. ASSUME t.ok, cousins # {},
             NEW o \in append(j, without(t, level, t.alt[level]), count - 1),
             Becomes(o),
             \/ o.err = "OK" /\ count' = count - 1 /\ Return(TRUE)
             \/ o.err # "OK" /\ Failed(o)
      PROVE  Refines
  <2>1. level \in Levels /\ EndsAt(t.alt, level)
    BY <1>8, ClosestCousin
  <2>2. t = trace_path(j.root, dst)
    BY DEF t
  <2> HIDE DEF level, cousins
  <2>3. IF o.err = "OK" THEN Done(j, o, {}, val, Mapped(entry, j.root) \ {dst})
        ELSE Kept(j, o)
    BY <1>1, <1>8, <2>1, <2>2, TrimAppends DEF val, Dict
  <2>4. CASE o.err = "OK" /\ Return(TRUE)
    <3>1. Dict' = val /\ Durable' \in {Durable, Dict'}
      BY <1>8, <2>3, <2>4, DoneDict
    <3> QED BY <1>1, <1>2, <1>3, <2>4, <3>1, SuccessRefines
  <2>5. CASE o.err # "OK" /\ Failed(o)
    BY <1>1, <1>8, <2>3, <2>5, FailedRefines DEF Dict
  <2> QED BY <1>8, <2>4, <2>5
<1> QED BY <1>6, <1>7, <1>8 DEF Trim, t

\* A journal that is not dirty holds nothing that a restart would not find.
LEMMA CleanIsDurable ==
  ASSUME QueueOK(j, entry, saved, bad), ~j.recovery, ~j.dirty
  PROVE  Durable = Dict
<1>1. j.root = saved.root \/ (j.root = PAGE_NONE /\ Live(entry, saved.root) = {})
  BY DEF QueueOK, CleanOK
<1>2. CASE j.root = saved.root
  BY <1>2 DEF Durable, Dict
<1>3. CASE j.root = PAGE_NONE /\ Live(entry, saved.root) = {}
  <2>1. Durable = NoSectors
    BY <1>3, EmptyTree DEF Durable, NoSectors
  <2>2. PAGE_NONE \in Links /\ PAGE_NONE \notin UPages /\ entry \in Entries
    BY PageNone DEF QueueOK, Links
  <2>3. Dict = NoSectors
    BY <1>3, <2>2, NoTree DEF Dict, NoSectors
  <2> QED BY <2>1, <2>3
<1> QED BY <1>1, <1>2, <1>3

\* A sync returns when all is durable; until then nothing can be seen of it.
LEMMA SyncRefines ==
  ASSUME num_blocks >= 2, MapInv, NoRecoveryGivenUp, Sync
  PROVE  Refines
<1> DEFINE J == peek(j)
           Goes(o) == \/ /\ o.err = "OK" /\ UNCHANGED count
                         /\ Stay /\ call' = [call EXCEPT !.tries = 0]
                      \/ o.err # "OK" /\ Failed(o)
<1>1. ~recovering /\ pc = "do" /\ pc # "idle" /\ call.req.op = "sync"
  BY DEF Sync
<1>2. /\ QueueOK(j, entry, saved, bad) /\ ~j.recovery /\ call \in Calls
      /\ count = Cardinality(Mapped(entry, j.root)) /\ EnumOK(j, entry, {})
      /\ call.req # D!NoRequest
  BY <1>1, Calm DEF ControlOK
<1>3. ASSUME Stay, call' = [call EXCEPT !.tries = 0] \/ call' = call,
             Dict' = Dict, Durable' \in {Durable, Dict}
      PROVE  Refines
  <2>1. call'.req = call.req /\ ok' = ok
    BY <1>2, <1>3 DEF Calls, Stay
  <2> QED BY <1>3, <2>1, QuietRefines
<1> HIDE DEF J
<1>4. CASE ~j.dirty /\ Return(TRUE) /\ UNCHANGED <<queueVars, count>>
  <2>1. Dict' = Dict /\ Durable' = Durable
    BY <1>4 DEF queueVars, Dict, Durable
  <2>2. Durable = Dict /\ D!Effect(call.req) = Dict
    BY <1>1, <1>2, <1>4, CleanIsDurable, Effects
  <2> QED BY <1>2, <1>4, <2>1, <2>2, SuccessRefines
<1>5. ASSUME NEW o \in pad_queue(j), Becomes(o), Goes(o) PROVE Refines
  <2>1. IF o.err = "OK" THEN Done(j, o, {}, Dict, Mapped(entry, j.root))
        ELSE Kept(j, o)
    BY <1>2, <1>5, PadAppends DEF Dict
  <2>2. CASE o.err = "OK" /\ Stay /\ call' = [call EXCEPT !.tries = 0]
    <3>1. Dict' = Dict /\ Durable' \in {Durable, Dict}
      BY <1>5, <2>1, <2>2, DoneDict
    <3> QED BY <1>3, <2>2, <3>1
  <2>3. CASE o.err # "OK" /\ Failed(o)
    BY <1>1, <1>5, <2>1, <2>3, FailedRefines DEF Dict
  <2> QED BY <1>5, <2>2, <2>3
<1>6. CASE /\ j.head # j.tail /\ ~current(J, J.tail)
           /\ j' = dequeue(J)
           /\ UNCHANGED <<entry, saved, bad, fails, count, call>> /\ Stay
  <2>1. Value(entry, dequeue(J).root) = Dict
    BY <1>1, <1>6, TailDropped DEF J, Dict
  <2>2. Dict' = Dict /\ Durable' = Durable
    BY <1>6, <2>1, NextDict DEF Durable
  <2> QED BY <1>3, <1>6, <2>2
<1>7. ASSUME j.head # j.tail, current(J, J.tail),
             NEW o \in append(J, rewritten(J, J.tail), count),
             Becomes(IF o.err = "OK" THEN [o EXCEPT !.j = dequeue(@)] ELSE o), Goes(o)
      PROVE  Refines
  <2>1. /\ J.root = j.root
        /\ o.err = "OK" => /\ Value(o.entry, dequeue(o.j).root) = Value(entry, j.root)
                           /\ SavedStays(o, Value(entry, j.root))
        /\ o.err # "OK" => Kept(J, o)
    BY <1>1, <1>7, TailCopied DEF J
  <2>2. CASE o.err = "OK" /\ Stay /\ call' = [call EXCEPT !.tries = 0]
    <3>1. Shape(o)
      BY <1>7, AppendShape
    <3>2. Becomes([o EXCEPT !.j = dequeue(@)])
      BY <1>7, <2>2
    <3>3. j' = dequeue(o.j) /\ entry' = o.entry /\ saved' = o.saved
      BY <3>1, <3>2, DroppedBecomes
    <3>4. Dict' = Dict /\ Durable' \in {Durable, Dict}
      BY <2>1, <2>2, <3>3, NextDict DEF SavedStays, Dict, Durable
    <3> QED BY <1>3, <2>2, <3>4
  <2>3. CASE o.err # "OK" /\ Failed(o)
    <3>1. Becomes(o) /\ Value(entry, J.root) = Dict
      BY <1>7, <2>1, <2>3 DEF Dict
    <3> QED BY <1>1, <2>1, <2>3, <3>1, FailedRefines
  <2> QED BY <1>7, <2>2, <2>3
<1> QED BY <1>4, <1>5, <1>6, <1>7 DEF Sync, J

\* dhara_map_clear: no sector is left.
LEMMA ClearRefines ==
  ASSUME MapInv, NoRecoveryGivenUp, Clear
  PROVE  Refines
<1> DEFINE K == dhara_journal_clear(j)
<1>1. ~recovering
  BY DEF MapInv, ControlOK, Clear
<1>2. /\ QueueOK(j, entry, saved, bad) /\ ~j.recovery /\ IsTree(entry, j.root)
      /\ count = Cardinality(Mapped(entry, j.root)) /\ call.req # D!NoRequest
  BY <1>1, Calm DEF ControlOK, Clear
<1>3. /\ call.req.op = "clear" /\ D!Effect(call.req) = NoSectors
      /\ Return(TRUE) /\ entry' = entry /\ saved' = saved
  BY Effects DEF Clear
<1>4. CASE count = 0 /\ UNCHANGED <<j, count>>
  <2>1. Mapped(entry, j.root) = {}
    BY <1>2, <1>4, LiveCount, FS_EmptySet DEF IsTree, QueueOK
  <2>2. Dict = NoSectors
    BY <2>1 DEF Mapped, Dict, Value, NoSectors
  <2>3. Dict' = Dict /\ Durable' = Durable
    BY <1>3, <1>4 DEF Dict, Durable
  <2> QED BY <1>2, <1>3, <2>2, <2>3, SuccessRefines
<1>5. CASE j' = K
  <2>1. Value(entry, K.root) = NoSectors
    BY <1>2, ClearOK DEF NoSectors
  <2> HIDE DEF K
  <2>2. Dict' = NoSectors /\ Durable' = Durable
    BY <1>3, <1>5, <2>1, NextDict DEF Durable
  <2> QED BY <1>2, <1>3, <2>2, SuccessRefines
<1> QED BY <1>4, <1>5 DEF Clear

\* A step of try_recover: what it moves cannot be seen, and when it gives up the
\* call has had no effect.
LEMMA GoesOnRefines ==
  ASSUME MapInv, recovering, NEW k, RecoveryGoesOn(k),
         Dict' = Dict, Durable' \in {Durable, Dict}
  PROVE  Refines
<1>1. call \in Calls /\ ok = TRUE
  BY DEF MapInv, ControlOK
<1>2. CASE Stay /\ UNCHANGED call
  BY <1>2, QuietRefines DEF Stay
<1>3. CASE Enter(call, k)
  <2>1. call'.req = call.req /\ ok' = ok
    BY <1>1, <1>3 DEF Enter, Calls
  <2> QED BY <2>1, QuietRefines
<1>4. CASE UNCHANGED <<pc, call, ok>>
  BY <1>4, QuietRefines
<1> QED BY <1>2, <1>3, <1>4 DEF RecoveryGoesOn

\* The same after an attempt to append a page.
LEMMA AfterRefines ==
  ASSUME MapInv, recovering, NEW J, Value(entry, J.root) = Dict,
         NEW gone, NEW o, NEW m,
         IF o.err = "OK" THEN Done(J, o, gone, Dict, m) ELSE Kept(J, o),
         Becomes(o), RecoveryAfter(o)
  PROVE  Refines
<1>1. call \in Calls /\ call.req # D!NoRequest
  BY DEF MapInv, ControlOK
<1>2. CASE o.err = "OK" /\ RecoveryGoesOn(o.j)
  <2>1. Dict' = Dict /\ Durable' \in {Durable, Dict}
    BY <1>2, DoneDict
  <2> QED BY <1>2, <2>1, GoesOnRefines
<1>3. ASSUME o.err # "OK" PROVE Dict' = Dict /\ Durable' = Durable
  <2>1. o.j = j' /\ o.entry = entry' /\ o.saved = saved'
    BY DEF Becomes
  <2>2. /\ Value(o.entry, o.j.root) = Dict /\ o.saved = saved
        /\ Value(o.entry, saved.root) = Durable
    BY <1>3 DEF Kept, Durable
  <2> QED BY <2>1, <2>2, NextDict
<1>4. CASE o.err # "OK" /\ Stay /\ call' = [call EXCEPT !.restarts = @ + 1]
  <2>1. call'.req = call.req /\ ok' = ok
    BY <1>1, <1>4 DEF Calls, Stay
  <2> QED BY <1>3, <1>4, <2>1, QuietRefines
<1>5. CASE o.err # "OK" /\ Return(FALSE)
  BY <1>1, <1>3, <1>5, FailureRefines
<1> QED BY <1>2, <1>4, <1>5 DEF RecoveryAfter

\* A step of try_recover cannot be seen, or ends the call without effect.
LEMMA RecoverRefines ==
  ASSUME num_blocks >= 2, MapInv, Recover
  PROVE  Refines
<1> DEFINE x == j.recover_next
           J == next_recoverable(j)
           jj == IF j.enum_done THEN j ELSE J
           m == Mapped(entry, j.root)
<1>1. /\ recovering /\ j.recovery /\ QueueOK(j, entry, saved, bad)
      /\ EnumOK(j, entry, {}) /\ count = Cardinality(m)
      /\ entry \in Entries /\ IsTree(entry, j.root) /\ x \in UPages
  BY DEF Recover, MapInv, CountOK, QueueOK, TreeOK, RecOK
<1>2. ~j.enum_done => /\ QueueOK(J, entry, saved, bad) /\ EnumOK(J, entry, {x})
                      /\ J.root = j.root /\ J.recovery
  BY <1>1, EnumerateOK
<1>3. current(j, x) <=> x \in Live(entry, j.root)
  BY <1>1, CurrentIsLive
<1> HIDE DEF J, x
<1>4. CASE /\ ~j.enum_done /\ ~current(j, x)
           /\ j' = jj /\ RecoveryGoesOn(jj)
           /\ UNCHANGED <<entry, saved, bad, fails>>
  <2>1. Dict' = Dict /\ Durable' = Durable
    BY <1>2, <1>4, NextDict DEF Dict, Durable
  <2> QED BY <1>1, <1>4, <2>1, GoesOnRefines
<1>5. ASSUME ~j.enum_done, current(j, x),
             NEW o \in append(jj, rewritten(j, x), count), Becomes(o), RecoveryAfter(o)
      PROVE  Refines
  <2> DEFINE e == rewritten(j, x)
  <2>1. e = [entry[x] EXCEPT !.alt = trace(entry, j.root, entry[x].id).alt]
    BY TracePath DEF rewritten
  <2> HIDE DEF e
  <2>2. e \in PageRecords /\ Fits(entry, j.root, e, {x}, Dict, m)
    BY <1>1, <1>3, <1>5, <2>1, FitsRewritten DEF Dict
  <2>3. o \in append(J, e, count)
    BY <1>5 DEF e
  <2> HIDE DEF m
  <2>4. Dict = Value(entry, J.root) /\ m = Mapped(entry, J.root)
    BY <1>2, <1>5 DEF Dict, m
  <2>5. IF o.err = "OK" THEN Done(J, o, {x}, Dict, m) ELSE Kept(J, o)
    BY <1>1, <1>2, <1>5, <2>2, <2>3, <2>4, AppendOK
  <2> QED BY <1>1, <1>5, <2>4, <2>5, AfterRefines
<1>6. ASSUME j.enum_done, NEW o \in pad_queue(j), Becomes(o), RecoveryAfter(o)
      PROVE  Refines
  <2>1. IF o.err = "OK" THEN Done(j, o, {}, Dict, m) ELSE Kept(j, o)
    BY <1>1, <1>6, PadAppends DEF Dict
  <2>2. Value(entry, j.root) = Dict
    BY DEF Dict
  <2> HIDE DEF m
  <2> QED BY <1>1, <1>6, <2>1, <2>2, AfterRefines
<1> QED BY <1>4, <1>5, <1>6 DEF Recover, J, x, RecoveryGoesOn, RecoveryAfter

\* Power fails: the dictionary is the durable one.
LEMMA CrashRefines ==
  ASSUME num_blocks >= 2, MapInv, Crash
  PROVE  Refines
<1>1. QueueOK(j, entry, saved, bad) /\ ~j.recovery /\ entry \in Entries
  BY DEF MapInv, QueueOK, Crash, Restarted
<1>2. j' = resumed /\ saved' = saved /\ Return(TRUE)
  BY DEF Crash, Restarted
<1>3. entry' = [p \in UPages |->
                  IF /\ saved # NoCheckpoint
                     /\ p \notin queue(next_upage(saved.root), j.head)
                    THEN entry[p] ELSE without_meta(entry[p])]
  BY DEF Crash, Restarted
<1>4. Recalled(entry')
  BY <1>1, <1>3, RestartedPages
<1>5. j'.root = saved.root /\ Value(entry', j'.root) = Value(entry, saved.root)
  BY <1>1, <1>2, <1>4, RestartOK
<1>6. Dict' = Durable /\ Durable' = Durable
  BY <1>2, <1>5 DEF Dict, Durable
<1>7. call'.req = D!NoRequest /\ ok' = TRUE
  BY <1>2 DEF Return, NoCall
<1>8. D!Restart
  BY <1>6, <1>7, DictIs, DictIsPrimed DEF D!Restart
<1> QED BY <1>8 DEF D!DNext, Refines

\* At first no sector is mapped.
LEMMA InitRefines ==
  ASSUME MapInit
  PROVE  D!DInit
<1>1. MapInv /\ j = EmptyJournal /\ saved = NoCheckpoint /\ ~j.recovery /\ ~j.dirty
      /\ call = NoCall /\ ok = TRUE /\ entry = [p \in UPages |-> Filler]
  BY InitInv DEF MapInit, QueueInit, EmptyJournal
<1>2. EmptyJournal.root = PAGE_NONE /\ NoCheckpoint.root = PAGE_NONE
  BY DEF EmptyJournal, NoCheckpoint
<1>3. entry \in Entries
  BY <1>1 DEF MapInv, QueueOK
<1>4. Dict = NoSectors /\ Durable = NoSectors
  <2>1. PAGE_NONE \in Links /\ PAGE_NONE \notin UPages
    BY PageNone DEF Links
  <2>2. Value(entry, PAGE_NONE) = NoSectors
    BY <1>3, <2>1, NoTree DEF NoSectors
  <2> QED BY <1>1, <1>2, <2>2 DEF Dict, Durable
<1>5. call.req = D!NoRequest
  BY <1>1 DEF NoCall
<1> QED BY <1>1, <1>4, <1>5, DictIs DEF D!DInit, NoSectors

\* Every step of the map is a step of the dictionary or cannot be seen.
LEMMA StepRefines ==
  ASSUME num_blocks >= 2, MapInv, NoRecoveryGivenUp, SourceKept, [MapNext]_mapVars
  PROVE  Refines
<1>1. ASSUME NEW r \in D!Requests, Begin(r) PROVE Refines
  BY <1>1, BeginRefines
<1>2. CASE UNCHANGED mapVars
  <2>1. Dict' = Dict /\ Durable' = Durable /\ call' = call /\ ok' = ok
    BY <1>2 DEF mapVars, queueVars, Dict, Durable
  <2> QED BY <2>1, QuietRefines
<1> QED BY <1>1, <1>2, GcRefines, WriteRefines, TrimRefines, SyncRefines, ClearRefines,
           RecoverRefines, CrashRefines DEF MapNext

\* The map implements its dictionary (Implements): every call takes effect in
\* the step in which it succeeds, a call that fails has none, a sync makes all
\* durable and a restart finds what is durable.  It supposes that no recovery
\* is given up and that the source of a copy is still there when it is copied.
THEOREM ImplementsDictionary ==
  ASSUME num_blocks >= 2
  PROVE  MapSpec /\ []NoRecoveryGivenUp /\ []SourceKept => Implements
<1>1. MapInit => D!DInit
  BY InitRefines
<1>2. MapInv /\ NoRecoveryGivenUp /\ SourceKept /\ [MapNext]_mapVars => [D!DNext]_(D!dvars)
  BY StepRefines DEF Refines
<1>3. MapSpec /\ []NoRecoveryGivenUp => []MapInv
  BY MapInvariance
<1> QED BY <1>1, <1>2, <1>3, PTL DEF MapSpec, Implements, D!DSpec

-----------------------------------------------------------------------------
(* Without copies                                                          *)

\* No copy runs.
NoCopy == call.req.op # "copy"

\* A step begins a call, goes on with the one that runs, or ends it.
LEMMA SameRequest ==
  ASSUME call \in Calls, MapNext
  PROVE  \/ call'.req = call.req
         \/ call' = NoCall
         \/ \E r \in D!Requests : r.op \in Ops /\ call'.req = r
<1>1. ASSUME NEW r \in D!Requests, Begin(r) PROVE r.op \in Ops /\ call'.req = r
  BY <1>1 DEF Begin, Enter, NoCall
<1>2. ASSUME NEW o, Failed(o) PROVE call'.req = call.req \/ call' = NoCall
  BY <1>2 DEF Failed, Return, Calls
<1>3. ASSUME Collected PROVE call'.req = call.req \/ call' = NoCall
  BY <1>3 DEF Collected, Return, Calls
<1>4. ASSUME NEW result, Return(result) PROVE call' = NoCall
  BY <1>4 DEF Return
<1>5. ASSUME NEW k, RecoveryGoesOn(k) PROVE call'.req = call.req
  BY <1>5 DEF RecoveryGoesOn, Enter, Calls
<1>6. ASSUME NEW o, RecoveryAfter(o) PROVE call'.req = call.req \/ call' = NoCall
  BY <1>4, <1>5, <1>6 DEF RecoveryAfter, Calls
<1>7. CASE Gc
  BY <1>2, <1>3, <1>7 DEF Gc
<1>8. CASE Write \/ Trim \/ Clear \/ Crash
  BY <1>2, <1>4, <1>8 DEF Write, Trim, Clear, Crash
<1>9. CASE Sync
  BY <1>2, <1>4, <1>9 DEF Sync, Calls
<1>10. CASE Recover
  BY <1>5, <1>6, <1>10 DEF Recover, RecoveryGoesOn, RecoveryAfter
<1> QED BY <1>1, <1>7, <1>8, <1>9, <1>10 DEF MapNext

\* If the user makes no copies none runs.
LEMMA NoCopyStep ==
  ASSUME "copy" \notin Ops, MapInv, NoCopy, [MapNext]_mapVars
  PROVE  NoCopy'
<1>1. call \in Calls
  BY DEF MapInv, ControlOK
<1>2. CASE UNCHANGED mapVars
  BY <1>2 DEF mapVars, NoCopy
<1>3. CASE MapNext
  BY <1>1, <1>3, SameRequest DEF NoCopy, NoCall, D!NoRequest
<1> QED BY <1>2, <1>3

\* None runs at first.
LEMMA NoCopyInit ==
  ASSUME MapInit
  PROVE  NoCopy
BY DEF MapInit, NoCall, NoCopy, D!NoRequest

\* For a user that makes no copies, as the disk I/O layer does not, the map
\* implements its dictionary whenever no recovery is given up: Implements.
THEOREM ImplementsWithoutCopies ==
  ASSUME num_blocks >= 2, "copy" \notin Ops
  PROVE  MapSpec /\ []NoRecoveryGivenUp => Implements
<1>1. MapInit => NoCopy
  BY NoCopyInit
<1>2. MapInv /\ NoCopy /\ [MapNext]_mapVars => NoCopy'
  BY NoCopyStep
<1>3. MapSpec /\ []NoRecoveryGivenUp => []MapInv
  BY MapInvariance
<1>4. NoCopy => SourceKept
  BY DEF NoCopy, SourceKept
<1>5. MapSpec /\ []NoRecoveryGivenUp /\ []SourceKept => Implements
  BY ImplementsDictionary
<1> QED BY <1>1, <1>2, <1>3, <1>4, <1>5, PTL DEF MapSpec

\* When moreover no command fails, nothing is left to suppose: the map
\* implements its dictionary, whenever power fails.
THEOREM ImplementsWithoutFailures ==
  ASSUME num_blocks >= 2, MaxFails = 0, "copy" \notin Ops
  PROVE  MapSpec => Implements
<1>1. MapSpec => []NoFailure
  BY NoFailureInvariance
<1>2. NoFailure => NoRecoveryGivenUp
  BY DEF NoFailure, NoRecoveryGivenUp
<1>3. MapSpec /\ []NoRecoveryGivenUp => Implements
  BY ImplementsWithoutCopies
<1> QED BY <1>1, <1>2, <1>3, PTL

=============================================================================
