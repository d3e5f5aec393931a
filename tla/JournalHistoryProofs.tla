------------------------- MODULE JournalHistoryProofs -------------------------
(***************************************************************************)
(* What the journal's client relies on: the head never catches up with the *)
(* pages the tails keep, and prepare_head erases no block with a page that *)
(* is accepted or that the last synchronization point still needs.  This   *)
(* holds for every geometry of two blocks or more and any number of failed *)
(* commands and power failures.                                            *)
(***************************************************************************)
EXTENDS JournalHistory, JournalProofs

-----------------------------------------------------------------------------
(* What the flash says about the order of the ring                         *)

is_erased(pg, p) == pg[p].kind = "erased"

\* Checkpoint page c closes a group that find_head takes for full: not both of
\* its last two pages are free.
Full(pg, c) == ~is_erased(pg, c) \/ ~is_erased(pg, c - 1)

\* The groups before page h of its block are full.
Filled(pg, h) ==
  \A c \in CpPages : block_of(c) = block_of(h) /\ c < h => Full(pg, c)

\* The pages behind the group of user page h in its block are erased.
Ahead(pg, h) ==
  \A p \in Pages : block_of(p) = block_of(h) /\ p > cp_page(h) => is_erased(pg, p)

\* find_head will stop in block b: its last two pages are erased.
OpenEnd(pg, b) ==
  /\ is_erased(pg, first_page(b) + ppb - 1)
  /\ is_erased(pg, first_page(b) + ppb - 2)

\* The tail a checkpoint has recorded is behind it, and the groups of a block
\* are filled one after the other.
FlashOrder(pg) ==
  /\ \A c \in CpPages : pg[c].kind = "cp" => ClearOf(pg[c].tail, c)
  /\ \A p \in Pages : ~is_erased(pg, p) => Filled(pg, p)

\* A synchronization point: unless the checkpoint of its root has been torn,
\* the tail in it is the one to start from; and when the page q it needs lies
\* in the block behind the root, find_head will not run into that block.
PointOK(pg, s) ==
  /\ "root" \in DOMAIN s /\ "live" \in DOMAIN s
  /\ s.root \in UPagesOrNone /\ DOMAIN s.live \subseteq UPages
  /\ s.root = PAGE_NONE => DOMAIN s.live = {}
  /\ s.root # PAGE_NONE => is_aligned(s.root + 2, ppc)
  /\ \A q \in DOMAIN s.live :
       /\ pg[s.root + 1].kind = "cp" => Upto(pg[s.root + 1].tail, q, s.root)
       /\ block_of(q) = next_block(block_of(s.root)) =>
            OpenEnd(pg, block_of(s.root))

\* A synchronization point is between the last-synced tail and the head.
Held(s, ts, h) ==
  \A q \in DOMAIN s.live : Upto(ts, q, s.root) /\ Before(ts, s.root, h)

\* Page w is written, all others stay.
Written(pg, new, w) == \A p \in Pages : p # w => new[p] = pg[p]

\* Block b is erased or torn, all others stay.
Wiped(pg, new, b) ==
  /\ \A p \in Pages : block_of(p) # b => new[p] = pg[p]
  /\ \/ \A p \in Pages : block_of(p) = b => new[p] = Erased
     \/ \A p \in Pages : block_of(p) = b => new[p] = Torn

\* The page a step programs when the head is at user page u.
Target(pg, new, u, w) ==
  \/ w = u
  \/ /\ w = u + 1 /\ w = cp_page(u) /\ ~is_erased(new, w)
     /\ new[w].kind = "cp" => ClearOf(new[w].tail, w)

\* The last page of a block, and the user page before it.
LEMMA LastPages ==
  ASSUME NEW b \in Blocks
  PROVE  /\ first_page(b) + ppb - 1 \in CpPages
         /\ first_page(b) + ppb - 2 \in UPages
         /\ cp_page(first_page(b) + ppb - 2) = first_page(b) + ppb - 1
         /\ block_of(first_page(b) + ppb - 1) = b
         /\ block_of(first_page(b) + ppb - 2) = b
<1>1. /\ ppb \in Nat \ {0} /\ ppb >= ppc /\ ppc \in Nat \ {0} /\ ppc >= 4
      /\ ppb = cpb * ppc /\ cpb \in Nat \ {0} /\ b \in Nat
  BY Sizes, GeometryAssumption DEF Blocks
<1>2. first_page(b) \in Nat
  BY BlocksApart
<1>3. ppb - 1 \in 0 .. (ppb - 1)
  BY <1>1
<1>4. first_page(b) + (ppb - 1) \in Pages /\ block_of(first_page(b) + (ppb - 1)) = b
  BY <1>3, BlockPage
<1> DEFINE c == first_page(b) + ppb - 1
<1>5. c = first_page(b) + (ppb - 1)
  BY <1>1, <1>2
<1>6. c \in CpPages
  <2>1. b * cpb \in Nat /\ (b * cpb) + cpb \in Nat
    BY <1>1
  <2>2. b * ppb = (b * cpb) * ppc
    BY <1>1
  <2>3. ((b * cpb) + cpb) * ppc = ((b * cpb) * ppc) + (cpb * ppc)
    BY <1>1, <2>1
  <2>4. c + 1 = (((b * cpb) + cpb) * ppc) + 0 /\ 0 \in 0 .. (ppc - 1)
    BY <1>1, <1>2, <2>1, <2>2, <2>3 DEF first_page
  <2> DEFINE k == (b * cpb) + cpb
  <2> HIDE DEF c, k
  <2>5. (c + 1) % ppc = 0
    <3>1. k \in Nat /\ c + 1 = (k * ppc) + 0
      BY <2>1, <2>4 DEF k
    <3>2. ((k * ppc) + 0) % ppc = 0
      BY <3>1, <2>4, <1>1, ModUnique
    <3> QED BY <3>1, <3>2
  <2> QED BY <2>5, <1>4, <1>5 DEF CpPages, is_aligned
<1>7. c - 1 \in UPages /\ cp_page(c - 1) = c /\ block_of(c - 1) = block_of(c)
  BY <1>6, CpOwner
<1>8. c - 1 = first_page(b) + ppb - 2
  BY <1>1, <1>2
<1> QED BY <1>4, <1>5, <1>6, <1>7, <1>8

\* A user page is no checkpoint page, and groups are disjoint.
LEMMA GroupOrder ==
  ASSUME NEW u \in UPages, NEW c \in CpPages
  PROVE  /\ u # c /\ u \in Nat /\ c \in Nat /\ cp_page(u) \in Nat
         /\ c - 1 = u <=> c = cp_page(u) /\ u + 1 = c
         /\ c < u => c + 1 < u + 1 /\ c # cp_page(u)
         /\ c > u => c >= cp_page(u)
         /\ c < cp_page(u) => c < u
<1>1. u # c
  BY DEF UPages, CpPages
<1>2. /\ cp_page(u) \in CpPages /\ u < cp_page(u) /\ u \in Nat
      /\ cp_page(u) \in Nat /\ c \in Nat
  BY GroupBounds, CpPage, UPageOffset
<1>3. c < u => c <= cp_page(u) - ppc
  BY GroupsApart
<1>4. c > u => c >= cp_page(u)
  BY GroupsApart
<1>5. c - 1 \in UPages /\ cp_page(c - 1) = c
  BY CpOwner
<1> QED BY <1>1, <1>2, <1>3, <1>4, <1>5

\* Programming at the head keeps the flash in order.
LEMMA WriteFlash ==
  ASSUME NEW pg, NEW new, NEW u \in UPages, NEW w \in Pages,
         FlashOrder(pg), Filled(pg, u), Ahead(pg, u),
         Written(pg, new, w), Target(pg, new, u, w)
  PROVE  FlashOrder(new) /\ Filled(new, u) /\ Ahead(new, u)
<1>1. /\ u \in Pages /\ u \in Nat /\ w \in Nat /\ cp_page(u) \in CpPages
      /\ block_of(cp_page(u)) = block_of(u) /\ u < cp_page(u) /\ cp_page(u) \in Nat
      /\ block_of(w) = block_of(u) /\ w >= u /\ w <= cp_page(u)
      /\ cp_page(u) \in Pages
  BY GroupBounds, GroupOrder DEF Target, Pages
<1>2. Filled(new, u)
  <2> SUFFICES ASSUME NEW c \in CpPages, block_of(c) = block_of(u), c < u
               PROVE  Full(new, c)
    BY DEF Filled
  <2>1. c \in Pages /\ c - 1 \in Pages /\ c \in Nat /\ c - 1 \in Nat
    BY CpPage, CpOwner DEF UPages, Pages
  <2>2. c # w /\ c - 1 # w
    BY <2>1, <1>1
  <2>3. Full(pg, c)
    BY DEF Filled
  <2> QED BY <2>1, <2>2, <2>3 DEF Full, Written, is_erased
<1>3. Ahead(new, u)
  BY <1>1 DEF Ahead, Written, is_erased, Pages
<1>4. ASSUME NEW c \in CpPages, new[c].kind = "cp" PROVE ClearOf(new[c].tail, c)
  <2>1. c \in Pages /\ u # c
    BY CpPage, GroupOrder
  <2> QED BY <2>1, <1>4 DEF Target, Written, FlashOrder
<1>5. ASSUME NEW p \in Pages, ~is_erased(new, p) PROVE Filled(new, p)
  <2> SUFFICES ASSUME NEW c \in CpPages, block_of(c) = block_of(p), c < p
               PROVE  Full(new, c)
    BY DEF Filled
  <2>1. /\ c \in Pages /\ c - 1 \in Pages /\ c \in Nat /\ c - 1 \in Nat
        /\ p \in Nat
    BY CpPage, CpOwner DEF UPages, Pages
  <2>2. CASE w = p
    <3>1. c < u /\ block_of(c) = block_of(u)
      BY <2>1, <2>2, <1>1, GroupOrder DEF Target
    <3> QED BY <3>1, <1>2 DEF Filled
  <2>3. CASE w # p
    <3>1. ~is_erased(pg, p)
      BY <2>3, <1>5 DEF Written, is_erased
    <3>2. Full(pg, c)
      BY <3>1 DEF FlashOrder, Filled
    <3>3. CASE w = c
      BY <3>3, GroupOrder DEF Target, Full
    <3>4. CASE w = c - 1
      <4>1. w = u
        BY <3>4, <1>1, <2>1, CpOwner, GroupOrder DEF Target, UPages, CpPages
      <4>2. c = cp_page(u)
        BY <4>1, <3>4, GroupOrder
      <4>3. is_erased(pg, p)
        BY <4>2, <1>1 DEF Ahead
      <4> QED BY <4>3, <3>1
    <3>5. CASE w # c /\ w # c - 1
      BY <3>5, <3>2, <2>1 DEF Written, Full, is_erased
    <3> QED BY <3>3, <3>4, <3>5
  <2> QED BY <2>2, <2>3
<1> QED BY <1>2, <1>3, <1>4, <1>5 DEF FlashOrder

\* Erasing a block, or tearing it, keeps the flash in order.
LEMMA WipeFlash ==
  ASSUME NEW pg, NEW new, NEW b \in Blocks, FlashOrder(pg), Wiped(pg, new, b)
  PROVE  FlashOrder(new)
<1>1. ASSUME NEW c \in CpPages, new[c].kind = "cp" PROVE ClearOf(new[c].tail, c)
  <2>1. c \in Pages /\ block_of(c) # b
    BY <1>1, CpPage DEF Wiped, Erased, Torn
  <2> QED BY <2>1, <1>1 DEF Wiped, FlashOrder
<1>2. ASSUME NEW p \in Pages, ~is_erased(new, p), NEW c \in CpPages,
             block_of(c) = block_of(p), c < p
      PROVE  Full(new, c)
  <2>1. c \in Pages /\ c - 1 \in Pages /\ block_of(c - 1) = block_of(c)
    BY CpPage, CpOwner DEF UPages
  <2>2. CASE block_of(p) = b
    <3>1. new[c] = Torn
      BY <2>1, <2>2, <1>2 DEF Wiped, is_erased, Erased, Torn
    <3> QED BY <3>1 DEF Full, is_erased, Torn
  <2>3. CASE block_of(p) # b
    <3>1. ~is_erased(pg, p)
      BY <1>2, <2>3 DEF Wiped, is_erased
    <3>2. Full(pg, c)
      BY <3>1, <1>2 DEF FlashOrder, Filled
    <3> QED BY <3>2, <2>1, <2>3, <1>2 DEF Wiped, Full, is_erased
  <2> QED BY <2>2, <2>3
<1> QED BY <1>1, <1>2 DEF FlashOrder, Filled

-----------------------------------------------------------------------------
(* Synchronization points through what happens to the flash                *)

\* The guard of prepare_head, for a head and a tail.
RollsOnto(ts, h) ==
  align_eq(next_upage(h), ts, ppb) /\ ~align_eq(next_upage(h), h, ppb)

\* While the tail is in the next block, prepare_head lets nothing be programmed
\* on the last two pages of the block.
LEMMA EndSpared ==
  ASSUME num_blocks >= 2, NEW ts \in Pages, NEW u \in UPages, NEW w \in Pages,
         ~RollsOnto(ts, u), block_of(ts) = next_block(block_of(u)),
         w = u \/ (w = u + 1 /\ w = cp_page(u))
  PROVE  /\ w # first_page(block_of(u)) + ppb - 1
         /\ w # first_page(block_of(u)) + ppb - 2
<1>1. u \in Pages /\ block_of(u) \in Blocks /\ u \in Nat
      /\ next_upage(u) \in Pages
  BY NextInBlock, BlockBounds
<1> DEFINE b == block_of(u)
           e == first_page(b) + ppb - 1
<1>2. /\ e \in CpPages /\ e - 1 \in UPages /\ cp_page(e - 1) = e
      /\ e \in Nat /\ block_of(e) = b /\ e = block_start(u) + ppb - 1
      /\ e - 1 = first_page(b) + ppb - 2
  <2>1. first_page(b) \in Nat /\ ppb \in Nat
    BY <1>1, BlocksApart, Sizes
  <2>2. e - 1 = first_page(b) + ppb - 2
    BY <2>1
  <2> QED BY <1>1, <2>2, LastPages, CpPage DEF block_start
<1>3. next_upage(u) # first_page(next_block(b))
  <2> SUFFICES ASSUME next_upage(u) = first_page(next_block(b)) PROVE FALSE
    OBVIOUS
  <2>1. block_of(next_upage(u)) = next_block(b)
    BY <1>1, BlockBounds
  <2>2. block_of(next_upage(u)) # block_of(u)
    BY <2>1, <1>1, NextBlockApart
  <2> QED BY <2>1, <2>2, <1>1, SameBlock DEF RollsOnto
<1>4. ~(u + 1 = cp_page(u) /\ u + 2 = block_start(u) + ppb)
  <2> SUFFICES ASSUME u + 1 = cp_page(u), u + 2 = block_start(u) + ppb
               PROVE  FALSE
    OBVIOUS
  <2>1. next_upage(u) = IF u + 2 >= chip_size THEN 0 ELSE u + 2
    BY GroupBounds
  <2> QED BY <2>1, <1>1, <1>3, BlockBounds
<1>5. block_start(u) \in Nat /\ ppb \in Nat
  BY <1>1, BlockBounds, Sizes
<1>6. u # e /\ u # e - 1
  <2>1. u # e
    BY <1>2, GroupOrder
  <2>2. SUFFICES ASSUME u = e - 1 PROVE FALSE
    BY <2>1
  <2>3. u + 1 = e
    BY <2>2, <1>2, <1>1
  <2> QED BY <2>2, <2>3, <1>2, <1>4, <1>5
<1> HIDE DEF e
<1>7. CASE w = u
  BY <1>6, <1>7, <1>2 DEF e
<1>8. CASE w = u + 1 /\ w = cp_page(u)
  <2>1. w \in CpPages
    BY <1>8, GroupBounds
  <2>2. w # e - 1
    BY <2>1, <1>2, GroupOrder
  <2>3. w # e
    BY <1>8, <1>1, <1>2, <1>6
  <2> QED BY <2>2, <2>3, <1>2 DEF e
<1> QED BY <1>7, <1>8

\* The checkpoint page of a synchronization point lies in the block of its root.
LEMMA PointPages ==
  ASSUME NEW pg, NEW s, PointOK(pg, s), NEW q \in DOMAIN s.live
  PROVE  /\ s.root \in UPages /\ s.root \in Pages /\ s.root + 1 = cp_page(s.root)
         /\ s.root + 1 \in CpPages /\ s.root + 1 \in Pages
         /\ block_of(s.root + 1) = block_of(s.root)
         /\ block_of(s.root) \in Blocks
         /\ q \in UPages /\ q \in Pages
<1>1. s.root \in UPages /\ is_aligned(s.root + 2, ppc) /\ q \in UPages
  BY DEF PointOK, UPagesOrNone
<1> QED BY <1>1, GroupBounds, BlockBounds DEF UPages

\* Programming at the head leaves a synchronization point as it was.
LEMMA WritePoint ==
  ASSUME num_blocks >= 2, NEW pg, NEW new, NEW s, NEW ts \in Pages,
         NEW u \in UPages, NEW w \in Pages,
         ClearOf(ts, u), ~RollsOnto(ts, u), Held(s, ts, u), PointOK(pg, s),
         Written(pg, new, w), w = u \/ (w = u + 1 /\ w = cp_page(u))
  PROVE  PointOK(new, s)
<1> SUFFICES ASSUME NEW q \in DOMAIN s.live
             PROVE  /\ new[s.root + 1].kind = "cp" =>
                         Upto(new[s.root + 1].tail, q, s.root)
                    /\ block_of(q) = next_block(block_of(s.root)) =>
                         OpenEnd(new, block_of(s.root))
  BY DEF PointOK
<1>1. /\ s.root \in UPages /\ s.root \in Pages /\ s.root + 1 = cp_page(s.root)
      /\ s.root + 1 \in CpPages /\ s.root + 1 \in Pages
      /\ block_of(s.root) \in Blocks /\ q \in Pages
  BY PointPages
<1>2. Upto(ts, q, s.root) /\ Before(ts, s.root, u) /\ u \in Pages
  BY DEF Held, UPages
<1>3. s.root # u
  BY <1>1, <1>2, OrderTrans
<1>4. w # s.root + 1
  <2>1. u # s.root + 1 /\ u \in Nat /\ s.root \in Nat
    BY <1>1, GroupOrder
  <2> QED BY <2>1, <1>3
<1>5. new[s.root + 1] = pg[s.root + 1]
  BY <1>1, <1>4 DEF Written
<1>6. ASSUME block_of(q) = next_block(block_of(s.root))
      PROVE  OpenEnd(new, block_of(s.root))
  <2> DEFINE b == block_of(s.root)
  <2>1. /\ first_page(b) + ppb - 1 \in Pages /\ first_page(b) + ppb - 2 \in Pages
        /\ block_of(first_page(b) + ppb - 1) = b
        /\ block_of(first_page(b) + ppb - 2) = b
    BY <1>1, LastPages DEF CpPages, UPages
  <2>2. OpenEnd(pg, b)
    BY <1>6 DEF PointOK
  <2>3. w # first_page(b) + ppb - 1 /\ w # first_page(b) + ppb - 2
    <3>1. CASE block_of(u) = b
      <4>1. Upto(ts, q, u)
        BY <1>1, <1>2, OrderTrans
      <4>2. block_of(ts) = next_block(block_of(u))
        BY <3>1, <4>1, <1>1, <1>2, <1>6, TailInNextBlock
      <4> QED BY <3>1, <4>2, EndSpared
    <3>2. CASE block_of(u) # b
      <4>1. block_of(w) = block_of(u)
        BY GroupBounds
      <4> QED BY <4>1, <3>2, <2>1
    <3> QED BY <3>1, <3>2
  <2> QED BY <2>1, <2>2, <2>3 DEF OpenEnd, Written, is_erased
<1> QED BY <1>5, <1>6 DEF PointOK

\* So does erasing the block at the head.
LEMMA WipePoint ==
  ASSUME NEW pg, NEW new, NEW s, NEW ts \in Pages, NEW u \in UPages,
         ClearOf(ts, u), is_aligned(u, ppb), Held(s, ts, u), PointOK(pg, s),
         Wiped(pg, new, block_of(u))
  PROVE  PointOK(new, s)
<1> SUFFICES ASSUME NEW q \in DOMAIN s.live
             PROVE  /\ new[s.root + 1].kind = "cp" =>
                         Upto(new[s.root + 1].tail, q, s.root)
                    /\ block_of(q) = next_block(block_of(s.root)) =>
                         OpenEnd(new, block_of(s.root))
  BY DEF PointOK
<1>1. /\ s.root \in Pages /\ s.root + 1 \in Pages
      /\ block_of(s.root + 1) = block_of(s.root) /\ block_of(s.root) \in Blocks
  BY PointPages
<1>2. Before(ts, s.root, u) /\ u \in Pages
  BY DEF Held, UPages
<1>3. block_of(s.root) # block_of(u)
  BY <1>1, <1>2, BlockIsSpared
<1>4. new[s.root + 1] = pg[s.root + 1]
  BY <1>1, <1>3 DEF Wiped
<1>5. ASSUME OpenEnd(pg, block_of(s.root)) PROVE OpenEnd(new, block_of(s.root))
  <2> DEFINE b == block_of(s.root)
  <2>1. /\ first_page(b) + ppb - 1 \in Pages /\ first_page(b) + ppb - 2 \in Pages
        /\ block_of(first_page(b) + ppb - 1) = b
        /\ block_of(first_page(b) + ppb - 2) = b
    BY <1>1, LastPages DEF CpPages, UPages
  <2> QED BY <2>1, <1>3, <1>5 DEF OpenEnd, Wiped, is_erased
<1> QED BY <1>4, <1>5 DEF PointOK

-----------------------------------------------------------------------------
(* The journal's pointers                                                  *)

Behind(ts, p, h) == p # PAGE_NONE => Before(ts, p, h)

\* The pointers of journal k in ring order; the root that a recovery starts from
\* counts once recover_from has saved it.
RingOK(k, dumping) ==
  /\ ClearOf(k.tail_sync, k.head)
  /\ Upto(k.tail_sync, k.tail, k.head)
  /\ Behind(k.tail_sync, k.root, k.head)
  /\ k.recovery \/ dumping => Behind(k.tail_sync, k.recover_root, k.head)

\* b has the pointers of a but for its head, and is in recovery if a is.
SamePointers(a, b) ==
  /\ b.tail = a.tail /\ b.tail_sync = a.tail_sync /\ b.root = a.root
  /\ b.recover_root = a.recover_root /\ b.recovery = a.recovery

\* move_head and skip_block move the head and no other pointer.
LEMMA MoveHeadPointers ==
  ASSUME NEW k \in Journals, NEW p \in UPages
  PROVE  /\ SamePointers(k, move_head(k, p)) /\ move_head(k, p).head = p
         /\ move_head(k, p).dirty = k.dirty
<1> DEFINE moved == [k EXCEPT !.head = p]
<1>1. /\ moved \in Journals /\ SamePointers(k, moved) /\ moved.head = p
      /\ moved.dirty = k.dirty
  BY DEF Journals, SamePointers
<1>2. /\ SamePointers(moved, roll_stats(moved))
      /\ roll_stats(moved).head = moved.head /\ roll_stats(moved).dirty = moved.dirty
  BY <1>1 DEF roll_stats, Journals, SamePointers
<1> QED BY <1>1, <1>2 DEF move_head, SamePointers

\* The journal after a bad block: counted, and skipped when that is allowed.
LEMMA SkippedPointers ==
  ASSUME j \in Journals
  PROVE  /\ SamePointers(j, counted) /\ counted.head = j.head
         /\ SamePointers(j, skip_block(counted))
         /\ skip_block(counted).dirty = j.dirty
         /\ skip_block(counted).head = first_page(next_block(block_of(j.head)))
         /\ skip_block(counted).head \in UPages
         /\ is_aligned(skip_block(counted).head, ppb)
         /\ can_skip(counted) <=> block_of(j.tail_sync) # next_block(block_of(j.head))
<1> DEFINE n == first_page(next_block(block_of(j.head)))
<1>1. j.head \in Pages
  BY DEF Journals, UPages
<1>2. n \in UPages /\ n \in Pages /\ block_start(n) = n
  BY <1>1, BlockBounds DEF block_start
<1>3. is_aligned(n, ppb)
  BY <1>2, AlignedBlock
<1>4. /\ counted \in Journals /\ counted.head = j.head /\ counted.dirty = j.dirty
      /\ SamePointers(j, counted)
  BY CountedType DEF counted, Journals, SamePointers
<1>5. skip_block(counted) = move_head(counted, n)
  BY <1>4 DEF skip_block
<1>6. /\ SamePointers(counted, skip_block(counted)) /\ skip_block(counted).head = n
      /\ skip_block(counted).dirty = counted.dirty
  BY <1>2, <1>4, <1>5, MoveHeadPointers
<1> QED BY <1>2, <1>3, <1>4, <1>6 DEF SamePointers, can_skip

\* A call that reports an error leaves the journal as it is.
LEMMA ReturnError ==
  ASSUME NEW k, NEW err, Return(k, err), err # "OK"
  PROVE  j' = k /\ pc' = "idle" /\ call' = NoCall
BY DEF Return

\* prepare_head reports a full journal or goes on with a head that may be used.
LEMMA Prepared ==
  ASSUME NEW k \in Journals, NEW c \in CallRecords, prepare_head(k, c)
  PROVE  \/ j' = k /\ pc' = "idle" /\ call' = NoCall
         \/ /\ ~RollsOnto(k.tail_sync, k.head)
            /\ SamePointers(k, j') /\ j'.head = k.head /\ j'.dirty
            /\ pc' = IF is_aligned(k.head, ppb) THEN "scan" ELSE "prog"
            /\ call'.dequeue = c.dequeue /\ call'.dumping = c.dumping
<1>1. CASE rolls_onto_tail(k)
  BY <1>1, ReturnError DEF prepare_head
<1>2. CASE ~rolls_onto_tail(k)
  <2>1. /\ j' = [k EXCEPT !.dirty = TRUE] /\ call' = [c EXCEPT !.scans = 0]
        /\ pc' = IF is_aligned(k.head, ppb) THEN "scan" ELSE "prog"
    BY <1>2 DEF prepare_head
  <2>2. ~RollsOnto(k.tail_sync, k.head)
    BY <1>2 DEF rolls_onto_tail, RollsOnto
  <2>3. call'.dequeue = c.dequeue /\ call'.dumping = c.dumping
    BY <2>1 DEF CallRecords
  <2>4. SamePointers(k, j') /\ j'.head = k.head /\ j'.dirty
    BY <2>1 DEF Journals, SamePointers
  <2> QED BY <2>1, <2>2, <2>3, <2>4
<1> QED BY <1>1, <1>2

\* What a bad block does to the journal: the head stays or goes to the next
\* block, the tails stay, and the root stays or is the one recovery began with.
Retreats ==
  /\ j'.tail = j.tail /\ j'.tail_sync = j.tail_sync
  /\ \/ j'.head = j.head
     \/ /\ j'.head = first_page(next_block(block_of(j.head)))
        /\ block_of(j.tail_sync) # next_block(block_of(j.head))
  /\ j'.root = j.root \/ (j.recovery /\ j'.root = j.recover_root)
  /\ j'.recovery \/ call'.dumping =>
       \/ (j.recovery \/ call.dumping) /\ j'.recover_root = j.recover_root
       \/ j'.recover_root = j.root
  /\ j.recovery => j'.recovery
  /\ pc' \in {"idle", "scan"}
  /\ pc' = "scan" => /\ j'.dirty /\ ~RollsOnto(j'.tail_sync, j'.head)
                     /\ is_aligned(j'.head, ppb)
  /\ call'.dequeue => pc' = "scan" /\ call.dequeue

\* A call that ends here, with the journal in a state k that fits.
LEMMA RetreatReturns ==
  ASSUME NEW k, NEW err, Return(k, err), err # "OK",
         k.tail = j.tail, k.tail_sync = j.tail_sync,
         \/ k.head = j.head
         \/ /\ k.head = first_page(next_block(block_of(j.head)))
            /\ block_of(j.tail_sync) # next_block(block_of(j.head)),
         k.root = j.root \/ (j.recovery /\ k.root = j.recover_root),
         k.recovery => \/ j.recovery /\ k.recover_root = j.recover_root
                       \/ k.recover_root = j.root,
         j.recovery => k.recovery
  PROVE  Retreats
BY ReturnError DEF Retreats, NoCall

\* A call that goes on in the next block.
LEMMA RetreatGoesOn ==
  ASSUME NEW k \in Journals, NEW c \in CallRecords, prepare_head(k, c),
         k.tail = j.tail, k.tail_sync = j.tail_sync, k.root = j.root,
         k.head = first_page(next_block(block_of(j.head))),
         block_of(j.tail_sync) # next_block(block_of(j.head)),
         is_aligned(k.head, ppb), k.recovery = j.recovery,
         k.recovery \/ c.dumping =>
            \/ (j.recovery \/ call.dumping) /\ k.recover_root = j.recover_root
            \/ k.recover_root = j.root,
         c.dequeue => call.dequeue
  PROVE  Retreats
<1>1. CASE j' = k /\ pc' = "idle" /\ call' = NoCall
  BY <1>1 DEF Retreats, NoCall
<1>2. CASE /\ ~RollsOnto(k.tail_sync, k.head)
           /\ SamePointers(k, j') /\ j'.head = k.head /\ j'.dirty
           /\ pc' = "scan"
           /\ call'.dequeue = c.dequeue /\ call'.dumping = c.dumping
  BY <1>2 DEF Retreats, SamePointers
<1> QED BY <1>1, <1>2, Prepared

\* A bad block makes the journal retreat.
LEMMA BadBlockRetreats ==
  ASSUME Inv, BadBlock
  PROVE  Retreats
<1>1. /\ j \in Journals /\ call \in CallRecords /\ j.root \in UPagesOrNone
      /\ j.recovery \in BOOLEAN
  BY DEF Inv, TypeOK, Journals
<1>2. call.dumping => ~j.recovery
  BY DEF Inv, RecoveryState
<1> DEFINE sk == skip_block(counted)
           start == [sk EXCEPT !.recover_root = j.root,
                               !.recover_next = recover_start(j.root)]
<1>3. /\ SamePointers(j, counted) /\ counted.head = j.head
      /\ SamePointers(j, sk)
      /\ sk.head = first_page(next_block(block_of(j.head)))
      /\ is_aligned(sk.head, ppb)
      /\ can_skip(counted) <=> block_of(j.tail_sync) # next_block(block_of(j.head))
  BY <1>1, SkippedPointers
<1>4. sk \in Journals
  BY <1>1, CountedType, SkipBlockType
<1> HIDE DEF sk
<1>5. /\ start \in Journals /\ start.tail = j.tail /\ start.tail_sync = j.tail_sync
      /\ start.root = j.root /\ start.head = sk.head
      /\ start.recover_root = j.root /\ start.recovery = j.recovery
  BY <1>1, <1>3, <1>4, RecoverStart DEF Journals, SamePointers
<1>6. ASSUME Return(counted, "JOURNAL_FULL") PROVE Retreats
  BY <1>6, <1>3, RetreatReturns DEF SamePointers
<1>7. ASSUME can_skip(counted), Return(sk, "TOO_BAD") PROVE Retreats
  BY <1>7, <1>3, RetreatReturns DEF SamePointers
<1>8. CASE call.dumping /\ dump_failed
  <2>1. ASSUME can_skip(counted),
               prepare_head(sk, [call EXCEPT !.dumps = @ + 1])
        PROVE  Retreats
    <3>1. /\ [call EXCEPT !.dumps = @ + 1] \in CallRecords
          /\ [call EXCEPT !.dumps = @ + 1].dequeue = call.dequeue
      BY <1>1 DEF CallRecords
    <3> QED
      BY <1>3, <1>4, <1>8, <2>1, <3>1, RetreatGoesOn DEF SamePointers
  <2> QED BY <1>6, <1>7, <1>8, <2>1 DEF dump_failed, sk
<1>9. CASE ~call.dumping /\ recover_from
  <2>1. ASSUME can_skip(counted), j.recovery, restart_recovery(sk, j.head)
        PROVE  Retreats
    <3> DEFINE hm == /\ sk.recover_meta # PAGE_NONE
                     /\ align_eq(sk.recover_meta, j.head, ppb)
               k == [sk EXCEPT !.bad_meta = @ \/ hm,
                               !.enum_done = FALSE,
                               !.recover_next = recover_start(sk.recover_root),
                               !.root = sk.recover_root]
    <3>1. Return(k, "RECOVER")
      BY <2>1 DEF restart_recovery
    <3>2. /\ k.tail = j.tail /\ k.tail_sync = j.tail_sync /\ k.head = sk.head
          /\ k.root = j.recover_root /\ k.recover_root = j.recover_root
          /\ k.recovery = j.recovery
      BY <1>3, <1>4 DEF Journals, SamePointers
    <3> HIDE DEF k
    <3> QED BY <1>3, <2>1, <3>1, <3>2, RetreatReturns
  <2>2. ASSUME can_skip(counted), ~j.recovery,
               prepare_head(sk, [call EXCEPT !.tries = @ + 1])
        PROVE  Retreats
    <3>1. /\ [call EXCEPT !.tries = @ + 1] \in CallRecords
          /\ [call EXCEPT !.tries = @ + 1].dequeue = call.dequeue
          /\ [call EXCEPT !.tries = @ + 1].dumping = call.dumping
      BY <1>1 DEF CallRecords
    <3> QED
      BY <1>3, <1>4, <1>9, <2>2, <3>1, RetreatGoesOn DEF SamePointers
  <2>3. ASSUME can_skip(counted), ~j.recovery,
               Return([start EXCEPT !.recovery = TRUE], "RECOVER")
        PROVE  Retreats
    <3> DEFINE k == [start EXCEPT !.recovery = TRUE]
    <3>1. /\ k.tail = j.tail /\ k.tail_sync = j.tail_sync /\ k.head = sk.head
          /\ k.root = j.root /\ k.recover_root = j.root /\ k.recovery
      <4> HIDE DEF start
      <4> QED BY <1>5 DEF Journals
    <3>2. Return(k, "RECOVER")
      BY <2>3
    <3> HIDE DEF k, start
    <3> QED BY <1>3, <2>3, <3>1, <3>2, RetreatReturns
  <2>4. ASSUME can_skip(counted), ~j.recovery,
               prepare_head(start, [call EXCEPT !.dumping = TRUE])
        PROVE  Retreats
    <3>1. /\ [call EXCEPT !.dumping = TRUE] \in CallRecords
          /\ [call EXCEPT !.dumping = TRUE].dequeue = call.dequeue
      BY <1>1 DEF CallRecords
    <3> HIDE DEF start
    <3> QED
      BY <1>3, <1>5, <2>4, <3>1, RetreatGoesOn
  <2> QED
    BY <1>6, <1>7, <1>9, <2>1, <2>2, <2>3, <2>4 DEF recover_from, sk
<1> QED BY <1>8, <1>9 DEF BadBlock

\* A head at the start of a block rolls onto nothing: its next page is in the
\* same block.
LEMMA AlignedHead ==
  ASSUME NEW h \in UPages, NEW ts \in Pages, is_aligned(h, ppb)
  PROVE  ~RollsOnto(ts, h)
<1>1. h \in Pages /\ next_upage(h) \in Pages /\ h \in Nat /\ ppb \in Nat /\ ppb >= 4
  BY NextInBlock, Distance
<1>2. h = block_start(h)
  BY <1>1, AlignedBlock
<1>3. block_of(next_upage(h)) = block_of(h)
  BY <1>1, <1>2, NextInBlock
<1> QED BY <1>1, <1>3, SameBlock DEF RollsOnto

\* So does a block that prepare_head finds marked bad.
LEMMA SkipBadRetreats ==
  ASSUME Inv, SkipBad, j.dirty
  PROVE  Retreats
<1>1. j \in Journals /\ call \in CallRecords /\ pc = "scan" /\ j.tail_sync \in Pages
  BY DEF Inv, TypeOK, SkipBad, Journals, UPages
<1> DEFINE sk == skip_block(counted)
<1>2. /\ SamePointers(j, counted) /\ counted.head = j.head
      /\ SamePointers(j, sk) /\ sk.dirty = j.dirty
      /\ sk.head = first_page(next_block(block_of(j.head)))
      /\ sk.head \in UPages /\ is_aligned(sk.head, ppb)
      /\ can_skip(counted) <=> block_of(j.tail_sync) # next_block(block_of(j.head))
  BY <1>1, SkippedPointers
<1> HIDE DEF sk
<1>3. CASE Return(counted, "JOURNAL_FULL")
  BY <1>3, <1>2, RetreatReturns DEF SamePointers
<1>4. CASE can_skip(counted) /\ Return(sk, "TOO_BAD")
  BY <1>4, <1>2, RetreatReturns DEF SamePointers
<1>5. CASE /\ can_skip(counted) /\ j' = sk
           /\ call' = [call EXCEPT !.scans = @ + 1] /\ pc' = pc
  <2>1. call'.dequeue = call.dequeue /\ call'.dumping = call.dumping
    BY <1>1, <1>5 DEF CallRecords
  <2>2. ~RollsOnto(j.tail_sync, sk.head)
    BY <1>1, <1>2, AlignedHead
  <2> QED BY <1>1, <1>2, <1>5, <2>1, <2>2 DEF Retreats, SamePointers
<1> QED BY <1>3, <1>4, <1>5 DEF SkipBad, sk

\* What is before the head stays before it when the head moves on.
LEMMA OnwardBefore ==
  ASSUME NEW f \in Pages, NEW h \in Pages, NEW n \in Pages, Onward(f, h, n),
         NEW x \in Pages, Before(f, x, h)
  PROVE  Before(f, x, n)
BY OrderTrans DEF Onward

\* A journal whose head has moved on from that of a, and whose root is one of
\* the pages a journal may take for its root.
Advances(a, da, b, db) ==
  /\ Onward(a.tail_sync, a.head, b.head)
  /\ b.tail = a.tail /\ b.tail_sync = a.tail_sync
  /\ \/ b.root = a.root \/ b.root = PAGE_NONE
     \/ b.root = a.head /\ b.head # a.head
     \/ (a.recovery \/ da) /\ b.root = a.recover_root
  /\ b.recovery \/ db => \/ (a.recovery \/ da) /\ b.recover_root = a.recover_root
                         \/ b.recover_root = a.root

\* Such a step keeps the pointers in order, the queue in the queue, and the
\* synchronization points behind the head.
LEMMA OnwardRing ==
  ASSUME NEW a \in Journals, NEW b \in Journals, NEW da, NEW db,
         RingOK(a, da), Advances(a, da, b, db)
  PROVE  /\ RingOK(b, db)
         /\ queue(a.tail, a.head) \subseteq queue(b.tail, b.head)
         /\ \A pg, s : PointOK(pg, s) /\ Held(s, a.tail_sync, a.head) =>
                         Held(s, b.tail_sync, b.head)
         /\ a.tail # a.head => b.tail # b.head
<1> DEFINE ts == a.tail_sync
           t  == a.tail
           h  == a.head
           n  == b.head
<1>1. /\ ts \in Pages /\ t \in Pages /\ h \in Pages /\ n \in Pages
      /\ a.root # PAGE_NONE => a.root \in Pages
      /\ a.recover_root # PAGE_NONE => a.recover_root \in Pages
  BY DEF Journals, UPages, UPagesOrNone
<1>2. Onward(ts, h, n) /\ ClearOf(ts, n)
  BY DEF Advances, Onward
<1>3. ASSUME NEW x \in Pages, Before(ts, x, h) PROVE Before(ts, x, n)
  BY <1>1, <1>2, <1>3, OnwardBefore
<1>4. Upto(ts, t, n) /\ (t # h => Before(ts, t, n))
  <2>1. Upto(ts, t, h)
    BY DEF RingOK
  <2>2. Upto(ts, t, n)
    BY <2>1, <1>1, <1>2 DEF Onward
  <2>3. t # h => Before(ts, t, h)
    BY <2>1, <1>1, OrderTrans
  <2> QED BY <2>2, <2>3, <1>1, <1>3
<1>5. b.root # PAGE_NONE => Before(ts, b.root, n)
  <2>1. CASE b.root = h /\ n # h
    BY <2>1, <1>1, <1>2, OrderTrans DEF Onward
  <2>2. CASE b.root = a.root
    BY <2>2, <1>1, <1>3 DEF RingOK, Behind
  <2>3. CASE (a.recovery \/ da) /\ b.root = a.recover_root
    BY <2>3, <1>1, <1>3 DEF RingOK, Behind
  <2> QED BY <2>1, <2>2, <2>3 DEF Advances
<1>6. b.recovery \/ db => Behind(ts, b.recover_root, n)
  BY <1>1, <1>3 DEF Advances, RingOK, Behind
<1>7. ASSUME NEW x \in queue(t, h) PROVE x \in queue(t, n)
  <2>1. x \in UPages /\ x \in Pages /\ Before(t, x, h)
    BY InQueue DEF UPages
  <2>2. Upto(ts, t, x) /\ Before(ts, x, h)
    BY <2>1, <1>1, TailMoves DEF RingOK
  <2>3. Before(t, x, n)
    BY <2>1, <2>2, <1>1, <1>3, TailMoves
  <2> QED BY <2>1, <2>3, InQueue
<1>8. ASSUME NEW pg, NEW s, PointOK(pg, s), Held(s, ts, h) PROVE Held(s, ts, n)
  <2> SUFFICES ASSUME NEW q \in DOMAIN s.live
               PROVE  Upto(ts, q, s.root) /\ Before(ts, s.root, n)
    BY DEF Held
  <2>1. s.root \in Pages
    BY <1>8, PointPages
  <2> QED BY <2>1, <1>3, <1>8 DEF Held
<1>9. b.tail = t /\ b.tail_sync = ts
  BY DEF Advances
<1>10. t # h => t # n
  BY <1>1, <1>4, OrderTrans
<1> QED BY <1>2, <1>4, <1>5, <1>6, <1>7, <1>8, <1>9, <1>10 DEF RingOK, Behind

-----------------------------------------------------------------------------
(* The invariant                                                           *)

\* No restart is under way.
Running == pc \notin Resuming

Points == {saved} \cup mids

RingInv == Running => RingOK(j, call.dumping)

\* prepare_head has found the head's page usable, and the running copy of the
\* garbage collector has a page to dequeue.
PlaceInv ==
  /\ pc = "scan" => is_aligned(j.head, ppb)
  /\ pc \in {"scan", "prog", "cp"} => j.dirty /\ ~RollsOnto(j.tail_sync, j.head)
  /\ call.dequeue => pc \in {"scan", "prog", "cp"} /\ j.tail # j.head

\* The accepted pages are in the queue and the synchronization points behind
\* the head.
ListsInv ==
  Running => /\ DOMAIN accepted \subseteq queue(j.tail, j.head)
             /\ \A s \in Points : Held(s, j.tail_sync, j.head)
             /\ mids # {} => j.recovery

FlashInv == FlashOrder(page) /\ \A s \in Points : PointOK(page, s)

\* The block of the head has been entered: it was erased and the head is past
\* its first page, or about to program it.
Entered == Running /\ (~is_aligned(j.head, ppb) \/ pc \in {"prog", "cp"})

\* What such a block looks like behind the head.
Fresh(pg, ts, h) ==
  /\ Ahead(pg, h)
  /\ block_of(ts) = next_block(block_of(h)) => OpenEnd(pg, block_of(h))

\* find_head is on its way from the root to the first free page of the block.
AtRoot ==
  /\ j.root \in UPages /\ is_aligned(j.root + 2, ppc)
  /\ block_of(j.head) = block_of(j.root) /\ j.root < cp_page(j.head)
  /\ page[j.root + 1].kind = "cp" /\ j.tail = page[j.root + 1].tail

HeadInv ==
  /\ Running \/ pc = "r_head" => Filled(page, j.head)
  /\ Entered => Fresh(page, j.tail_sync, j.head)
  /\ pc = "r_head" => AtRoot

OrderInv == RingInv /\ PlaceInv /\ ListsInv /\ FlashInv /\ HeadInv

\* A head at the start of its block has no groups before it.
LEMMA AlignedFilled ==
  ASSUME NEW pg, NEW h \in UPages, is_aligned(h, ppb)
  PROVE  Filled(pg, h)
<1> SUFFICES ASSUME NEW c \in CpPages, block_of(c) = block_of(h), c < h
             PROVE  FALSE
  BY DEF Filled
<1>1. c \in Pages /\ h \in Pages /\ h = block_start(h) /\ c \in Nat /\ h \in Nat
  BY AlignedBlock, CpPage DEF UPages, Pages
<1>2. block_start(c) = h /\ block_start(c) <= c
  BY <1>1, SameBlock, BlockBounds
<1> QED BY <1>1, <1>2

\* What the invariant says of a call that is about to program or erase.
LEMMA CallFacts ==
  ASSUME Inv, OrderInv, pc \in {"scan", "prog", "cp"}
  PROVE  /\ j \in Journals /\ j.head \in UPages /\ j.tail_sync \in Pages
         /\ j.head \in Pages /\ j.tail \in Pages /\ j.tail \in UPages
         /\ block_of(j.head) \in Blocks
         /\ RingOK(j, call.dumping) /\ ~RollsOnto(j.tail_sync, j.head)
         /\ ClearOf(j.tail_sync, j.head) /\ j.dirty
         /\ Filled(page, j.head) /\ FlashOrder(page)
         /\ \A s \in Points : PointOK(page, s) /\ Held(s, j.tail_sync, j.head)
         /\ pc \in {"prog", "cp"} => Fresh(page, j.tail_sync, j.head)
         /\ pc = "scan" => is_aligned(j.head, ppb)
         /\ page \in [Pages -> Contents] /\ Running
<1>1. /\ j \in Journals /\ page \in [Pages -> Contents] /\ Running
  BY DEF Inv, TypeOK, Running, Resuming
<1>2. j.head \in UPages /\ j.head \in Pages /\ j.tail_sync \in Pages
      /\ j.tail \in Pages /\ j.tail \in UPages
  BY <1>1 DEF Journals, UPages
<1>3. block_of(j.head) \in Blocks
  BY <1>2, BlockBounds
<1> QED
  BY <1>1, <1>2, <1>3
  DEF OrderInv, RingInv, RingOK, PlaceInv, ListsInv, FlashInv, HeadInv, Entered

\* Programming at the head: the flash is in order afterwards, and the rest of
\* the block is as it was.
LEMMA Programs ==
  ASSUME num_blocks >= 2, Inv, OrderInv, pc \in {"prog", "cp"}, NEW new,
         NEW w \in Pages, Written(page, new, w), Target(page, new, j.head, w)
  PROVE  /\ FlashOrder(new) /\ \A s \in Points : PointOK(new, s)
         /\ Filled(new, j.head) /\ Fresh(new, j.tail_sync, j.head)
<1> DEFINE h == j.head
           ts == j.tail_sync
<1>1. /\ h \in UPages /\ ts \in Pages /\ h \in Pages /\ block_of(h) \in Blocks
      /\ ~RollsOnto(ts, h) /\ ClearOf(ts, h)
      /\ Filled(page, h) /\ FlashOrder(page) /\ Fresh(page, ts, h)
      /\ \A s \in Points : PointOK(page, s) /\ Held(s, ts, h)
  BY CallFacts
<1>2. w = h \/ (w = h + 1 /\ w = cp_page(h))
  BY DEF Target
<1> HIDE DEF h, ts
<1>3. FlashOrder(new) /\ Filled(new, h) /\ Ahead(new, h)
  <2>1. Target(page, new, h, w)
    BY DEF h
  <2> QED BY <1>1, <2>1, WriteFlash DEF Fresh
<1>4. \A s \in Points : PointOK(new, s)
  BY <1>1, <1>2, WritePoint
<1>5. ASSUME block_of(ts) = next_block(block_of(h)) PROVE OpenEnd(new, block_of(h))
  <2>1. /\ w # first_page(block_of(h)) + ppb - 1
        /\ w # first_page(block_of(h)) + ppb - 2
    BY <1>1, <1>2, <1>5, EndSpared
  <2>2. /\ first_page(block_of(h)) + ppb - 1 \in Pages
        /\ first_page(block_of(h)) + ppb - 2 \in Pages
    BY <1>1, LastPages DEF CpPages, UPages
  <2>3. OpenEnd(page, block_of(h))
    BY <1>1, <1>5 DEF Fresh
  <2> QED BY <2>1, <2>2, <2>3 DEF OpenEnd, Written, is_erased
<1> QED BY <1>3, <1>4, <1>5 DEF Fresh, h, ts

\* Erasing the block at the head, or tearing it.
LEMMA Wipes ==
  ASSUME Inv, OrderInv, pc = "scan", NEW new, Wiped(page, new, block_of(j.head))
  PROVE  FlashOrder(new) /\ \A s \in Points : PointOK(new, s)
<1>1. /\ j.head \in UPages /\ j.tail_sync \in Pages /\ block_of(j.head) \in Blocks
      /\ ClearOf(j.tail_sync, j.head) /\ FlashOrder(page)
      /\ is_aligned(j.head, ppb)
      /\ \A s \in Points : PointOK(page, s) /\ Held(s, j.tail_sync, j.head)
  BY CallFacts
<1> QED BY <1>1, WipeFlash, WipePoint

\* Nothing lies between a page and itself.
LEMMA EmptyQueue == ASSUME NEW t \in Pages PROVE queue(t, t) = {}
<1> SUFFICES ASSUME NEW x \in queue(t, t) PROVE FALSE
  OBVIOUS
<1>1. x \in Pages /\ Before(t, x, t)
  BY InQueue DEF UPages
<1> QED BY <1>1, Distance DEF Before

\* The history after a step outside a restart.
LEMMA Observed ==
  ASSUME Observe, Running, ~Crashes
  PROVE  /\ DOMAIN accepted' =
              ((DOMAIN accepted \ Released) \cup (IF Accepts THEN {j.head} ELSE {}))
                \ queue(j.tail, j'.tail)
         /\ Commits => accepted' = AcceptedNow
         /\ saved' = IF Commits /\ ~j'.recovery THEN Snapshot
                     ELSE IF j.dirty \/ j.recovery THEN saved
                     ELSE [saved EXCEPT !.live =
                             Past(@, j.tail_sync, j'.tail_sync)]
         /\ mids' = IF ~Commits THEN mids
                    ELSE IF j'.recovery THEN mids \cup {Snapshot} ELSE {}
<1>1. ~Resumes /\ pc \notin Resuming
  BY DEF Running, Resuming, Resumes
<1>2. /\ accepted' = AcceptedNow
      /\ saved' = IF Commits /\ ~j'.recovery THEN Snapshot
                  ELSE IF j.dirty \/ j.recovery THEN saved
                  ELSE [saved EXCEPT !.live =
                          Past(@, j.tail_sync, j'.tail_sync)]
      /\ mids' = IF ~Commits THEN mids
                 ELSE IF j'.recovery THEN mids \cup {Snapshot} ELSE {}
  BY <1>1 DEF Observe
<1> QED BY <1>2 DEF AcceptedNow

\* A dirty journal's step that accepts nothing leaves the history alone, but for
\* pages a recovery releases.
LEMMA ObservedDirty ==
  ASSUME Observe, Running, ~Crashes, ~Accepts, j.dirty, j'.tail = j.tail,
         j.tail \in Pages
  PROVE  DOMAIN accepted' \subseteq DOMAIN accepted /\ saved' = saved /\ mids' = mids
<1>1. ~Commits
  BY DEF Commits
<1> QED BY <1>1, Observed, EmptyQueue

-----------------------------------------------------------------------------
(* Steps that fail                                                         *)

\* The invariant after a step outside a restart, in its parts.
LEMMA OrderJoin ==
  ASSUME j' \in Journals, pc' \in {"idle", "scan", "prog", "cp"},
         RingOK(j', call'.dumping), PlaceInv',
         DOMAIN accepted' \subseteq queue(j'.tail, j'.head),
         \A s \in Points' : Held(s, j'.tail_sync, j'.head) /\ PointOK(page', s),
         mids' # {} => j'.recovery,
         FlashOrder(page'), Filled(page', j'.head),
         ~is_aligned(j'.head, ppb) \/ pc' \in {"prog", "cp"} =>
           Fresh(page', j'.tail_sync, j'.head)
  PROVE  OrderInv'
<1>1. pc' # "r_head"
  OBVIOUS
<1> QED
  BY <1>1 DEF OrderInv, RingInv, ListsInv, FlashInv, HeadInv, Entered

\* A journal that has retreated keeps the invariant.
LEMMA RetreatKeeps ==
  ASSUME num_blocks >= 2, Inv, Inv', OrderInv, pc \in {"scan", "prog", "cp"},
         Retreats, Observe, ~Crashes,
         FlashOrder(page'), \A s \in Points : PointOK(page', s),
         pc \in {"prog", "cp"} => /\ Filled(page', j.head)
                                  /\ Fresh(page', j.tail_sync, j.head)
  PROVE  OrderInv'
<1>1. /\ j \in Journals /\ j.head \in UPages /\ j.tail_sync \in Pages
      /\ j.head \in Pages /\ j.tail \in Pages
      /\ RingOK(j, call.dumping) /\ ClearOf(j.tail_sync, j.head) /\ j.dirty
      /\ \A s \in Points : PointOK(page, s) /\ Held(s, j.tail_sync, j.head)
      /\ pc = "scan" => is_aligned(j.head, ppb)
      /\ j.root \in UPagesOrNone /\ j.recover_root \in UPagesOrNone
      /\ Running
  BY CallFacts DEF Journals
<1>2. j' \in Journals /\ j'.head \in UPages /\ j'.head \in Pages
      /\ pc' \in {"idle", "scan"}
  BY DEF Inv, TypeOK, Journals, UPages, Retreats
<1>3. Onward(j.tail_sync, j.head, j'.head)
  <2>1. CASE j'.head = j.head
    <3>1. j.head <= j.head
      BY <1>1 DEF Pages
    <3> QED BY <2>1, <3>1, <1>1, OnwardInBlock
  <2>2. CASE /\ j'.head = first_page(next_block(block_of(j.head)))
             /\ block_of(j.tail_sync) # next_block(block_of(j.head))
    BY <2>2, <1>1, OnwardNextBlock
  <2> QED BY <2>1, <2>2 DEF Retreats
<1>4. Advances(j, call.dumping, j', call'.dumping)
  BY <1>3 DEF Advances, Retreats
<1>5. /\ RingOK(j', call'.dumping)
      /\ queue(j.tail, j.head) \subseteq queue(j'.tail, j'.head)
      /\ \A pg, s : PointOK(pg, s) /\ Held(s, j.tail_sync, j.head) =>
                      Held(s, j'.tail_sync, j'.head)
      /\ j.tail # j.head => j'.tail # j'.head
  BY <1>1, <1>2, <1>4, OnwardRing
<1>6. ~Accepts
  <2>1. j.head # PAGE_NONE
    BY <1>1, PageNone
  <2>2. /\ j.root = j.head => Before(j.tail_sync, j.head, j.head)
        /\ j.recovery /\ j.recover_root = j.head =>
             Before(j.tail_sync, j.head, j.head)
    BY <1>1, <2>1 DEF RingOK, Behind
  <2>3. j'.root # j.head
    BY <1>1, <2>2, OrderTrans DEF Retreats
  <2> QED BY <2>3 DEF Accepts
<1>7. DOMAIN accepted' \subseteq DOMAIN accepted /\ saved' = saved /\ mids' = mids
  BY <1>1, <1>6, ObservedDirty DEF Retreats
<1>8. DOMAIN accepted \subseteq queue(j.tail, j.head) /\ (mids # {} => j.recovery)
  BY <1>1 DEF OrderInv, ListsInv
<1>9. PlaceInv'
  BY <1>2, <1>5 DEF OrderInv, PlaceInv, Retreats
<1>10. j'.head # j.head => is_aligned(j'.head, ppb)
  <2> SUFFICES ASSUME j'.head = first_page(next_block(block_of(j.head)))
               PROVE  is_aligned(j'.head, ppb)
    BY DEF Retreats
  <2>1. j'.head = block_start(j'.head)
    BY <1>1, BlockBounds DEF block_start
  <2> QED BY <2>1, <1>2, AlignedBlock
<1>11. Filled(page', j'.head)
  <2>1. CASE is_aligned(j'.head, ppb)
    BY <2>1, <1>2, AlignedFilled
  <2>2. CASE ~is_aligned(j'.head, ppb)
    BY <2>2, <1>1, <1>10
  <2> QED BY <2>1, <2>2
<1>12. ~is_aligned(j'.head, ppb) \/ pc' \in {"prog", "cp"} =>
         Fresh(page', j'.tail_sync, j'.head)
  BY <1>1, <1>2, <1>10 DEF Retreats
<1>13. \A s \in Points' : Held(s, j'.tail_sync, j'.head) /\ PointOK(page', s)
  BY <1>1, <1>5, <1>7 DEF Points
<1>14. /\ DOMAIN accepted' \subseteq queue(j'.tail, j'.head)
       /\ mids' # {} => j'.recovery
  BY <1>5, <1>7, <1>8 DEF Retreats
<1> QED
  BY <1>2, <1>5, <1>9, <1>11, <1>12, <1>13, <1>14, OrderJoin

\* Programming a page tears it or writes what is to be written.
LEMMA ProgramWrites ==
  ASSUME NEW w, page \in [Pages -> Contents], w \in Pages
  PROVE  /\ Written(page, program_torn(w), w) /\ program_torn(w)[w] = Torn
         /\ \A c : \A new \in programmed(w, c) :
              Written(page, new, w) /\ new[w] \in {c, Torn}
BY DEF Written, program_torn, programmed

\* Erasing a block erases or tears its pages.
LEMMA EraseWipes ==
  ASSUME NEW b
  PROVE  Wiped(page, erase_done(b), b) /\ Wiped(page, erase_torn(b), b)
BY DEF Wiped, erase_done, erase_torn

\* A torn page is no checkpoint and not erased.
LEMMA TornTarget ==
  ASSUME NEW new, NEW u, NEW w, new[w] = Torn,
         w = u \/ (w = u + 1 /\ w = cp_page(u))
  PROVE  Target(page, new, u, w)
BY DEF Target, is_erased, Torn

\* At a full group the head is its last user page.
LEMMA CheckpointPage ==
  ASSUME Inv, pc = "cp"
  PROVE  /\ j.head \in UPages /\ j.head + 1 = cp_page(j.head)
         /\ j.head + 1 \in CpPages /\ j.head + 1 \in Pages
         /\ block_of(j.head + 1) = block_of(j.head)
<1>1. j.head \in UPages /\ is_aligned(j.head + 2, ppc)
  BY DEF Inv, TypeOK, RecoveryState, Journals
<1> QED BY <1>1, GroupBounds

\* prepare_head passes a block that is marked bad.
LEMMA SkipBadKeeps ==
  ASSUME num_blocks >= 2, Inv, Inv', OrderInv, SkipBad, Observe
  PROVE  OrderInv'
<1>1. pc \in {"scan", "prog", "cp"} /\ pc = "scan" /\ page' = page /\ ~Crashes
  BY DEF SkipBad, Crashes
<1>2. FlashOrder(page) /\ j.dirty /\ \A s \in Points : PointOK(page, s)
  BY <1>1, CallFacts
<1>3. Retreats
  BY <1>2, SkipBadRetreats
<1> QED BY <1>1, <1>2, <1>3, RetreatKeeps

\* An erase fails.
LEMMA EraseFailsKeeps ==
  ASSUME num_blocks >= 2, Inv, Inv', OrderInv, EraseFails, Observe
  PROVE  OrderInv'
<1>1. /\ pc \in {"scan", "prog", "cp"} /\ pc = "scan" /\ ~Crashes
      /\ page' = erase_torn(block_of(j.head)) /\ BadBlock
  BY DEF EraseFails, erasing, BadBlock, Crashes
<1>2. Wiped(page, page', block_of(j.head))
  BY <1>1, EraseWipes
<1>3. FlashOrder(page') /\ \A s \in Points : PointOK(page', s)
  BY <1>1, <1>2, Wipes
<1>4. Retreats
  BY <1>1, BadBlockRetreats
<1> QED BY <1>1, <1>3, <1>4, RetreatKeeps

\* A program of a page at the head fails, that of a user page or a checkpoint.
LEMMA FailedProgramKeeps ==
  ASSUME num_blocks >= 2, Inv, Inv', OrderInv, BadBlock, Observe,
         \/ pc = "prog" /\ page' = program_torn(j.head)
         \/ pc = "cp" /\ page' = program_torn(j.head + 1)
  PROVE  OrderInv'
<1>1. /\ pc \in {"scan", "prog", "cp"} /\ pc \in {"prog", "cp"} /\ ~Crashes
  BY DEF BadBlock, Crashes
<1> DEFINE w == IF pc = "prog" THEN j.head ELSE j.head + 1
<1>2. /\ w \in Pages /\ page' = program_torn(w)
      /\ w = j.head \/ (w = j.head + 1 /\ w = cp_page(j.head))
  BY <1>1, CallFacts, CheckpointPage
<1> HIDE DEF w
<1>3. Written(page, page', w) /\ page'[w] = Torn
  BY <1>1, <1>2, CallFacts, ProgramWrites
<1>4. Target(page, page', j.head, w)
  BY <1>2, <1>3, TornTarget
<1>5. /\ FlashOrder(page') /\ \A s \in Points : PointOK(page', s)
      /\ Filled(page', j.head) /\ Fresh(page', j.tail_sync, j.head)
  BY <1>1, <1>2, <1>3, <1>4, Programs
<1>6. Retreats
  BY BadBlockRetreats
<1> QED BY <1>1, <1>5, <1>6, RetreatKeeps

\* A copy reports that its source cannot be read.
LEMMA CopyUnreadableKeeps ==
  ASSUME num_blocks >= 2, Inv, Inv', OrderInv, CopyUnreadable, Observe
  PROVE  OrderInv'
<1>1. /\ pc \in {"scan", "prog", "cp"} /\ page' = page /\ ~Crashes
      /\ Return(j, "ECC") /\ "ECC" # "OK"
  BY DEF CopyUnreadable, Crashes
<1>2. /\ FlashOrder(page) /\ \A s \in Points : PointOK(page, s)
      /\ Filled(page, j.head)
      /\ pc \in {"prog", "cp"} => Fresh(page, j.tail_sync, j.head)
  BY <1>1, CallFacts
<1>3. Retreats
  BY <1>1, RetreatReturns
<1> QED BY <1>1, <1>2, <1>3, RetreatKeeps

\* A block has been erased: it is entered.
LEMMA EraseOkKeeps ==
  ASSUME num_blocks >= 2, Inv, Inv', OrderInv, EraseOk, Observe
  PROVE  OrderInv'
<1>1. /\ pc = "scan" /\ pc' = "prog" /\ j' = j /\ ~Crashes /\ ~Accepts
      /\ page' = erase_done(block_of(j.head))
      /\ call'.dequeue = call.dequeue /\ call'.dumping = call.dumping
  BY DEF EraseOk, erasing, Crashes, Accepts, Inv, TypeOK, CallRecords
<1>2. /\ j \in Journals /\ j.head \in UPages /\ j.tail \in Pages /\ j.dirty /\ Running
      /\ block_of(j.head) \in Blocks
      /\ RingOK(j, call.dumping) /\ is_aligned(j.head, ppb)
      /\ \A s \in Points : Held(s, j.tail_sync, j.head)
  BY <1>1, CallFacts
<1>3. Wiped(page, page', block_of(j.head))
  BY <1>1, EraseWipes
<1>4. FlashOrder(page') /\ \A s \in Points : PointOK(page', s)
  BY <1>1, <1>3, Wipes
<1>5. DOMAIN accepted' \subseteq DOMAIN accepted /\ saved' = saved /\ mids' = mids
  BY <1>1, <1>2, ObservedDirty
<1>6. Filled(page', j'.head)
  BY <1>1, <1>2, AlignedFilled
<1>7. \A p \in Pages : block_of(p) = block_of(j.head) => is_erased(page', p)
  BY <1>1 DEF erase_done, is_erased, Erased
<1>8. Fresh(page', j.tail_sync, j.head)
  <2>1. Ahead(page', j.head)
    BY <1>7 DEF Ahead
  <2>2. OpenEnd(page', block_of(j.head))
    BY <1>2, <1>7, LastPages DEF OpenEnd, CpPages, UPages
  <2> QED BY <2>1, <2>2 DEF Fresh
<1>9. PlaceInv'
  BY <1>1 DEF OrderInv, PlaceInv
<1>10. DOMAIN accepted \subseteq queue(j.tail, j.head) /\ (mids # {} => j.recovery)
  BY <1>2 DEF OrderInv, ListsInv
<1>11. \A s \in Points' : Held(s, j'.tail_sync, j'.head) /\ PointOK(page', s)
  BY <1>1, <1>2, <1>4, <1>5 DEF Points
<1> QED
  BY <1>1, <1>2, <1>4, <1>5, <1>6, <1>8, <1>9, <1>10, <1>11, OrderJoin

-----------------------------------------------------------------------------
(* The tail moves                                                          *)

\* The tail has moved on from that of journal a to that of b, the last-synced
\* tail has stayed or, in a clean journal, has come along, and the root is still
\* that of a unless it has been passed.
TailAdvances(a, b) ==
  /\ b.head = a.head /\ Upto(a.tail, b.tail, a.head)
  /\ b.recovery = a.recovery /\ b.recover_root = a.recover_root
  /\ b.root = a.root \/ b.root = PAGE_NONE
  /\ \/ b.tail_sync = a.tail_sync
     \/ /\ ~a.dirty /\ ~a.recovery /\ b.tail_sync = b.tail
        /\ b.root # PAGE_NONE => Upto(b.tail, b.root, b.head)

\* A tail that moves on keeps the pointers in order and the pages it has not
\* passed in the queue, and passes no synchronization point.
LEMMA TailRing ==
  ASSUME num_blocks >= 2, NEW a \in Journals, NEW b \in Journals, NEW da,
         RingOK(a, da), TailAdvances(a, b)
  PROVE  /\ RingOK(b, FALSE)
         /\ queue(a.tail, a.head) \ queue(a.tail, b.tail) \subseteq
              queue(b.tail, b.head)
         /\ \A pg : Fresh(pg, a.tail_sync, a.head) => Fresh(pg, b.tail_sync, b.head)
         /\ \A pg, s, k : /\ PointOK(pg, s) /\ Held(s, a.tail_sync, a.head)
                          /\ k.root = s.root
                          /\ DOMAIN k.live \subseteq
                               DOMAIN s.live \ queue(a.tail_sync, b.tail_sync)
                          => Held(k, b.tail_sync, b.head)
<1> DEFINE f == a.tail_sync
           g == b.tail_sync
           t == a.tail
           u == b.tail
           h == a.head
<1>1. /\ f \in Pages /\ g \in Pages /\ t \in Pages /\ u \in Pages /\ h \in Pages
      /\ a.root # PAGE_NONE => a.root \in Pages
      /\ a.recover_root # PAGE_NONE => a.recover_root \in Pages
  BY DEF Journals, UPages, UPagesOrNone
<1>2. /\ ClearOf(f, h) /\ Upto(f, t, h) /\ Upto(t, u, h) /\ b.head = h
  BY DEF RingOK, TailAdvances
<1>3. Upto(f, u, h) /\ Upto(f, t, u)
  BY <1>1, <1>2, TailMoves
<1>4. Upto(f, g, h) /\ Upto(g, u, h) /\ (g = f \/ g = u)
  <2>1. CASE g = f
    BY <2>1, <1>1, <1>3, OrderTrans
  <2>2. CASE g = u
    BY <2>2, <1>1, <1>3, OrderTrans
  <2> QED BY <2>1, <2>2 DEF TailAdvances
<1>5. ClearOf(g, h)
  BY <1>1, <1>2, <1>4, ClearTail
<1>6. Behind(g, b.root, h)
  <2> SUFFICES ASSUME b.root # PAGE_NONE PROVE Before(g, b.root, h)
    BY DEF Behind
  <2>1. b.root = a.root /\ b.root \in Pages /\ Before(f, b.root, h)
    BY <1>1 DEF TailAdvances, RingOK, Behind
  <2>2. CASE g = f
    BY <2>1, <2>2
  <2>3. CASE g = u /\ Upto(u, b.root, b.head)
    BY <2>1, <2>3, <1>1, <1>2, OrderTrans
  <2> QED BY <2>2, <2>3 DEF TailAdvances
<1>7. b.recovery => Behind(g, b.recover_root, h)
  <2> SUFFICES ASSUME b.recovery, b.recover_root # PAGE_NONE
               PROVE  Before(g, b.recover_root, h)
    BY DEF Behind
  <2>1. g = f
    BY DEF TailAdvances
  <2> QED BY <2>1 DEF TailAdvances, RingOK, Behind
<1>8. ASSUME NEW x \in queue(t, h), x \notin queue(t, u) PROVE x \in queue(u, h)
  <2>1. x \in UPages /\ x \in Pages /\ Before(t, x, h) /\ ~Before(t, x, u)
    BY <1>8, InQueue DEF UPages
  <2>2. Upto(t, u, x)
    BY <2>1, <1>1, OrderTrans
  <2>3. Before(u, x, h)
    BY <2>1, <2>2, <1>1, TailMoves
  <2> QED BY <2>1, <2>3, InQueue
<1>9. ASSUME NEW pg, Fresh(pg, f, h) PROVE Fresh(pg, g, h)
  <2> SUFFICES ASSUME block_of(g) = next_block(block_of(h))
               PROVE  OpenEnd(pg, block_of(h))
    BY <1>9 DEF Fresh
  <2>1. block_of(f) = next_block(block_of(h))
    BY <1>1, <1>2, <1>4, TailInNextBlock
  <2> QED BY <2>1, <1>9 DEF Fresh
<1>10. ASSUME NEW pg, NEW s, NEW k, PointOK(pg, s), Held(s, f, h),
              k.root = s.root,
              DOMAIN k.live \subseteq DOMAIN s.live \ queue(f, g)
       PROVE  Held(k, g, h)
  <2> SUFFICES ASSUME NEW q \in DOMAIN k.live
               PROVE  Upto(g, q, s.root) /\ Before(g, s.root, h)
    BY <1>10 DEF Held
  <2>1. q \in DOMAIN s.live /\ q \notin queue(f, g)
    BY <1>10
  <2>2. /\ s.root \in Pages /\ q \in UPages /\ q \in Pages
        /\ Upto(f, q, s.root) /\ Before(f, s.root, h)
    BY <2>1, <1>10, PointPages DEF Held
  <2>3. Upto(f, g, q)
    BY <2>1, <2>2, <1>1, InQueue, OrderTrans
  <2>4. Upto(g, q, s.root)
    BY <2>2, <2>3, <1>1, TailMoves
  <2>5. Upto(f, g, s.root)
    BY <2>2, <2>3, <1>1, OrderTrans
  <2>6. Before(g, s.root, h)
    BY <2>2, <2>5, <1>1, TailMoves
  <2> QED BY <2>4, <2>6
<1> QED
  BY <1>2, <1>4, <1>5, <1>6, <1>7, <1>8, <1>9, <1>10 DEF RingOK, TailAdvances

\* Distances to the head and from the tail order pages alike.
LEMMA DistanceToHead ==
  ASSUME NEW t \in Pages, NEW x \in Pages, NEW h \in Pages
  PROVE  Upto(t, x, h) <=> ring_distance(x, h) <= ring_distance(t, h)
<1>1. /\ ring_distance(t, x) = IF x >= t THEN x - t ELSE x + chip_size - t
      /\ ring_distance(t, h) = IF h >= t THEN h - t ELSE h + chip_size - t
      /\ ring_distance(x, h) = IF h >= x THEN h - x ELSE h + chip_size - x
      /\ t \in Nat /\ x \in Nat /\ h \in Nat /\ chip_size \in Nat
      /\ t < chip_size /\ x < chip_size /\ h < chip_size
  BY Distance
<1> QED BY <1>1 DEF Upto

\* dequeue moves the tail on, and gives the root up only when it has passed it.
LEMMA DequeueAdvances ==
  ASSUME NEW k \in Journals
  PROVE  LET e == dequeue(k)
         IN  /\ e \in Journals /\ TailAdvances(k, e) /\ e.dirty = k.dirty
             /\ Upto(e.tail, k.root, k.head) => e.root = k.root
             /\ k.tail # k.head => e.tail = next_upage(k.tail)
<1> DEFINE e == dequeue(k)
           n == next_upage(k.tail)
<1>1. /\ k.tail \in UPages /\ k.head \in UPages /\ k.tail \in Pages
      /\ k.head \in Pages /\ n \in UPages /\ n \in Pages
      /\ k.root # PAGE_NONE => k.root \in Pages
      /\ k.dirty \in BOOLEAN /\ k.recovery \in BOOLEAN
  BY NextUPage DEF Journals, UPages, UPagesOrNone
<1>2. e \in Journals /\ SameRecovery(k, e) /\ e.head = k.head
  BY DequeueType
<1>3. CASE k.head = k.tail
  <2>1. e = k
    BY <1>3 DEF dequeue
  <2>2. Upto(k.tail, k.tail, k.head)
    BY <1>1, OrderTrans
  <2> HIDE DEF e
  <2>3. TailAdvances(k, e)
    BY <2>1, <2>2 DEF TailAdvances
  <2> QED BY <1>2, <1>3, <2>1, <2>3 DEF e
<1>4. CASE k.head # k.tail
  <2>1. /\ e.tail = n /\ e.dirty = k.dirty
        /\ e.tail_sync = IF k.dirty \/ k.recovery THEN k.tail_sync ELSE n
        /\ e.root = IF k.root # PAGE_NONE
                       /\ ring_distance(k.root, k.head) > ring_distance(n, k.head)
                    THEN PAGE_NONE ELSE k.root
    <3> HIDE DEF n
    <3>1. e = [k EXCEPT
                 !.tail = n,
                 !.tail_sync = IF k.dirty \/ k.recovery THEN @ ELSE n,
                 !.root = IF @ # PAGE_NONE
                             /\ ring_distance(@, k.head) > ring_distance(n, k.head)
                          THEN PAGE_NONE ELSE @]
      BY <1>4 DEF dequeue, n
    <3> HIDE DEF e
    <3> QED BY <3>1 DEF Journals
  <2>2. Upto(k.tail, n, k.head)
    <3>1. Upto(k.tail, k.tail, k.head)
      BY <1>1, OrderTrans
    <3> QED BY <3>1, <1>1, <1>4, NextUser
  <2> HIDE DEF e, n
  <2>3. ASSUME k.root # PAGE_NONE
        PROVE  /\ e.root # PAGE_NONE => Upto(n, e.root, k.head)
               /\ Upto(n, k.root, k.head) => e.root = k.root
    <3>1. k.root \in Pages
      BY <1>1, <2>3
    <3>2. Upto(n, k.root, k.head) <=>
            ring_distance(k.root, k.head) <= ring_distance(n, k.head)
      BY <1>1, <3>1, DistanceToHead
    <3>3. ring_distance(k.root, k.head) \in Nat /\ ring_distance(n, k.head) \in Nat
      BY <1>1, <3>1, Distance
    <3> QED BY <2>1, <3>2, <3>3
  <2>4. k.root = PAGE_NONE => e.root = PAGE_NONE
    BY <2>1
  <2>5. TailAdvances(k, e)
    BY <1>1, <1>2, <2>1, <2>2, <2>3, <2>4 DEF TailAdvances, SameRecovery
  <2>6. Upto(e.tail, k.root, k.head) => e.root = k.root
    BY <2>1, <2>3, <2>4
  <2> QED BY <1>2, <2>1, <2>5, <2>6 DEF e, n
<1> QED BY <1>3, <1>4

-----------------------------------------------------------------------------
(* Steps that succeed                                                      *)

\* The next user page of the same group.
LEMMA NextOffset ==
  ASSUME NEW u \in UPages, ~is_aligned(u + 2, ppc)
  PROVE  /\ u + 1 \in UPages /\ cp_page(u + 1) = cp_page(u)
         /\ block_of(u + 1) = block_of(u) /\ u + 1 < cp_page(u)
         /\ \A c \in CpPages : c < u + 1 => c < u
<1>1. /\ u \in Nat /\ cp_page(u) \in CpPages /\ cp_page(u) \in Nat
      /\ u < cp_page(u) /\ u + 1 # cp_page(u)
      /\ block_of(cp_page(u)) = block_of(u)
      /\ next_upage(u) = u + 1
  BY GroupBounds, GroupOrder
<1>2. u + 1 \in UPages
  BY <1>1, NextUPage
<1> DEFINE v == u + 1
<1>3. /\ cp_page(v) \in CpPages /\ cp_page(v) \in Nat /\ v < cp_page(v)
      /\ block_of(cp_page(v)) = block_of(v) /\ v \in Nat
  BY <1>2, GroupBounds, GroupOrder
<1>4. cp_page(v) >= cp_page(u)
  <2>1. cp_page(v) > u
    BY <1>1, <1>3
  <2> QED BY <1>3, <2>1, GroupsApart
<1>5. cp_page(u) >= cp_page(v)
  <2>1. cp_page(u) > v
    BY <1>1, <1>3
  <2> HIDE DEF v
  <2> QED BY <1>1, <1>2, <2>1, GroupsApart DEF v
<1>6. cp_page(v) = cp_page(u)
  BY <1>1, <1>3, <1>4, <1>5
<1>7. ASSUME NEW c \in CpPages, c < u + 1 PROVE c < u
  BY <1>1, <1>7, GroupOrder
<1> QED BY <1>1, <1>2, <1>3, <1>6, <1>7

\* A successful call returns the journal, after dequeueing the page that the
\* garbage collector has copied.
LEMMA ReturnOk ==
  ASSUME NEW k \in Journals, Return(k, "OK")
  PROVE  /\ j' \in Journals /\ TailAdvances(k, j') /\ j'.dirty = k.dirty
         /\ pc' = "idle" /\ call' = NoCall
         /\ Upto(j'.tail, k.root, k.head) => j'.root = k.root
         /\ j'.tail = k.tail \/ (call.dequeue /\ j'.tail = next_upage(k.tail))
<1>1. CASE call.dequeue
  <2>1. j' = dequeue(k) /\ pc' = "idle" /\ call' = NoCall
    BY <1>1 DEF Return
  <2>2. j'.tail = k.tail \/ j'.tail = next_upage(k.tail)
    <3>1. CASE k.head = k.tail
      BY <2>1, <3>1 DEF dequeue
    <3> QED BY <2>1, <3>1, DequeueAdvances
  <2> QED BY <1>1, <2>1, <2>2, DequeueAdvances
<1>2. CASE ~call.dequeue
  <2>1. j' = k /\ pc' = "idle" /\ call' = NoCall
    BY <1>2 DEF Return
  <2>2. Upto(k.tail, k.tail, k.head)
    BY OrderTrans DEF Journals, UPages
  <2> QED BY <2>1, <2>2 DEF TailAdvances
<1> QED BY <1>1, <1>2

\* A page has been programmed at the head, and the head moves behind it: the
\* call returns with journal k, or what dequeueing has made of it.
LEMMA AdvanceKeeps ==
  ASSUME num_blocks >= 2, Inv, Inv', OrderInv, pc = "prog", pc' = "idle",
         call' = NoCall, Observe, ~Crashes, NEW k \in Journals,
         Advances(j, call.dumping, k, FALSE), TailAdvances(k, j'),
         k.head # j.head, k.dirty, j.recovery => k.recovery,
         FlashOrder(page'), \A s \in Points : PointOK(page', s),
         Filled(page', k.head),
         ~is_aligned(k.head, ppb) => Fresh(page', k.tail_sync, k.head)
  PROVE  OrderInv'
<1>1. /\ j \in Journals /\ j.head \in UPages /\ j.tail_sync \in Pages
      /\ j.head \in Pages /\ j.tail \in Pages
      /\ RingOK(j, call.dumping) /\ j.dirty /\ Running
      /\ \A s \in Points : PointOK(page, s) /\ Held(s, j.tail_sync, j.head)
  BY CallFacts
<1>2. /\ j' \in Journals /\ k.tail = j.tail /\ k.tail_sync = j.tail_sync
      /\ k.head \in Pages /\ k.tail_sync \in Pages /\ j'.head = k.head
      /\ j'.tail_sync = k.tail_sync /\ j'.recovery = k.recovery
  BY DEF Inv, TypeOK, Advances, TailAdvances, Journals, UPages
<1>3. /\ RingOK(k, FALSE)
      /\ queue(j.tail, j.head) \subseteq queue(k.tail, k.head)
      /\ \A s \in Points : Held(s, k.tail_sync, k.head)
  BY <1>1, OnwardRing
<1>4. /\ RingOK(j', FALSE)
      /\ queue(k.tail, k.head) \ queue(k.tail, j'.tail) \subseteq
           queue(j'.tail, j'.head)
  BY <1>2, <1>3, TailRing
<1>5. j.head \in queue(k.tail, k.head)
  <2>1. Upto(j.tail_sync, j.head, j.head)
    BY <1>1, OrderTrans
  <2>2. Before(j.tail_sync, j.head, k.head)
    BY <2>1, <1>1 DEF Advances, Onward
  <2>3. Before(j.tail, j.head, k.head)
    BY <2>2, <1>1, <1>2, TailMoves DEF RingOK
  <2> QED BY <1>1, <1>2, <2>3, InQueue
<1>6. /\ DOMAIN accepted' \subseteq
           (DOMAIN accepted \cup {j.head}) \ queue(j.tail, j'.tail)
      /\ saved' = saved /\ mids' = mids
  <2>1. ~Commits
    BY DEF Commits
  <2> QED BY <1>1, <2>1, Observed
<1>7. DOMAIN accepted \subseteq queue(j.tail, j.head) /\ (mids # {} => j.recovery)
  BY <1>1 DEF OrderInv, ListsInv
<1>8. DOMAIN accepted' \subseteq queue(j'.tail, j'.head)
  BY <1>2, <1>3, <1>4, <1>5, <1>6, <1>7
<1>9. PlaceInv' /\ call'.dumping = FALSE
  BY DEF PlaceInv, NoCall
<1>10. \A s \in Points' : Held(s, j'.tail_sync, j'.head) /\ PointOK(page', s)
  BY <1>2, <1>3, <1>6 DEF Points
<1>11. mids' # {} => j'.recovery
  BY <1>2, <1>6, <1>7
<1>12. RingOK(j', call'.dumping)
  BY <1>4, <1>9
<1>13. Filled(page', j'.head)
  BY <1>2
<1>14. ~is_aligned(j'.head, ppb) \/ pc' \in {"prog", "cp"} =>
         Fresh(page', j'.tail_sync, j'.head)
  BY <1>2
<1>15. pc' \in {"idle", "scan", "prog", "cp"}
  OBVIOUS
<1> QED
  BY <1>2, <1>8, <1>9, <1>10, <1>11, <1>12, <1>13, <1>14, <1>15, OrderJoin

\* What a step of push_meta or dump_meta leaves on the flash.
LEMMA ProgramOkFlash ==
  ASSUME num_blocks >= 2, Inv, OrderInv, ProgramOk
  PROVE  /\ FlashOrder(page') /\ \A s \in Points : PointOK(page', s)
         /\ Filled(page', j.head) /\ Fresh(page', j.tail_sync, j.head)
         /\ call.dumping => ~is_erased(page', j.head)
<1>1. /\ pc = "prog" /\ pc \in {"scan", "prog", "cp"} /\ j.head \in Pages
      /\ j.head \in UPages /\ page \in [Pages -> Contents]
      /\ Filled(page, j.head) /\ Fresh(page, j.tail_sync, j.head)
      /\ FlashOrder(page) /\ \A s \in Points : PointOK(page, s)
  BY CallFacts DEF ProgramOk
<1>2. CASE programs
  <2>1. PICK c \in contents : page' \in programmed(j.head, c)
    BY <1>2 DEF ProgramOk
  <2>2. Written(page, page', j.head) /\ page'[j.head] \in {c, Torn}
    BY <1>1, <2>1, ProgramWrites
  <2>3. Target(page, page', j.head, j.head)
    BY DEF Target
  <2>4. call.dumping => ~is_erased(page', j.head)
    BY <2>2 DEF contents, is_erased, Torn
  <2> QED BY <1>1, <2>2, <2>3, <2>4, Programs
<1>3. CASE ~programs
  <2>1. page' = page /\ ~call.dumping
    BY <1>3 DEF ProgramOk, programs
  <2> QED BY <1>1, <2>1
<1> QED BY <1>2, <1>3

\* The user page of an enqueue or copy is on the flash.
LEMMA PushMetaKeeps ==
  ASSUME num_blocks >= 2, Inv, Inv', OrderInv, PushMeta, Observe
  PROVE  OrderInv'
<1>1. /\ pc = "prog" /\ ProgramOk /\ ~Crashes /\ ~call.dumping
      /\ pc \in {"scan", "prog", "cp"}
  BY DEF PushMeta, ProgramOk, Crashes
<1>2. /\ j \in Journals /\ j.head \in UPages /\ j.head \in Pages
      /\ j.tail_sync \in Pages /\ j.tail \in Pages
      /\ RingOK(j, call.dumping) /\ ClearOf(j.tail_sync, j.head) /\ j.dirty
      /\ \A s \in Points : Held(s, j.tail_sync, j.head)
      /\ Running
  BY <1>1, CallFacts
<1>3. /\ FlashOrder(page') /\ \A s \in Points : PointOK(page', s)
      /\ Filled(page', j.head) /\ Fresh(page', j.tail_sync, j.head)
  BY <1>1, ProgramOkFlash
<1>4. CASE pc' = "cp" /\ UNCHANGED <<j, call, client>>
  <2>1. DOMAIN accepted' \subseteq DOMAIN accepted /\ saved' = saved /\ mids' = mids
    <3>1. ~Accepts
      BY <1>4 DEF Accepts
    <3> QED BY <1>1, <1>2, <1>4, <3>1, ObservedDirty
  <2>2. DOMAIN accepted \subseteq queue(j.tail, j.head) /\ (mids # {} => j.recovery)
    BY <1>2 DEF OrderInv, ListsInv
  <2>3. PlaceInv'
    BY <1>1, <1>4 DEF OrderInv, PlaceInv
  <2>4. \A s \in Points' : Held(s, j'.tail_sync, j'.head) /\ PointOK(page', s)
    BY <1>2, <1>3, <1>4, <2>1 DEF Points
  <2> QED BY <1>2, <1>3, <1>4, <2>1, <2>2, <2>3, <2>4, OrderJoin
<1>5. CASE /\ ~is_aligned(j.head + 2, ppc)
           /\ Return([j EXCEPT !.root = j.head, !.head = j.head + 1], "OK")
  <2> DEFINE k == [j EXCEPT !.root = j.head, !.head = j.head + 1]
  <2>1. /\ j.head + 1 \in UPages /\ cp_page(j.head + 1) = cp_page(j.head)
        /\ block_of(j.head + 1) = block_of(j.head)
        /\ \A c \in CpPages : c < j.head + 1 => c < j.head
    BY <1>2, <1>5, NextOffset
  <2>2. /\ k \in Journals /\ k.head = j.head + 1 /\ k.root = j.head
        /\ k.tail = j.tail /\ k.tail_sync = j.tail_sync /\ k.dirty = j.dirty
        /\ k.recovery = j.recovery /\ k.recover_root = j.recover_root
    BY <1>2, <2>1 DEF Journals, UPagesOrNone
  <2>3. Return(k, "OK")
    BY <1>5
  <2> HIDE DEF k
  <2>4. j.head + 1 \in Pages /\ j.head <= j.head + 1 /\ j.head # j.head + 1
    BY <1>2, <2>1 DEF UPages, Pages
  <2>5. Onward(j.tail_sync, j.head, k.head)
    BY <1>2, <2>1, <2>2, <2>4, OnwardInBlock
  <2>6. Advances(j, call.dumping, k, FALSE)
    BY <2>2, <2>4, <2>5 DEF Advances
  <2>7. TailAdvances(k, j') /\ pc' = "idle" /\ call' = NoCall
    BY <2>2, <2>3, ReturnOk
  <2>8. Filled(page', k.head)
    BY <1>3, <2>1, <2>2 DEF Filled
  <2>9. Fresh(page', k.tail_sync, k.head)
    BY <1>3, <2>1, <2>2 DEF Fresh, Ahead
  <2> QED
    BY <1>1, <1>2, <1>3, <2>2, <2>4, <2>6, <2>7, <2>8, <2>9, AdvanceKeeps
<1> QED BY <1>4, <1>5 DEF PushMeta

\* The next user page, in the same block or at the start of the next.
LEMMA NextGroup ==
  ASSUME NEW u \in UPages
  PROVE  LET n == next_upage(u)
         IN  /\ n \in UPages /\ n \in Pages
             /\ \/ is_aligned(n, ppb)
                \/ /\ block_of(n) = block_of(u) /\ u < n
                   /\ cp_page(n) >= cp_page(u)
                   /\ \A c \in CpPages :
                        c < n => c < u \/ (c = cp_page(u) /\ c = u + 1)
<1> DEFINE n == next_upage(u)
<1>1. n \in UPages /\ n \in Pages /\ u \in Nat /\ n \in Nat
  BY NextUPage, GroupOrder, NextInBlock DEF Pages
<1>2. CASE n = first_page(next_block(block_of(u)))
  <2>1. n = block_start(n)
    BY <1>2, NextInBlock, BlockBounds DEF block_start
  <2>2. is_aligned(n, ppb)
    BY <1>1, <2>1, AlignedBlock
  <2> QED BY <1>1, <2>2
<1>3. CASE u < n /\ block_of(n) = block_of(u)
  <2>1. n = IF u + 1 # cp_page(u) THEN u + 1
            ELSE IF u + 2 >= chip_size THEN 0 ELSE u + 2
    BY GroupBounds
  <2>2. /\ cp_page(u) \in Nat /\ cp_page(n) \in Nat /\ cp_page(n) \in CpPages
        /\ n < cp_page(n)
    BY <1>1, GroupBounds, GroupOrder
  <2> HIDE DEF n
  <2>3. cp_page(n) >= cp_page(u)
    <3>1. cp_page(n) > u
      BY <1>1, <1>3, <2>2
    <3> QED BY <2>2, <3>1, GroupsApart
  <2>4. ASSUME NEW c \in CpPages, c < n, ~(c < u)
        PROVE  c = cp_page(u) /\ c = u + 1
    <3>1. c \in Nat /\ c # u /\ (c > u => c >= cp_page(u)) /\ u < cp_page(u)
      BY GroupOrder, GroupBounds
    <3> QED BY <1>1, <1>3, <2>1, <2>2, <2>4, <3>1
  <2> QED BY <1>1, <1>3, <2>3, <2>4 DEF n
<1> QED BY <1>2, <1>3, NextInBlock

\* At the next user page the groups before it are full and the pages behind it
\* erased, as they were at the page before.
LEMMA NextPlace ==
  ASSUME NEW pg, NEW u \in UPages, NEW ts, Filled(pg, u), Fresh(pg, ts, u),
         u + 1 = cp_page(u) => Full(pg, u + 1)
  PROVE  LET n == next_upage(u)
         IN  /\ Filled(pg, n)
             /\ ~is_aligned(n, ppb) => Fresh(pg, ts, n)
<1> DEFINE n == next_upage(u)
<1>1. n \in UPages /\ n \in Pages /\ u \in Nat /\ n \in Nat
  BY NextGroup, NextInBlock DEF Pages
<1>2. CASE is_aligned(n, ppb)
  BY <1>1, <1>2, AlignedFilled
<1>3. CASE /\ block_of(n) = block_of(u) /\ u < n /\ cp_page(n) >= cp_page(u)
           /\ \A c \in CpPages : c < n => c < u \/ (c = cp_page(u) /\ c = u + 1)
  <2>1. cp_page(n) \in Nat /\ cp_page(u) \in Nat
    BY <1>1, GroupOrder, GroupBounds
  <2> HIDE DEF n
  <2>2. Filled(pg, n)
    BY <1>3 DEF Filled
  <2>3. Ahead(pg, n)
    BY <1>3, <2>1 DEF Fresh, Ahead, Pages
  <2>4. Fresh(pg, ts, n)
    BY <1>3, <2>3 DEF Fresh
  <2> QED BY <2>2, <2>4 DEF n
<1> QED BY <1>2, <1>3, NextGroup

\* The buffered metadata is on the flash: recovery begins.
LEMMA DumpMetaKeeps ==
  ASSUME num_blocks >= 2, Inv, Inv', OrderInv, DumpMeta, Observe
  PROVE  OrderInv'
<1> DEFINE n == next_upage(j.head)
           m == move_head(j, n)
           k == [m EXCEPT !.recover_meta = j.head, !.recovery = TRUE]
<1>1. /\ pc = "prog" /\ ProgramOk /\ ~Crashes /\ call.dumping
      /\ pc \in {"scan", "prog", "cp"} /\ Return(k, "RECOVER")
  BY DEF DumpMeta, ProgramOk, Crashes
<1>2. /\ j \in Journals /\ j.head \in UPages /\ j.head \in Pages
      /\ j.tail_sync \in Pages /\ j.tail \in Pages
      /\ ClearOf(j.tail_sync, j.head) /\ j.dirty /\ ~RollsOnto(j.tail_sync, j.head)
  BY <1>1, CallFacts
<1>3. /\ FlashOrder(page') /\ \A s \in Points : PointOK(page', s)
      /\ Filled(page', j.head) /\ Fresh(page', j.tail_sync, j.head)
      /\ ~is_erased(page', j.head)
  BY <1>1, ProgramOkFlash
<1>4. n \in UPages /\ n \in Pages
  BY <1>2, NextGroup
<1>5. /\ Filled(page', n)
      /\ ~is_aligned(n, ppb) => Fresh(page', j.tail_sync, n)
  <2>1. j.head + 1 = cp_page(j.head) => Full(page', j.head + 1)
    <3>1. (j.head + 1) - 1 = j.head
      BY <1>2 DEF Pages
    <3> QED BY <3>1, <1>3 DEF Full
  <2> QED BY <1>2, <1>3, <2>1, NextPlace
<1>6. Onward(j.tail_sync, j.head, n) /\ n # j.head
  BY <1>2, OnwardNext DEF RollsOnto
<1> HIDE DEF n
<1>7. /\ m \in Journals /\ SamePointers(j, m) /\ m.head = n /\ m.dirty = j.dirty
  BY <1>2, <1>4, MoveHeadType, MoveHeadPointers
<1> HIDE DEF m
<1>8. /\ k \in Journals /\ k.tail = j.tail /\ k.tail_sync = j.tail_sync
      /\ k.head = n /\ k.dirty /\ k.root = j.root /\ k.recovery
      /\ k.recover_root = j.recover_root
  BY <1>2, <1>7 DEF Journals, UPagesOrNone, SamePointers
<1> HIDE DEF k
<1>9. Advances(j, call.dumping, k, FALSE)
  BY <1>1, <1>6, <1>8 DEF Advances
<1>10. j' = k /\ pc' = "idle" /\ call' = NoCall
  BY <1>1, ReturnError
<1>11. TailAdvances(k, j')
  <2>1. Upto(k.tail, k.tail, k.head)
    BY <1>2, <1>4, <1>8, OrderTrans
  <2> QED BY <1>10, <2>1 DEF TailAdvances
<1> QED
  BY <1>1, <1>3, <1>5, <1>6, <1>8, <1>9, <1>10, <1>11, AdvanceKeeps

\* A checkpoint page is programmed behind its group, or torn.
LEMMA CheckpointFlash ==
  ASSUME num_blocks >= 2, Inv, OrderInv, pc = "cp",
         page' \in programmed(j.head + 1, checkpoint)
  PROVE  /\ FlashOrder(page') /\ \A s \in Points : PointOK(page', s)
         /\ Filled(page', j.head) /\ Fresh(page', j.tail_sync, j.head)
         /\ ~is_erased(page', j.head + 1)
         /\ page'[j.head + 1].kind = "cp" => page'[j.head + 1].tail = j.tail
<1> DEFINE h == j.head
           w == j.head + 1
<1>1. /\ j.tail_sync \in Pages /\ h \in Pages /\ j.tail \in Pages
      /\ RingOK(j, call.dumping) /\ ClearOf(j.tail_sync, h)
      /\ page \in [Pages -> Contents]
  BY CallFacts
<1>2. w = cp_page(h) /\ w \in Pages /\ block_of(w) = block_of(h) /\ h \in Nat
  BY <1>1, CheckpointPage DEF Pages
<1>3. Written(page, page', w) /\ page'[w] \in {checkpoint, Torn}
  BY <1>1, <1>2, ProgramWrites
<1>4. ~is_erased(page', w) /\ (page'[w].kind = "cp" => page'[w].tail = j.tail)
  BY <1>3 DEF checkpoint, Torn, is_erased
<1>5. ClearOf(j.tail, h)
  BY <1>1, ClearTail DEF RingOK
<1>6. ClearOf(j.tail, w)
  BY <1>1, <1>2, <1>5 DEF ClearOf, Pages
<1>7. Target(page, page', h, w)
  BY <1>2, <1>4, <1>6 DEF Target
<1> QED BY <1>2, <1>3, <1>4, <1>7, Programs

\* The journal once push_meta has completed a group, before the tail moves.
checkpointed ==
  LET clean == move_head([j EXCEPT !.dirty = FALSE, !.root = j.head],
                         next_upage(j.head))
  IN  IF j.enum_done THEN clear_recovery(clean) ELSE clean

\* It keeps the tails and has the completed group behind it.
LEMMA CheckpointedPointers ==
  ASSUME j \in Journals
  PROVE  /\ checkpointed \in Journals /\ checkpointed.head = next_upage(j.head)
         /\ checkpointed.root = j.head /\ checkpointed.tail = j.tail
         /\ checkpointed.tail_sync = j.tail_sync /\ ~checkpointed.dirty
         /\ checkpointed.recovery =>
              j.recovery /\ checkpointed.recover_root = j.recover_root
<1> DEFINE k == [j EXCEPT !.dirty = FALSE, !.root = j.head]
           c == move_head(k, next_upage(j.head))
<1>1. j.head \in UPages /\ next_upage(j.head) \in UPages
  BY NextUPage DEF Journals
<1>2. /\ k \in Journals /\ k.root = j.head /\ ~k.dirty /\ k.tail = j.tail
      /\ k.tail_sync = j.tail_sync /\ k.recovery = j.recovery
      /\ k.recover_root = j.recover_root
  BY <1>1 DEF Journals, UPagesOrNone
<1> HIDE DEF k
<1>3. /\ c \in Journals /\ c.head = next_upage(j.head) /\ c.root = j.head
      /\ ~c.dirty /\ c.tail = j.tail /\ c.tail_sync = j.tail_sync
      /\ c.recovery = j.recovery /\ c.recover_root = j.recover_root
  BY <1>1, <1>2, MoveHeadType, MoveHeadPointers DEF SamePointers
<1>4. checkpointed = IF j.enum_done THEN clear_recovery(c) ELSE c
  BY DEF checkpointed, k
<1> HIDE DEF c
<1>5. /\ clear_recovery(c) \in Journals /\ ~clear_recovery(c).recovery
      /\ clear_recovery(c).head = c.head /\ clear_recovery(c).root = c.root
      /\ clear_recovery(c).dirty = c.dirty /\ clear_recovery(c).tail = c.tail
      /\ clear_recovery(c).tail_sync = c.tail_sync
  BY <1>3, ClearRecoveryType DEF clear_recovery, Journals
<1> QED BY <1>3, <1>4, <1>5

\* The new synchronization point: its pages lie between the tail and its root.
LEMMA SnapshotHolds ==
  ASSUME num_blocks >= 2, Inv, OrderInv, pc = "cp",
         Fresh(page', j.tail_sync, j.head),
         page'[j.head + 1].kind = "cp" => page'[j.head + 1].tail = j.tail,
         j'.tail \in Pages, Upto(j.tail, j'.tail, j.head),
         NEW g \in Pages, Upto(j.tail_sync, g, j.head), Upto(g, j'.tail, j.head),
         NEW n \in Pages, Before(j.tail_sync, j.head, n)
  PROVE  Held(Snapshot, g, n) /\ PointOK(page', Snapshot)
<1> DEFINE ts == j.tail_sync
           t == j.tail
           h == j.head
           u == j'.tail
<1>1. /\ ts \in Pages /\ t \in Pages /\ h \in Pages /\ h \in UPages /\ t \in UPages
      /\ RingOK(j, call.dumping) /\ ClearOf(ts, h) /\ Running
  BY CallFacts
<1>2. Upto(ts, t, h)
  BY <1>1 DEF RingOK
<1>3. /\ Snapshot.root = h /\ "root" \in DOMAIN Snapshot
      /\ "live" \in DOMAIN Snapshot
      /\ DOMAIN Snapshot.live \subseteq
           (DOMAIN accepted \cup {h}) \ queue(t, u)
  BY DEF Snapshot, AcceptedNow
<1>4. DOMAIN accepted \subseteq queue(t, h)
  BY <1>1 DEF OrderInv, ListsInv
<1>5. h # PAGE_NONE /\ is_aligned(h + 2, ppc)
  BY <1>1, PageNone DEF Inv, RecoveryState
<1> HIDE DEF u, t, h, ts
<1>6. ASSUME NEW q \in DOMAIN Snapshot.live
      PROVE  /\ q \in UPages /\ q \in Pages /\ Upto(t, q, h) /\ Upto(u, q, h)
             /\ Upto(ts, q, h) /\ Upto(g, q, h)
  <2>1. (q \in queue(t, h) \/ q = h) /\ q \notin queue(t, u)
    BY <1>3, <1>4
  <2>2. q \in UPages /\ q \in Pages
    BY <1>1, <2>1, InQueue DEF UPages
  <2>3. Upto(t, q, h)
    <3>1. CASE q \in queue(t, h)
      BY <3>1, <1>1, <2>2, InQueue, OrderTrans
    <3>2. CASE q = h
      BY <3>2, <1>1, OrderTrans
    <3> QED BY <2>1, <3>1, <3>2
  <2>4. u \in Pages /\ Upto(t, u, h) /\ Upto(g, u, h)
    BY DEF u, t, h
  <2>5. Upto(t, u, q)
    BY <1>1, <2>1, <2>2, <2>4, InQueue, OrderTrans
  <2>6. Upto(u, q, h)
    BY <1>1, <2>2, <2>3, <2>4, <2>5, TailMoves
  <2>7. Upto(ts, q, h)
    BY <1>1, <1>2, <2>2, <2>3, TailMoves
  <2>8. Upto(g, q, h)
    BY <1>1, <2>2, <2>4, <2>6, TailMoves
  <2> QED BY <2>2, <2>3, <2>6, <2>7, <2>8
<1>7. Before(g, h, n)
  BY <1>1, TailMoves DEF ts, h
<1>8. Held(Snapshot, g, n)
  BY <1>3, <1>6, <1>7 DEF Held
<1>9. ASSUME NEW q \in DOMAIN Snapshot.live, block_of(q) = next_block(block_of(h))
      PROVE  OpenEnd(page', block_of(h))
  <2>1. block_of(ts) = next_block(block_of(h))
    BY <1>1, <1>6, <1>9, TailInNextBlock
  <2> QED BY <2>1 DEF Fresh, ts, h
<1>10. page'[h + 1].kind = "cp" => page'[h + 1].tail = t
  BY DEF h, t
<1>11. PointOK(page', Snapshot)
  BY <1>1, <1>3, <1>5, <1>6, <1>9, <1>10 DEF PointOK, UPagesOrNone
<1> QED BY <1>8, <1>11

\* A checkpoint completes its group.
LEMMA CheckpointKeeps ==
  ASSUME num_blocks >= 2, Inv, Inv', OrderInv, Checkpoint, Observe
  PROVE  OrderInv'
<1> DEFINE h == j.head
           ts == j.tail_sync
           t == j.tail
           u == j'.tail
           g == j'.tail_sync
           n == next_upage(j.head)
           a == checkpointed
           k == [a EXCEPT !.tail_sync = IF a.recovery THEN @ ELSE a.tail]
<1>1. /\ pc = "cp" /\ pc \in {"scan", "prog", "cp"} /\ ~Crashes
      /\ page' \in programmed(j.head + 1, checkpoint) /\ Return(k, "OK")
  BY DEF Checkpoint, checkpointed, Crashes
<1>2. /\ j \in Journals /\ h \in UPages /\ h \in Pages /\ ts \in Pages
      /\ t \in Pages /\ t \in UPages /\ RingOK(j, call.dumping)
      /\ ClearOf(ts, h) /\ j.dirty /\ ~RollsOnto(ts, h) /\ Running
      /\ \A s \in Points : PointOK(page, s) /\ Held(s, ts, h)
  BY <1>1, CallFacts
<1>3. /\ FlashOrder(page') /\ \A s \in Points : PointOK(page', s)
      /\ Filled(page', h) /\ Fresh(page', ts, h) /\ ~is_erased(page', h + 1)
      /\ page'[j.head + 1].kind = "cp" => page'[j.head + 1].tail = j.tail
  BY <1>1, CheckpointFlash
<1>4. n \in UPages /\ n \in Pages /\ Onward(ts, h, n) /\ n # h
  BY <1>2, NextGroup, OnwardNext DEF RollsOnto
<1>5. Filled(page', n) /\ (~is_aligned(n, ppb) => Fresh(page', ts, n))
  BY <1>2, <1>3, NextPlace DEF Full
<1>6. /\ a \in Journals /\ a.head = n /\ a.root = h /\ a.tail = t
      /\ a.tail_sync = ts /\ ~a.dirty
      /\ a.recovery => j.recovery /\ a.recover_root = j.recover_root
  BY <1>2, CheckpointedPointers
<1> HIDE DEF a, n
<1>7. /\ k \in Journals /\ k.head = n /\ k.root = h /\ k.tail = t /\ ~k.dirty
      /\ k.tail_sync = IF a.recovery THEN ts ELSE t
      /\ k.recovery = a.recovery /\ k.recover_root = a.recover_root
  BY <1>6 DEF Journals
<1> HIDE DEF k
<1>8. /\ j' \in Journals /\ TailAdvances(k, j') /\ pc' = "idle" /\ call' = NoCall
      /\ Upto(u, h, n) => j'.root = h
      /\ u = t \/ (call.dequeue /\ u = next_upage(t))
  BY <1>1, <1>7, ReturnOk
<1>9. u \in Pages /\ g \in Pages /\ j'.head = n /\ j'.recovery = a.recovery
  BY <1>7, <1>8 DEF Journals, UPages, TailAdvances
<1> HIDE DEF h, ts, t, u, g
<1>10. Before(ts, h, n)
  <2>1. Upto(ts, h, h)
    BY <1>2, OrderTrans
  <2> QED BY <2>1, <1>2, <1>4 DEF Onward
<1>11. Upto(ts, t, h) /\ Before(t, h, n)
  BY <1>2, <1>4, <1>10, TailMoves DEF RingOK, ts, t, h
<1>12. Upto(t, u, h)
  <2>1. CASE u = t
    BY <2>1, <1>2, OrderTrans
  <2>2. CASE call.dequeue /\ u = next_upage(t)
    <3>1. t # h
      BY <2>2 DEF OrderInv, PlaceInv, t, h
    <3> QED BY <2>2, <3>1, <1>2, <1>11, NextUser
  <2> QED BY <2>1, <2>2, <1>8
<1>13. j'.root = h
  <2>1. Before(u, h, n)
    BY <1>2, <1>4, <1>9, <1>11, <1>12, TailMoves
  <2> QED BY <2>1, <1>8, <1>2, <1>4, <1>9, OrderTrans
<1>14. Accepts /\ Commits
  BY <1>1, <1>8, <1>13 DEF Accepts, Commits, h
<1>15. /\ RingOK(a, FALSE) /\ queue(t, h) \subseteq queue(t, n)
       /\ \A s \in Points : Held(s, ts, n)
  <2>1. Advances(j, call.dumping, a, FALSE)
    BY <1>4, <1>6 DEF Advances, h, ts, t
  <2> QED BY <2>1, <1>2, <1>6, OnwardRing DEF h, ts, t
<1>16. RingOK(k, FALSE)
  <2>1. Upto(t, h, n) /\ Upto(t, t, n)
    BY <1>2, <1>4, <1>11, OrderTrans
  <2>2. TailAdvances(a, k)
    BY <2>1, <1>6, <1>7 DEF TailAdvances
  <2> QED BY <2>2, <1>6, <1>7, <1>15, TailRing
<1>17. RingOK(j', FALSE) /\ queue(t, n) \ queue(t, u) \subseteq queue(u, n)
       /\ (~is_aligned(n, ppb) => Fresh(page', g, n))
  <2>1. /\ RingOK(j', FALSE)
        /\ queue(k.tail, k.head) \ queue(k.tail, j'.tail) \subseteq
             queue(j'.tail, j'.head)
    BY <1>7, <1>8, <1>16, TailRing
  <2>2. /\ \A pg : Fresh(pg, k.tail_sync, k.head) => Fresh(pg, j'.tail_sync, j'.head)
    BY <1>7, <1>8, <1>16, TailRing
  <2>3. ASSUME ~is_aligned(n, ppb) PROVE Fresh(page', k.tail_sync, n)
    <3>1. Fresh(page', ts, n)
      BY <2>3, <1>5
    <3>2. CASE k.tail_sync = ts
      BY <3>1, <3>2
    <3>3. CASE k.tail_sync = t
      <4>1. block_of(t) = next_block(block_of(n)) =>
              block_of(ts) = next_block(block_of(n))
        <5>1. ClearOf(ts, n) /\ Upto(ts, t, n)
          BY <1>2, <1>4, <1>11 DEF Onward
        <5> QED BY <5>1, <1>2, <1>4, TailInNextBlock
      <4> QED BY <3>1, <3>3, <4>1 DEF Fresh
    <3> QED BY <3>2, <3>3, <1>7
  <2> QED BY <2>1, <2>2, <2>3, <1>7, <1>9 DEF u, g
<1>18. /\ a.recovery => g = ts
       /\ Upto(ts, g, h) /\ Upto(g, u, h)
  <2>1. Upto(ts, u, h) /\ Upto(ts, ts, h) /\ Upto(u, u, h)
    BY <1>2, <1>9, <1>11, <1>12, TailMoves, OrderTrans
  <2>2. a.recovery => g = ts
    BY <1>7, <1>8 DEF TailAdvances, g
  <2>3. g = ts \/ g = t \/ g = u
    BY <1>7, <1>8 DEF TailAdvances, g, u
  <2> QED BY <2>1, <2>2, <2>3, <1>11, <1>12
<1>19. Held(Snapshot, g, n) /\ PointOK(page', Snapshot)
  BY <1>1, <1>3, <1>4, <1>9, <1>10, <1>12, <1>18, SnapshotHolds
  DEF h, ts, t, u
<1>20. /\ DOMAIN accepted' \subseteq (DOMAIN accepted \cup {h}) \ queue(t, u)
       /\ j'.recovery => saved' = saved /\ mids' = mids \cup {Snapshot}
       /\ ~j'.recovery => saved' = Snapshot /\ mids' = {}
  BY <1>1, <1>2, <1>14, Observed DEF h, t, u
<1>21. DOMAIN accepted' \subseteq queue(j'.tail, j'.head)
  <2>1. DOMAIN accepted \subseteq queue(t, h)
    BY <1>2 DEF OrderInv, ListsInv, t, h
  <2>2. h \in queue(t, n)
    BY <1>2, <1>11, InQueue
  <2>3. DOMAIN accepted' \subseteq queue(u, n)
    BY <1>15, <1>17, <1>20, <2>1, <2>2
  <2> QED BY <2>3, <1>9 DEF u
<1>22. \A s \in Points' : Held(s, j'.tail_sync, j'.head) /\ PointOK(page', s)
  <2>1. CASE j'.recovery
    BY <2>1, <1>3, <1>9, <1>15, <1>18, <1>19, <1>20 DEF Points, g
  <2>2. CASE ~j'.recovery
    BY <2>2, <1>9, <1>19, <1>20 DEF Points, g
  <2> QED BY <2>1, <2>2
<1>23. PlaceInv' /\ RingOK(j', call'.dumping)
  BY <1>8, <1>17 DEF PlaceInv, NoCall
<1>24. mids' # {} => j'.recovery
  BY <1>20
<1>25. /\ FlashOrder(page') /\ Filled(page', j'.head)
       /\ ~is_aligned(j'.head, ppb) \/ pc' \in {"prog", "cp"} =>
            Fresh(page', j'.tail_sync, j'.head)
  BY <1>3, <1>5, <1>8, <1>9, <1>17 DEF g
<1>26. pc' \in {"idle", "scan", "prog", "cp"}
  BY <1>8
<1> QED
  BY <1>8, <1>21, <1>22, <1>23, <1>24, <1>25, <1>26, OrderJoin

-----------------------------------------------------------------------------
(* Calls of the client                                                     *)

\* Between calls the tail moves and nothing is programmed: the client's call
\* returns, or it goes on with a head that may be used.
LEMMA IdleKeeps ==
  ASSUME num_blocks >= 2, Inv, Inv', OrderInv, pc = "idle", page' = page,
         Observe, ~Crashes, NEW k \in Journals, TailAdvances(j, k),
         SamePointers(k, j'), j'.head = k.head, ~call'.dumping,
         \/ pc' = "idle" /\ ~call'.dequeue
         \/ /\ j'.dirty /\ ~RollsOnto(k.tail_sync, k.head)
            /\ pc' = IF is_aligned(k.head, ppb) THEN "scan" ELSE "prog"
            /\ call'.dequeue => k.tail # k.head
  PROVE  OrderInv'
<1>1. /\ j \in Journals /\ Running /\ j.tail_sync \in Pages
      /\ j' \in Journals /\ pc' \in {"idle", "scan", "prog", "cp"}
      /\ j'.head = j.head /\ j'.recovery = j.recovery
      /\ j'.tail = k.tail /\ j'.tail_sync = k.tail_sync /\ k.head = j.head
  BY DEF Inv, TypeOK, Running, Resuming, Journals, UPages, TailAdvances,
         SamePointers
<1>2. /\ RingOK(j, call.dumping) /\ Filled(page, j.head) /\ FlashOrder(page)
      /\ DOMAIN accepted \subseteq queue(j.tail, j.head)
      /\ \A s \in Points : PointOK(page, s) /\ Held(s, j.tail_sync, j.head)
      /\ mids # {} => j.recovery
      /\ ~is_aligned(j.head, ppb) => Fresh(page, j.tail_sync, j.head)
  BY <1>1 DEF OrderInv, RingInv, ListsInv, FlashInv, HeadInv, Entered
<1>3. /\ RingOK(k, FALSE)
      /\ queue(j.tail, j.head) \ queue(j.tail, k.tail) \subseteq queue(k.tail, k.head)
      /\ \A pg : Fresh(pg, j.tail_sync, j.head) => Fresh(pg, k.tail_sync, k.head)
      /\ \A pg, s, x : /\ PointOK(pg, s) /\ Held(s, j.tail_sync, j.head)
                       /\ x.root = s.root
                       /\ DOMAIN x.live \subseteq
                            DOMAIN s.live \ queue(j.tail_sync, k.tail_sync)
                       => Held(x, k.tail_sync, k.head)
  BY <1>1, <1>2, TailRing
<1>4. /\ DOMAIN accepted' \subseteq DOMAIN accepted \ queue(j.tail, j'.tail)
      /\ saved' = IF j.dirty \/ j.recovery THEN saved
                  ELSE [saved EXCEPT !.live =
                          Past(@, j.tail_sync, j'.tail_sync)]
      /\ mids' = mids
  <2>1. ~Accepts /\ ~Commits
    BY DEF Accepts, Commits
  <2> QED BY <1>1, <2>1, Observed
<1>5. RingOK(j', call'.dumping)
  BY <1>1, <1>3 DEF RingOK, SamePointers
<1>6. PlaceInv'
  BY <1>1 DEF PlaceInv
<1>7. DOMAIN accepted' \subseteq queue(j'.tail, j'.head)
  BY <1>1, <1>2, <1>3, <1>4
<1>8. ASSUME NEW x \in Points'
      PROVE  Held(x, j'.tail_sync, j'.head) /\ PointOK(page', x)
  <2>1. CASE j.dirty \/ j.recovery
    <3>1. k.tail_sync = j.tail_sync
      BY <2>1 DEF TailAdvances
    <3>2. x \in Points /\ queue(j.tail_sync, k.tail_sync) = {}
      BY <1>1, <1>4, <1>8, <2>1, <3>1, EmptyQueue DEF Points
    <3> QED BY <1>1, <1>2, <1>3, <3>2
  <2>2. CASE ~j.dirty /\ ~j.recovery
    <3> DEFINE live == Past(saved.live, j.tail_sync, k.tail_sync)
    <3>1. mids' = {} /\ x = [saved EXCEPT !.live = live]
      BY <1>1, <1>2, <1>4, <1>8, <2>2 DEF Points
    <3>2. PointOK(page, saved) /\ Held(saved, j.tail_sync, j.head)
      BY <1>2 DEF Points
    <3>3. DOMAIN live = DOMAIN saved.live \ queue(j.tail_sync, k.tail_sync)
      BY DEF Past, Restrict
    <3> HIDE DEF live
    <3>4. /\ x.root = saved.root /\ x.live = live
          /\ "root" \in DOMAIN x /\ "live" \in DOMAIN x
      BY <3>1, <3>2 DEF PointOK
    <3>5. Held(x, k.tail_sync, k.head)
      BY <1>3, <3>2, <3>3, <3>4
    <3>6. PointOK(page, x)
      BY <3>2, <3>3, <3>4 DEF PointOK
    <3> QED BY <1>1, <3>5, <3>6
  <2> QED BY <2>1, <2>2
<1>9. mids' # {} => j'.recovery
  BY <1>1, <1>2, <1>4
<1>10. /\ FlashOrder(page') /\ Filled(page', j'.head)
       /\ ~is_aligned(j'.head, ppb) \/ pc' \in {"prog", "cp"} =>
            Fresh(page', j'.tail_sync, j'.head)
  BY <1>1, <1>2, <1>3
<1> QED
  BY <1>1, <1>5, <1>6, <1>7, <1>8, <1>9, <1>10, OrderJoin

\* Between calls no call is dumping or copying for the garbage collector.
LEMMA BetweenCalls ==
  ASSUME Inv, OrderInv, pc = "idle"
  PROVE  ~call.dumping /\ ~call.dequeue
BY DEF Inv, RecoveryState, OrderInv, PlaceInv

\* The tail may stay where it is.
LEMMA TailStays ==
  ASSUME NEW a \in Journals, NEW b, SamePointers(a, b), b.head = a.head
  PROVE  TailAdvances(a, b)
<1>1. Upto(a.tail, a.tail, a.head)
  BY OrderTrans DEF Journals, UPages
<1> QED BY <1>1 DEF TailAdvances, SamePointers

\* A query of the client, after which the journal is k.
LEMMA QuietKeeps ==
  ASSUME num_blocks >= 2, Inv, Inv', OrderInv, pc = "idle", Observe,
         UNCHANGED <<page, pc, call, crashes>>, TailAdvances(j, j')
  PROVE  OrderInv'
<1>1. j' \in Journals /\ SamePointers(j', j')
  BY DEF Inv, TypeOK, SamePointers
<1>2. ~Crashes /\ ~call'.dumping /\ ~call'.dequeue
  BY BetweenCalls DEF Crashes
<1> QED BY <1>1, <1>2, IdleKeeps

\* A call of the client that writes, after the query that has left journal k.
LEMMA BeginKeeps ==
  ASSUME num_blocks >= 2, Inv, Inv', OrderInv, pc = "idle", Observe,
         NEW k \in Journals, TailAdvances(j, k),
         NEW op, NEW src, NEW m, NEW deq, Begin(k, op, src, m, deq),
         deq => k.tail # k.head
  PROVE  OrderInv'
<1> DEFINE c == [NoCall EXCEPT !.op = op, !.src = src, !.meta = m, !.dequeue = deq]
<1>1. page' = page /\ ~Crashes /\ prepare_head(k, c)
  BY DEF Begin, Crashes
<1>2. c.dequeue = deq /\ c.dumping = FALSE
  BY DEF NoCall
<1>3. CASE rolls_onto_tail(k)
  <2>1. j' = k /\ pc' = "idle" /\ call' = NoCall
    BY <1>1, <1>3, ReturnError DEF prepare_head
  <2>2. ~call'.dumping /\ ~call'.dequeue
    BY <2>1 DEF NoCall
  <2> QED BY <1>1, <2>1, <2>2, IdleKeeps DEF SamePointers
<1>4. CASE ~rolls_onto_tail(k)
  <2>1. /\ j' = [k EXCEPT !.dirty = TRUE] /\ call' = [c EXCEPT !.scans = 0]
        /\ pc' = IF is_aligned(k.head, ppb) THEN "scan" ELSE "prog"
    BY <1>1, <1>4 DEF prepare_head
  <2>2. call'.dequeue = deq /\ call'.dumping = FALSE
    BY <2>1 DEF NoCall
  <2>3. SamePointers(k, j') /\ j'.head = k.head /\ j'.dirty
    BY <2>1 DEF Journals, SamePointers
  <2>4. ~RollsOnto(k.tail_sync, k.head)
    BY <1>4 DEF rolls_onto_tail, RollsOnto
  <2> QED BY <1>1, <2>1, <2>2, <2>3, <2>4, IdleKeeps
<1> QED BY <1>3, <1>4

\* Padding repeats the root or adds filler.
LEMMA PadQueueKeeps ==
  ASSUME num_blocks >= 2, Inv, Inv', OrderInv, pc = "idle", Observe, pad_queue(j)
  PROVE  OrderInv'
<1>1. j \in Journals /\ TailAdvances(j, j)
  BY TailStays DEF Inv, TypeOK, SamePointers
<1>2. CASE \E src, m, op : Begin(j, op, src, m, FALSE)
  BY <1>1, <1>2, BeginKeeps
<1>3. CASE j' = j /\ UNCHANGED <<page, pc, call, crashes>>
  BY <1>1, <1>3, QuietKeeps
<1> QED BY <1>2, <1>3 DEF pad_queue

\* The calls of the map that write, and dhara_journal_clear.
LEMMA ClientKeeps ==
  ASSUME num_blocks >= 2, Inv, Inv', OrderInv, Enqueue \/ Copy \/ Pad \/ Clear, Observe
  PROVE  OrderInv'
<1>1. j \in Journals /\ TailAdvances(j, j) /\ j.head \in Pages /\ j.tail \in Pages
  BY TailStays DEF Inv, TypeOK, SamePointers, Journals, UPages
<1>2. CASE Enqueue
  BY <1>1, <1>2, BeginKeeps DEF Enqueue
<1>3. CASE Copy
  BY <1>1, <1>3, BeginKeeps DEF Copy
<1>4. CASE Pad
  BY <1>4, PadQueueKeeps DEF Pad
<1>5. CASE Clear
  <2>1. /\ pc = "idle" /\ UNCHANGED <<page, pc, call, crashes>>
        /\ j' = [j EXCEPT !.tail = j.head, !.root = PAGE_NONE, !.dirty = TRUE]
    BY <1>5 DEF Clear
  <2>2. /\ j'.tail = j.head /\ j'.head = j.head /\ j'.root = PAGE_NONE
        /\ j'.tail_sync = j.tail_sync /\ j'.recovery = j.recovery
        /\ j'.recover_root = j.recover_root
    BY <1>1, <2>1 DEF Journals
  <2>3. Upto(j.tail, j.head, j.head)
    BY <1>1, OrderTrans
  <2>4. TailAdvances(j, j')
    BY <2>2, <2>3 DEF TailAdvances
  <2> QED BY <2>1, <2>4, QuietKeeps
<1> QED BY <1>2, <1>3, <1>4, <1>5

\* peek moves the tail no farther than the head.
LEMMA PeekAdvances ==
  ASSUME j \in Journals, NEW t \in UPages, NEW r \in {j.root, PAGE_NONE},
         peeked([j EXCEPT !.tail = t, !.root = r])
  PROVE  LET k == [j EXCEPT !.tail = t, !.root = r]
         IN  /\ k \in Journals /\ TailAdvances(j, k) /\ k.dirty = j.dirty
             /\ k.tail_sync = j.tail_sync
             /\ j.head # j.tail /\ r # PAGE_NONE => k.tail # k.head
<1> DEFINE k == [j EXCEPT !.tail = t, !.root = r]
<1>1. /\ k \in Journals /\ k.tail = t /\ k.root = r /\ k.head = j.head
      /\ k.tail_sync = j.tail_sync /\ k.dirty = j.dirty
      /\ k.recovery = j.recovery /\ k.recover_root = j.recover_root
      /\ j.tail \in Pages /\ j.head \in Pages
  BY DEF Journals, UPages, UPagesOrNone
<1>2. peeked(k)
  OBVIOUS
<1> HIDE DEF k
<1>3. CASE k = j
  BY <1>1, <1>3, TailStays DEF SamePointers, k
<1>4. CASE /\ is_aligned(j.tail, ppb)
           /\ \E b \in Blocks :
                /\ at_tail(b)
                /\ k = [j EXCEPT !.tail = first_page(b),
                          !.root = IF first_page(b) = j.head THEN PAGE_NONE ELSE @]
  <2>1. PICK b \in Blocks :
             /\ at_tail(b)
             /\ k = [j EXCEPT !.tail = first_page(b),
                       !.root = IF first_page(b) = j.head THEN PAGE_NONE ELSE @]
    BY <1>4
  <2>2. t = first_page(b) /\ (first_page(b) = j.head => r = PAGE_NONE)
    BY <1>1, <2>1 DEF Journals
  <2>3. PICK n \in 0 .. (MAX_RETRIES - 1) :
             /\ b = (block_of(j.tail) + n) % num_blocks
             /\ \A i \in 0 .. (n - 1) :
                  (block_of(j.tail) + i) % num_blocks # block_of(j.head)
    BY <2>1 DEF at_tail
  <2>4. n \in Nat
    BY <2>3, GeometryAssumption
  <2>5. Upto(j.tail, t, j.head)
    BY <1>1, <1>4, <2>2, <2>3, <2>4, PeekedTail
  <2>6. TailAdvances(j, k)
    BY <1>1, <2>5 DEF TailAdvances
  <2> QED BY <1>1, <2>2, <2>6 DEF k
<1> QED BY <1>2, <1>3, <1>4 DEF peeked

\* The garbage collector drops or copies the page at the tail.
LEMMA GcKeeps ==
  ASSUME num_blocks >= 2, Inv, Inv', OrderInv, Gc, Observe
  PROVE  OrderInv'
<1>1. j \in Journals /\ pc = "idle" /\ j.head # j.tail
  BY DEF Inv, TypeOK, Gc
<1>2. PICK t \in UPages, r \in {j.root, PAGE_NONE} :
        LET k == [j EXCEPT !.tail = t, !.root = r]
        IN  /\ peeked(k)
            /\ \/ j' = k /\ Quiet
               \/ j' = dequeue(k) /\ Quiet
               \/ r # PAGE_NONE /\ \E m \in Meta : Begin(k, "copy", t, m, TRUE)
  BY DEF Gc
<1> DEFINE k == [j EXCEPT !.tail = t, !.root = r]
<1>3. /\ k \in Journals /\ TailAdvances(j, k) /\ k.dirty = j.dirty
      /\ k.tail_sync = j.tail_sync
      /\ r # PAGE_NONE => k.tail # k.head
  BY <1>1, <1>2, PeekAdvances
<1>4. \/ j' = k /\ Quiet
      \/ j' = dequeue(k) /\ Quiet
      \/ r # PAGE_NONE /\ \E m \in Meta : Begin(k, "copy", t, m, TRUE)
  BY <1>2
<1> HIDE DEF k
<1>5. CASE j' = k /\ Quiet
  BY <1>1, <1>3, <1>5, QuietKeeps DEF Quiet
<1>6. CASE j' = dequeue(k) /\ Quiet
  <2>1. j' \in Journals /\ TailAdvances(k, j')
    BY <1>3, <1>6, DequeueAdvances
  <2>2. /\ j.tail \in Pages /\ k.tail \in Pages /\ j'.tail \in Pages
        /\ j.head \in Pages /\ k.head = j.head
    BY <1>1, <1>3, <2>1 DEF Journals, UPages, TailAdvances
  <2>3. Upto(j.tail, j'.tail, j.head)
    BY <1>3, <2>1, <2>2, TailMoves DEF TailAdvances
  <2>4. TailAdvances(j, j')
    BY <1>3, <2>1, <2>3 DEF TailAdvances
  <2> QED BY <1>1, <1>6, <2>4, QuietKeeps DEF Quiet
<1>7. CASE r # PAGE_NONE /\ \E m \in Meta : Begin(k, "copy", t, m, TRUE)
  BY <1>1, <1>3, <1>7, BeginKeeps
<1> QED BY <1>4, <1>5, <1>6, <1>7

\* An iteration of try_recover.
LEMMA RecoverKeeps ==
  ASSUME num_blocks >= 2, Inv, Inv', OrderInv, Recover, Observe
  PROVE  OrderInv'
<1> DEFINE k == next_recoverable
<1>1. j \in Journals /\ pc = "idle" /\ RecoveryFields(j) /\ client = "recovering"
  BY DEF Inv, TypeOK, RecoveryState, Recover
<1>2. ASSUME ~j.enum_done PROVE k \in Journals /\ TailAdvances(j, k)
  <2>1. SamePointers(j, k) /\ k.head = j.head
    BY <1>1 DEF next_recoverable, Journals, SamePointers
  <2>2. k \in Journals
    <3>1. next_upage(j.recover_next) \in RecoverPages
      <4>1. j.recover_next \in UPages \/ (j.recover_next \in Nat /\ j.recover_next >= chip_size)
        BY <1>1, PageNone, GeometryAssumption DEF Journals, RecoverPages, UPagesOrNone
      <4> QED BY <4>1, NextUPage, NextUPageOutside DEF RecoverPages, UPagesOrNone
    <3> QED BY <1>1, <3>1 DEF next_recoverable, Journals
  <2> HIDE DEF k
  <2> QED BY <1>1, <2>1, <2>2, TailStays
<1>3. CASE j.enum_done /\ pad_queue(j)
  BY <1>1, <1>3, PadQueueKeeps
<1>4. CASE ~j.enum_done /\ j' = k /\ Quiet
  BY <1>1, <1>2, <1>4, QuietKeeps DEF Quiet
<1>5. CASE ~j.enum_done /\ \E m \in Meta : Begin(k, "copy", j.recover_next, m, FALSE)
  BY <1>1, <1>2, <1>5, BeginKeeps
<1> QED BY <1>3, <1>4, <1>5 DEF Recover

-----------------------------------------------------------------------------
(* Power failures and restarts                                             *)

\* A power failure leaves a synchronization point as it was, whatever command
\* it cuts short.
LEMMA CrashKeeps ==
  ASSUME num_blocks >= 2, Inv, OrderInv, Crash, Observe
  PROVE  OrderInv'
<1>1. /\ Crashes /\ page' \in {page} \cup torn_pages /\ pc' = "resume"
      /\ call' = NoCall
  BY DEF Crash, Crashes, Inv, TypeOK
<1>2. mids' = mids /\ saved' = saved
  <2>1. ~Resumes
    BY <1>1 DEF Resumes
  <2> QED BY <1>1, <2>1 DEF Observe
<1>3. FlashOrder(page') /\ \A s \in Points : PointOK(page', s)
  <2>1. CASE page' = page
    BY <2>1 DEF OrderInv, FlashInv
  <2>2. CASE pc = "scan" /\ page' = erase_torn(block_of(j.head))
    BY <2>2, EraseWipes, Wipes
  <2>3. CASE pc = "prog" /\ page' = program_torn(j.head)
    <3>1. j.head \in Pages /\ page \in [Pages -> Contents]
      BY <2>3, CallFacts
    <3>2. Written(page, page', j.head) /\ page'[j.head] = Torn
      BY <2>3, <3>1, ProgramWrites
    <3> QED BY <2>3, <3>1, <3>2, TornTarget, Programs
  <2>4. CASE pc = "cp" /\ page' = program_torn(j.head + 1)
    <3>1. /\ j.head + 1 \in Pages /\ page \in [Pages -> Contents]
          /\ j.head + 1 = cp_page(j.head)
      BY <2>4, CallFacts, CheckpointPage
    <3>2. Written(page, page', j.head + 1) /\ page'[j.head + 1] = Torn
      BY <2>4, <3>1, ProgramWrites
    <3> QED BY <2>4, <3>1, <3>2, TornTarget, Programs
  <2> QED BY <1>1, <2>1, <2>2, <2>3, <2>4 DEF torn_pages, erasing
<1> QED
  BY <1>1, <1>2, <1>3
  DEF OrderInv, RingInv, PlaceInv, ListsInv, FlashInv, HeadInv, Entered, Running,
      Resuming, Points, NoCall

\* A restart goes on with its search.
LEMMA SearchKeeps ==
  ASSUME Inv, OrderInv, pc \in Resuming, pc' \in Resuming, Observe,
         UNCHANGED <<page, call, crashes>>,
         pc' = "r_head" => AtRoot' /\ Filled(page, j'.head)
  PROVE  OrderInv'
<1>1. UNCHANGED <<accepted, saved, mids>>
  BY DEF Observe, Crashes, Resumes, Resuming
<1>2. PlaceInv'
  BY DEF OrderInv, PlaceInv, Resuming
<1> QED
  BY <1>1, <1>2
  DEF OrderInv, RingInv, ListsInv, FlashInv, HeadInv, Entered, Running, Points

\* The history after a restart: that of a checkpoint with the root it has found.
LEMMA ResumeObserved ==
  ASSUME Observe, Resumes, ~Crashes
  PROVE  /\ accepted' = saved'.live /\ mids' = {}
         /\ (saved' \in Points /\ saved'.root = j'.root) \/ saved' = NothingSaved
<1> DEFINE s == IF Found = {} THEN NothingSaved ELSE CHOOSE x \in Found : TRUE
<1>1. accepted' = s.live /\ saved' = s /\ mids' = {}
  BY DEF Observe
<1>2. Found # {} => s \in Found
  OBVIOUS
<1> QED BY <1>1, <1>2 DEF Found, Points

\* Without a synchronization point there is nothing to keep.
LEMMA NothingSavedOK ==
  /\ \A pg : PointOK(pg, NothingSaved)
  /\ \A ts, h : Held(NothingSaved, ts, h)
  /\ DOMAIN NothingSaved.live = {}
BY DEF NothingSaved, NoPages, PointOK, Held, UPagesOrNone

\* A restart ends with a journal whose tail has all of the checkpoint's pages.
LEMMA ResumedKeeps ==
  ASSUME Inv, Inv', OrderInv, pc \in Resuming, Resumes, Observe,
         UNCHANGED <<page, call, crashes>>, ~j'.recovery,
         j'.tail_sync = j'.tail, ClearOf(j'.tail, j'.head),
         Behind(j'.tail, j'.root, j'.head),
         \A s \in Points : s.root = j'.root =>
           \A q \in DOMAIN s.live : Upto(j'.tail, q, j'.root),
         Filled(page, j'.head),
         ~is_aligned(j'.head, ppb) => Fresh(page, j'.tail, j'.head)
  PROVE  OrderInv'
<1>1. /\ j' \in Journals /\ pc' = "idle" /\ j'.tail \in Pages /\ j'.head \in Pages
      /\ ~Crashes /\ ~call'.dumping /\ ~call'.dequeue
  BY DEF Inv, TypeOK, Journals, UPages, Resumes, Crashes, RecoveryState, Resuming,
         OrderInv, PlaceInv
<1>2. FlashOrder(page) /\ \A s \in Points : PointOK(page, s)
  BY DEF OrderInv, FlashInv
<1>3. /\ accepted' = saved'.live /\ mids' = {}
      /\ (saved' \in Points /\ saved'.root = j'.root) \/ saved' = NothingSaved
  BY <1>1, ResumeObserved
<1>4. PointOK(page, saved') /\ Held(saved', j'.tail, j'.head)
      /\ DOMAIN accepted' \subseteq queue(j'.tail, j'.head)
  <2>1. CASE saved' = NothingSaved
    BY <1>3, <2>1, NothingSavedOK
  <2>2. CASE saved' \in Points /\ saved'.root = j'.root
    <3>1. PointOK(page, saved')
      BY <1>2, <2>2
    <3>2. ASSUME NEW q \in DOMAIN saved'.live
          PROVE  /\ Upto(j'.tail, q, j'.root) /\ Before(j'.tail, j'.root, j'.head)
                 /\ q \in queue(j'.tail, j'.head)
      <4>1. j'.root # PAGE_NONE /\ j'.root \in Pages /\ q \in Pages /\ q \in UPages
        BY <2>2, <3>1, PointPages, PageNone
      <4>2. Upto(j'.tail, q, j'.root) /\ Before(j'.tail, j'.root, j'.head)
        BY <2>2, <4>1 DEF Behind
      <4>3. Before(j'.tail, q, j'.head)
        BY <1>1, <4>1, <4>2, OrderTrans
      <4> QED BY <4>1, <4>2, <4>3, InQueue
    <3>3. Held(saved', j'.tail, j'.head)
      BY <2>2, <3>2 DEF Held
    <3> QED BY <1>3, <3>1, <3>2, <3>3
  <2> QED BY <1>3, <2>1, <2>2
<1>5. RingOK(j', call'.dumping)
  <2>1. Upto(j'.tail, j'.tail, j'.head)
    BY <1>1, OrderTrans
  <2> QED BY <1>1, <2>1 DEF RingOK
<1>6. \A s \in Points' : Held(s, j'.tail_sync, j'.head) /\ PointOK(page', s)
  BY <1>3, <1>4 DEF Points
<1>7. PlaceInv' /\ pc' \in {"idle", "scan", "prog", "cp"} /\ (mids' # {} => j'.recovery)
  BY <1>1, <1>3 DEF PlaceInv
<1>8. ~is_aligned(j'.head, ppb) \/ pc' \in {"prog", "cp"} =>
        Fresh(page', j'.tail_sync, j'.head)
  BY <1>1
<1> QED BY <1>1, <1>2, <1>4, <1>5, <1>6, <1>7, <1>8, OrderJoin

\* A restart that finds no checkpoint ends with an empty journal.
LEMMA ResumeFailedKeeps ==
  ASSUME Inv, Inv', OrderInv, pc \in {"resume", "r_group"}, ResumeFailed, Observe,
         UNCHANGED <<page, call, crashes>>
  PROVE  OrderInv'
<1>1. /\ pc \in Resuming /\ Resumes /\ j'.root = PAGE_NONE /\ ~j'.recovery
      /\ j'.tail = 0 /\ j'.head = 0 /\ j'.tail_sync = 0
  BY DEF ResumeFailed, EmptyJournal, Resumes, Resuming
<1>2. 0 \in UPages /\ is_aligned(0, ppb)
  <2>1. j'.head \in UPages
    BY DEF Inv, TypeOK, Journals
  <2>2. 0 % ppb = 0
    BY Sizes
  <2> QED BY <1>1, <2>1, <2>2 DEF is_aligned
<1>3. Filled(page, j'.head)
  BY <1>1, <1>2, AlignedFilled
<1>4. \A s \in Points : s.root = j'.root => DOMAIN s.live = {}
  BY <1>1 DEF OrderInv, FlashInv, PointOK
<1>5. ClearOf(j'.tail, j'.head) /\ Behind(j'.tail, j'.root, j'.head)
  BY <1>1 DEF ClearOf, Behind
<1> QED BY <1>1, <1>2, <1>3, <1>4, <1>5, ResumedKeeps

\* The groups of a block.
LEMMA BlockGroup ==
  ASSUME NEW b \in Blocks, NEW g \in 0 .. (cpb - 1)
  PROVE  LET q == first_page(b) + g * ppc
         IN  /\ q \in UPages /\ q \in Nat /\ cp_page(q) = q + (ppc - 1)
             /\ next_upage(q) = q + 1 /\ q + 1 \in UPages
             /\ cp_page(q + 1) = q + (ppc - 1) /\ block_of(q + 1) = b
             /\ \A i \in 0 .. (ppc - 1) : q + i \in Pages /\ block_of(q + i) = b
<1> DEFINE q == first_page(b) + g * ppc
<1>1. /\ ppc \in Nat \ {0} /\ ppc >= 4 /\ cpb \in Nat \ {0} /\ b \in Nat /\ g \in Nat
      /\ ppb = cpb * ppc /\ first_page(b) \in Nat /\ g * ppc \in Nat
      /\ g + 1 <= cpb
  BY Sizes, GeometryAssumption, BlocksApart DEF Blocks
<1>2. (g * ppc) + ppc <= ppb
  <2>1. ((g + 1) * ppc) <= cpb * ppc
    BY <1>1
  <2>2. (g + 1) * ppc = (g * ppc) + ppc
    BY <1>1
  <2> QED BY <1>1, <2>1, <2>2
<1>3. ASSUME NEW i \in 0 .. (ppc - 1)
      PROVE  q + i \in Pages /\ block_of(q + i) = b
  <2>1. (g * ppc) + i \in 0 .. (ppb - 1)
    BY <1>1, <1>2
  <2>2. q + i = first_page(b) + ((g * ppc) + i)
    BY <1>1
  <2> HIDE DEF q
  <2> QED BY <2>1, <2>2, BlockPage
<1>4. q \in UPages
  <2>1. first_page(b) + (g * ppc) + 0 \in UPages
    BY <1>1, BlockGroupPage
  <2> QED BY <1>1, <2>1
<1>5. q % ppc = 0
  <2>1. b * cpb \in Nat /\ (b * cpb) + g \in Nat
    BY <1>1
  <2>2. b * ppb = (b * cpb) * ppc
    BY <1>1
  <2>3. ((b * cpb) + g) * ppc = ((b * cpb) * ppc) + (g * ppc)
    BY <1>1, <2>1
  <2>4. q = (((b * cpb) + g) * ppc) + 0
    BY <1>1, <2>1, <2>2, <2>3 DEF first_page
  <2> DEFINE k == (b * cpb) + g
  <2> HIDE DEF q, k
  <2>5. k \in Nat /\ q = (k * ppc) + 0 /\ 0 \in 0 .. (ppc - 1)
    BY <1>1, <2>1, <2>4 DEF k
  <2> QED BY <2>5, <1>1, ModUnique
<1>6. q \in Nat
  BY <1>1
<1> HIDE DEF q
<1>7. cp_page(q) = q + (ppc - 1)
  BY <1>1, <1>5, <1>6 DEF cp_page, align_down
<1>8. ~is_aligned(q + 2, ppc)
  BY <1>1, <1>4, <1>6, <1>7, GroupBounds
<1>9. /\ q + 1 \in UPages /\ cp_page(q + 1) = cp_page(q)
      /\ block_of(q + 1) = block_of(q) /\ next_upage(q) = q + 1
  BY <1>4, <1>8, NextOffset, GroupBounds
<1>10. block_of(q) = b
  <2>1. 0 \in 0 .. (ppc - 1) /\ q + 0 = q
    BY <1>1, <1>6
  <2> QED BY <2>1, <1>3
<1> QED BY <1>3, <1>4, <1>6, <1>7, <1>9, <1>10 DEF q

\* The search for a block with a checkpoint.
LEMMA FindBlockKeeps ==
  ASSUME Inv, Inv', OrderInv, FindFirst \/ FindLast, Observe
  PROVE  OrderInv'
<1>1. UNCHANGED <<page, call, crashes>>
  BY DEF FindFirst, FindLast
<1>2. CASE pc = "resume" /\ ResumeFailed
  BY <1>1, <1>2, ResumeFailedKeeps
<1>3. CASE pc \in Resuming /\ pc' \in Resuming /\ pc' # "r_head"
  BY <1>1, <1>3, SearchKeeps
<1>4. FindFirst => \/ pc = "resume" /\ ResumeFailed
                   \/ pc = "resume" /\ pc' = "r_last"
  BY DEF FindFirst
<1>5. FindLast => pc = "r_last" /\ pc' \in {"r_last", "r_group"}
  BY DEF FindLast
<1> QED BY <1>2, <1>3, <1>4, <1>5 DEF Resuming

\* find_root picks a checkpoint in group g of a block or in one before it; g is
\* the first group, or one that has been programmed.
LEMMA RestoreKeeps ==
  ASSUME Inv, Inv', OrderInv, pc = "r_group", Observe,
         UNCHANGED <<page, call, crashes>>,
         NEW b \in Blocks, NEW g \in 0 .. (cpb - 1), restore(b, g),
         g = 0 \/ ~cp_free(first_page(b) + g * ppc)
  PROVE  OrderInv'
<1>1. CASE ResumeFailed
  BY <1>1, ResumeFailedKeeps
<1>2. CASE \E i \in 0 .. g :
             LET p == first_page(b) + (i + 1) * ppc - 1
             IN  /\ good_cp(b, i)
                 /\ j' = [j EXCEPT !.root = p - 1, !.tail = page[p].tail,
                                   !.bb_current = page[p].bb_current,
                                   !.bb_last = page[p].bb_last,
                                   !.head = next_upage(first_page(b) + g * ppc)]
                 /\ pc' = "r_head"
  <2>1. PICK i \in 0 .. g :
             LET p == first_page(b) + (i + 1) * ppc - 1
             IN  /\ good_cp(b, i)
                 /\ j' = [j EXCEPT !.root = p - 1, !.tail = page[p].tail,
                                   !.bb_current = page[p].bb_current,
                                   !.bb_last = page[p].bb_last,
                                   !.head = next_upage(first_page(b) + g * ppc)]
                 /\ pc' = "r_head"
    BY <1>2
  <2> DEFINE p == first_page(b) + (i + 1) * ppc - 1
             q == first_page(b) + g * ppc
             o == first_page(b) + i * ppc
  <2>2. /\ i \in 0 .. (cpb - 1) /\ i \in Nat /\ g \in Nat /\ i <= g
        /\ ppc \in Nat /\ ppc >= 4 /\ first_page(b) \in Nat
        /\ i * ppc \in Nat /\ g * ppc \in Nat /\ i * ppc <= g * ppc
    BY Sizes, GeometryAssumption, BlocksApart
  <2>3. /\ q \in UPages /\ q \in Nat /\ next_upage(q) = q + 1 /\ q + 1 \in UPages
        /\ cp_page(q) = q + (ppc - 1)
        /\ cp_page(q + 1) = q + (ppc - 1) /\ block_of(q + 1) = b
        /\ \A x \in 0 .. (ppc - 1) : q + x \in Pages /\ block_of(q + x) = b
    BY BlockGroup
  <2>4. /\ o \in UPages /\ o \in Nat /\ cp_page(o) = o + (ppc - 1)
        /\ \A x \in 0 .. (ppc - 1) : o + x \in Pages /\ block_of(o + x) = b
    BY <2>2, BlockGroup
  <2>5. p = o + (ppc - 1) /\ o <= q
    <3>1. (i + 1) * ppc = (i * ppc) + ppc
      BY <2>2
    <3> QED BY <2>2, <3>1
  <2>6. p \in CpPages /\ p \in Nat /\ block_of(p) = b
    <3>1. cp_page(o) \in CpPages /\ ppc - 1 \in 0 .. (ppc - 1)
      BY <2>2, <2>4, GroupBounds
    <3> HIDE DEF p, o
    <3> QED BY <2>2, <2>4, <2>5, <3>1
  <2>7. /\ good_cp(b, i) /\ pc' = "r_head" /\ j'.root = p - 1
        /\ j'.tail = page[p].tail /\ j'.head = q + 1
    <3>1. j \in Journals
      BY DEF Inv, TypeOK
    <3> HIDE DEF p, q
    <3> QED BY <2>1, <2>3, <3>1 DEF Journals, p, q
  <2>8. page[p].kind = "cp"
    BY <2>7 DEF good_cp
  <2> HIDE DEF p, q, o
  <2>9. /\ p - 1 \in UPages /\ block_of(p - 1) = b /\ is_aligned((p - 1) + 2, ppc)
        /\ (p - 1) + 1 = p /\ p - 1 < q + (ppc - 1)
    BY <2>2, <2>3, <2>4, <2>5, <2>6, CpOwner
  <2>10. AtRoot'
    BY <2>3, <2>7, <2>8, <2>9 DEF AtRoot
  <2>11. Filled(page, q + 1)
    <3> SUFFICES ASSUME NEW c \in CpPages, block_of(c) = b, c < q + 1
                 PROVE  Full(page, c)
      BY <2>3 DEF Filled
    <3>1. /\ c \in Nat /\ c < q /\ c \in Pages
          /\ block_start(c) <= c /\ block_start(c) = first_page(b)
      <4>1. c \in Nat /\ c # q /\ c \in Pages
        BY <2>3, GroupOrder, CpPage
      <4> QED BY <2>3, <4>1, BlockBounds DEF block_start
    <3>2. g # 0
      <4>1. q = first_page(b) + g * ppc
        BY DEF q
      <4>2. g = 0 => g * ppc = 0
        BY <2>2
      <4> QED BY <2>2, <3>1, <4>1, <4>2
    <3>3. PICK x \in 0 .. (ppc - 1) : ~dhara_nand_is_free(q + x)
      BY <3>2 DEF cp_free, q
    <3>4. /\ q + x \in Pages /\ block_of(q + x) = b /\ c < q + x
          /\ block_start(q + x) = first_page(b)
      BY <2>2, <2>3, <3>1, <3>3 DEF block_start
    <3>5. ~is_aligned(q + x, ppb)
      <4>1. q + x # block_start(q + x)
        BY <2>2, <2>3, <3>1, <3>4
      <4> QED BY <3>4, <4>1, AlignedBlock
    <3>6. ~is_erased(page, q + x)
      BY <3>3, <3>5 DEF dhara_nand_is_free, is_erased
    <3> QED BY <3>4, <3>6 DEF OrderInv, FlashInv, FlashOrder, Filled
  <2> QED
    BY <2>7, <2>10, <2>11, SearchKeeps DEF Resuming
<1> QED BY <1>1, <1>2 DEF restore

\* The search for the last group of a block that has been programmed.
LEMMA FindGroupKeeps ==
  ASSUME Inv, Inv', OrderInv, FindGroup, Observe
  PROVE  OrderInv'
<1> DEFINE mid == (search.low + search.high) \div 2
           p == first_page(search.at) + mid * ppc
<1>1. /\ UNCHANGED <<page, call, crashes>> /\ pc = "r_group" /\ search.at \in Blocks
      /\ search.low \in Nat /\ search.high \in Int /\ search.high < cpb
      /\ cpb \in Nat \ {0}
  BY GeometryAssumption DEF FindGroup, Inv, TypeOK
<1>2. CASE pc' = pc
  BY <1>1, <1>2, SearchKeeps DEF Resuming
<1>3. CASE restore(search.at, 0)
  <2>1. 0 \in 0 .. (cpb - 1)
    BY <1>1
  <2> QED BY <1>1, <1>3, <2>1, RestoreKeeps
<1>4. CASE /\ search.low <= search.high /\ ~cp_free(p) /\ restore(search.at, mid)
  <2>1. mid \in 0 .. (cpb - 1)
    BY <1>1, <1>4
  <2> QED BY <1>1, <1>4, <2>1, RestoreKeeps
<1> QED BY <1>2, <1>3, <1>4 DEF FindGroup

\* find_head's arithmetic: it looks at the group of the head, and goes on behind
\* its checkpoint page.
LEMMA HeadGroup ==
  ASSUME NEW h \in UPages
  PROVE  LET first == align_down(h, ppc)
             after == IF first + ppc >= chip_size THEN 0 ELSE first + ppc
             c == cp_page(h)
         IN  /\ first \in Nat /\ first + ppc = c + 1 /\ c \in Nat /\ h < c
             /\ ppc \in Nat /\ ppc >= 4
             /\ block_start(h) <= first /\ c < block_start(h) + ppb
             /\ is_aligned(after, ppb) =>
                  /\ after = first_page(next_block(block_of(h)))
                  /\ c = block_start(h) + ppb - 1
             /\ ~is_aligned(after, ppb) =>
                  after = c + 1 /\ after \in Pages /\ block_of(after) = block_of(h)
<1> DEFINE first == align_down(h, ppc)
           after == IF first + ppc >= chip_size THEN 0 ELSE first + ppc
           c == cp_page(h)
<1>1. /\ ppc \in Nat /\ ppc >= 4 /\ ppb \in Nat \ {0} /\ chip_size \in Nat
      /\ h \in Pages /\ h \in Nat /\ c \in Pages /\ c \in CpPages /\ h < c
      /\ block_of(c) = block_of(h) /\ block_start(h) <= c - (ppc - 1)
      /\ c \in Nat
  BY Sizes, GroupBounds, GroupOrder
<1>2. first \in Nat /\ first + ppc = c + 1
  <2>1. first \in UPages
    BY AlignDownGroup
  <2>2. first \in Nat
    BY <2>1, UPageOffset
  <2>3. c = first + (ppc - 1)
    BY DEF cp_page
  <2> HIDE DEF first, c
  <2> QED BY <1>1, <2>2, <2>3
<1>3. /\ block_start(h) \in Nat /\ block_start(c) = block_start(h)
      /\ c < block_start(h) + ppb /\ block_start(h) + ppb <= chip_size
      /\ first_page(next_block(block_of(h))) =
           IF block_start(h) + ppb >= chip_size THEN 0 ELSE block_start(h) + ppb
  <2>1. block_start(c) = block_start(h)
    BY <1>1 DEF block_start
  <2> QED BY <1>1, <2>1, BlockBounds
<1> HIDE DEF first, c
<1>4. after = IF c + 1 >= chip_size THEN 0 ELSE c + 1
  BY <1>2
<1> HIDE DEF after
<1>5. CASE c + 1 = block_start(h) + ppb
  <2>1. after = first_page(next_block(block_of(h)))
    BY <1>3, <1>4, <1>5
  <2>2. after \in Pages /\ after = block_start(after)
    BY <1>1, <2>1, BlockBounds DEF block_start
  <2>3. is_aligned(after, ppb)
    BY <2>2, AlignedBlock
  <2> QED BY <1>1, <1>2, <1>3, <1>5, <2>1, <2>3 DEF first, after, c
<1>6. CASE c + 1 # block_start(h) + ppb
  <2>1. after = c + 1 /\ block_start(h) <= c + 1 /\ c + 1 < block_start(h) + ppb
    BY <1>1, <1>3, <1>4, <1>6
  <2>2. after \in Pages /\ block_of(after) = block_of(h)
        /\ block_start(after) = block_start(h)
    BY <1>1, <2>1, InBlock
  <2>3. after # block_start(after)
    BY <1>1, <1>3, <2>1, <2>2
  <2>4. ~is_aligned(after, ppb)
    BY <2>2, <2>3, AlignedBlock
  <2> QED BY <1>1, <1>2, <1>3, <2>1, <2>2, <2>4 DEF first, after, c
<1> QED BY <1>5, <1>6

\* The last two pages of a group are free exactly when they are erased: neither
\* of them has the marker of its block.
LEMMA GroupFree ==
  ASSUME NEW h \in UPages, NEW n \in 0 .. ppc,
         trailing_free(align_down(h, ppc), n)
  PROVE  /\ n <= 1 => Full(page, cp_page(h))
         /\ n > 1 => ~Full(page, cp_page(h))
<1> DEFINE first == align_down(h, ppc)
           c == cp_page(h)
<1>1. /\ first \in Nat /\ first + ppc = c + 1 /\ c \in Nat /\ ppc \in Nat /\ ppc >= 4
      /\ block_start(h) <= first /\ c < block_start(h) + ppb
  BY HeadGroup
<1>2. c \in Pages /\ c - 1 \in Pages /\ block_start(h) \in Nat
      /\ block_start(c) = block_start(h) /\ block_start(c - 1) = block_start(h)
  <2>1. c \in CpPages /\ c \in Pages /\ block_of(c) = block_of(h) /\ h \in Pages
    BY GroupBounds
  <2>2. c - 1 \in UPages /\ block_of(c - 1) = block_of(c)
    BY <2>1, CpOwner
  <2> QED BY <2>1, <2>2, BlockBounds DEF block_start, UPages
<1> HIDE DEF first, c
<1>3. ~is_aligned(c, ppb) /\ ~is_aligned(c - 1, ppb)
  <2>1. c # block_start(c) /\ c - 1 # block_start(c - 1)
    BY <1>1, <1>2
  <2> QED BY <1>2, <2>1, AlignedBlock
<1>4. /\ dhara_nand_is_free(c) <=> is_erased(page, c)
      /\ dhara_nand_is_free(c - 1) <=> is_erased(page, c - 1)
  BY <1>3 DEF dhara_nand_is_free, is_erased
<1>5. /\ \A i \in 0 .. (n - 1) : dhara_nand_is_free(first + ppc - i - 1)
      /\ n = ppc \/ ~dhara_nand_is_free(first + ppc - n - 1)
  BY DEF trailing_free, first
<1>6. /\ first + ppc - 0 - 1 = c /\ first + ppc - 1 - 1 = c - 1
  BY <1>1
<1>7. CASE n > 1
  <2>1. 0 \in 0 .. (n - 1) /\ 1 \in 0 .. (n - 1)
    BY <1>1, <1>7
  <2>2. dhara_nand_is_free(first + ppc - 0 - 1) /\ dhara_nand_is_free(first + ppc - 1 - 1)
    BY <1>5, <2>1
  <2>3. is_erased(page, c) /\ is_erased(page, c - 1)
    BY <1>4, <1>6, <2>2
  <2> QED BY <1>7, <2>3 DEF Full, c
<1>8. CASE n <= 1
  <2>1. (n = 0 \/ n = 1) /\ n # ppc
    BY <1>1, <1>8
  <2>2. ~dhara_nand_is_free(c) \/ ~dhara_nand_is_free(c - 1)
    BY <1>5, <1>6, <2>1
  <2> QED BY <1>4, <2>2, <1>8 DEF Full, c
<1> QED
  <2>1. n \in Nat
    BY <1>1
  <2> QED BY <2>1, <1>7, <1>8

\* What a restart knows of the root it has found.
LEMMA RootFacts ==
  ASSUME Inv, OrderInv, pc = "r_head"
  PROVE  /\ j \in Journals /\ j.head \in UPages /\ j.head \in Pages /\ j.tail \in Pages
         /\ j.root \in UPages /\ j.root \in Pages /\ j.root + 1 \in CpPages
         /\ block_of(j.head) = block_of(j.root) /\ j.root < cp_page(j.head)
         /\ ~is_erased(page, j.root + 1) /\ ClearOf(j.tail, j.root)
         /\ FlashOrder(page) /\ Filled(page, j.head)
         /\ \A s \in Points : s.root = j.root =>
              /\ \A q \in DOMAIN s.live :
                   /\ q \in Pages /\ Upto(j.tail, q, j.root)
                   /\ block_of(q) = next_block(block_of(j.root)) =>
                        OpenEnd(page, block_of(j.root))
<1>1. AtRoot /\ FlashInv /\ Filled(page, j.head)
  BY DEF OrderInv, HeadInv
<1>2. /\ j \in Journals /\ j.head \in UPages /\ j.head \in Pages /\ j.tail \in Pages
      /\ j.tail \in UPages
  BY DEF Inv, TypeOK, Journals, UPages
<1>3. /\ j.root \in UPages /\ j.root \in Pages /\ j.root + 1 = cp_page(j.root)
      /\ j.root + 1 \in CpPages /\ block_of(j.root + 1) = block_of(j.root)
      /\ page[j.root + 1].kind = "cp" /\ j.tail = page[j.root + 1].tail
  BY <1>1, GroupBounds DEF AtRoot, UPages
<1>4. ClearOf(j.tail, j.root)
  <2>1. ClearOf(j.tail, j.root + 1)
    BY <1>1, <1>3 DEF FlashInv, FlashOrder
  <2>2. j.tail # j.root + 1
    BY <1>2, <1>3, GroupOrder
  <2>3. j.tail \in Nat /\ j.root \in Nat
    BY <1>2, <1>3 DEF Pages
  <2> QED BY <1>3, <2>1, <2>2, <2>3 DEF ClearOf
<1>5. ASSUME NEW s \in Points, s.root = j.root, NEW q \in DOMAIN s.live
      PROVE  /\ q \in Pages /\ Upto(j.tail, q, j.root)
             /\ block_of(q) = next_block(block_of(j.root)) =>
                  OpenEnd(page, block_of(j.root))
  BY <1>1, <1>3, <1>5 DEF FlashInv, PointOK, UPages
<1> QED
  BY <1>1, <1>2, <1>3, <1>4, <1>5 DEF AtRoot, FlashInv, is_erased

\* The end of a restart clears the recovery and moves no pointer but tail_sync.
LEMMA ResumedPointers ==
  ASSUME NEW k \in Journals, Resumed(k)
  PROVE  /\ j'.head = k.head /\ j'.tail = k.tail /\ j'.tail_sync = k.tail
         /\ j'.root = k.root /\ ~j'.recovery /\ pc' = "idle"
<1> DEFINE m == [k EXCEPT !.dirty = FALSE, !.tail_sync = k.tail]
<1>1. /\ m \in Journals /\ m.head = k.head /\ m.tail = k.tail /\ m.tail_sync = k.tail
      /\ m.root = k.root
  BY DEF Journals
<1>2. j' = clear_recovery(m) /\ pc' = "idle"
  BY DEF Resumed
<1> HIDE DEF m
<1> QED BY <1>1, <1>2 DEF clear_recovery, Journals

\* find_head stops at a free user page in the group of the head, which is then a
\* later one than that of the root.
LEMMA HeadFoundKeeps ==
  ASSUME Inv, Inv', OrderInv, pc = "r_head", Observe, UNCHANGED <<page, call, crashes>>,
         NEW n \in 0 .. ppc, n > 1, trailing_free(align_down(j.head, ppc), n),
         Resumed([j EXCEPT !.head = align_down(j.head, ppc) + ppc - n])
  PROVE  OrderInv'
<1> DEFINE first == align_down(j.head, ppc)
           c == cp_page(j.head)
           h == first + ppc - n
           r == j.root
           t == j.tail
<1>1. /\ j \in Journals /\ j.head \in UPages /\ j.head \in Pages /\ t \in Pages
      /\ r \in UPages /\ r \in Pages /\ r + 1 \in CpPages
      /\ block_of(j.head) = block_of(r) /\ r < c
      /\ ~is_erased(page, r + 1) /\ ClearOf(t, r)
      /\ FlashOrder(page) /\ Filled(page, j.head)
      /\ \A s \in Points : s.root = r => \A q \in DOMAIN s.live : Upto(t, q, r)
      /\ \A s \in Points : s.root = r => \A q \in DOMAIN s.live : q \in Pages
  BY RootFacts
<1>2. /\ first \in Nat /\ first + ppc = c + 1 /\ c \in Nat /\ j.head < c
      /\ ppc \in Nat /\ ppc >= 4
      /\ block_start(j.head) <= first /\ c < block_start(j.head) + ppb
  BY <1>1, HeadGroup
<1>3. ~Full(page, c) /\ is_erased(page, c) /\ is_erased(page, c - 1)
  BY <1>1, GroupFree DEF Full
<1>4. h \in Nat /\ first <= h /\ h < c /\ n \in Nat
  BY <1>2
<1>5. h \in UPages
  <2>1. j' \in Journals
    BY DEF Inv, TypeOK
  <2>2. Resumed([j EXCEPT !.head = h])
    OBVIOUS
  <2> HIDE DEF h
  <2>3. j'.head = h
    BY <1>1, <2>2 DEF Resumed, clear_recovery, Journals
  <2> QED BY <2>1, <2>3 DEF Journals
<1>6. h \in Pages /\ block_of(h) = block_of(r) /\ cp_page(h) = c
  <2>1. h \in Pages /\ block_of(h) = block_of(j.head)
    <3>1. block_start(j.head) <= h /\ h < block_start(j.head) + ppb
      <4>1. block_start(j.head) \in Nat /\ ppb \in Nat
        BY <1>1, BlockBounds, Sizes
      <4> QED BY <1>2, <1>4, <4>1
    <3> QED BY <3>1, <1>1, <1>4, InBlock
  <2>2. c \in CpPages /\ cp_page(h) \in CpPages /\ h < cp_page(h)
        /\ cp_page(h) - ppc < h /\ cp_page(h) \in Nat
    BY <1>1, <1>5, GroupBounds, GroupOrder
  <2>3. c >= cp_page(h)
    BY <1>4, <1>5, <2>2, GroupsApart
  <2>4. cp_page(h) >= c
    <3>1. CASE cp_page(h) > j.head
      BY <3>1, <1>1, <2>2, GroupsApart
    <3>2. CASE cp_page(h) < j.head
      <4>1. cp_page(h) <= c - ppc
        BY <3>2, <1>1, <2>2, GroupsApart
      <4> QED BY <4>1, <1>2, <1>4, <2>2
    <3>3. cp_page(h) # j.head /\ j.head \in Nat
      BY <1>1, <2>2, GroupOrder
    <3> QED BY <2>2, <3>1, <3>2, <3>3
  <2> QED BY <1>1, <1>2, <2>1, <2>2, <2>3, <2>4
<1>7. r + 1 < h
  <2>1. r + 1 # c
    BY <1>1, <1>3
  <2>2. r + 1 < cp_page(h)
    BY <1>1, <1>2, <1>6, <2>1 DEF Pages
  <2> QED BY <2>2, <1>1, <1>5, GroupOrder
<1>8. [j EXCEPT !.head = h] \in Journals
  BY <1>1, <1>5 DEF Journals
<1>9. /\ j'.head = h /\ j'.tail = t /\ j'.tail_sync = t /\ j'.root = r
      /\ ~j'.recovery /\ pc' = "idle"
  <2> DEFINE k == [j EXCEPT !.head = h]
  <2>1. k.head = h /\ k.tail = t /\ k.root = r
    BY <1>1 DEF Journals
  <2>2. Resumed(k)
    OBVIOUS
  <2> HIDE DEF k
  <2>3. k \in Journals
    BY <1>8 DEF k
  <2> QED BY <2>1, <2>2, <2>3, ResumedPointers
<1> HIDE DEF h, first, c, r, t
<1>10. ClearOf(t, h) /\ Before(t, r, h)
  <2>1. r <= h /\ r # h
    BY <1>1, <1>4, <1>7 DEF Pages
  <2>2. Onward(t, r, h)
    BY <1>1, <1>6, <2>1, OnwardInBlock
  <2>3. Upto(t, r, r)
    BY <1>1, OrderTrans
  <2> QED BY <1>1, <2>1, <2>2, <2>3 DEF Onward
<1>11. Filled(page, h)
  <2> SUFFICES ASSUME NEW x \in CpPages, block_of(x) = block_of(h), x < h
               PROVE  Full(page, x)
    BY DEF Filled
  <2>1. x < cp_page(j.head)
    BY <1>2, <1>4, CpPage DEF c
  <2>2. x < j.head
    BY <1>1, <2>1, GroupOrder
  <2> QED BY <1>1, <1>6, <2>2 DEF Filled
<1>12. ASSUME NEW x \in Pages, block_of(x) = block_of(h), x > c
       PROVE  is_erased(page, x)
  <2>1. c \in CpPages /\ block_of(c) = block_of(h)
    BY <1>1, <1>6, GroupBounds DEF c
  <2>2. ~is_erased(page, x) => Full(page, c)
    BY <1>1, <1>12, <2>1 DEF FlashOrder, Filled
  <2> QED BY <1>3, <2>2
<1>13. Fresh(page, t, h)
  <2>1. Ahead(page, h)
    BY <1>6, <1>12 DEF Ahead
  <2> DEFINE b == block_of(h)
             e == first_page(b) + ppb - 1
  <2>2. /\ e \in CpPages /\ e \in Pages /\ block_of(e) = b /\ e - 1 \in Pages
        /\ block_of(e - 1) = b /\ e \in Nat /\ e - 1 = first_page(b) + ppb - 2
        /\ e - 1 \in UPages
    <3>1. b \in Blocks /\ first_page(b) \in Nat /\ ppb \in Nat
      BY <1>6, BlockBounds, BlocksApart, Sizes
    <3>2. first_page(b) + ppb - 2 = e - 1
      BY <3>1
    <3> QED BY <3>1, <3>2, LastPages, CpPage DEF UPages
  <2>3. e >= c
    <3>1. block_start(h) = first_page(b) /\ c < block_start(h) + ppb
          /\ block_start(h) \in Nat /\ ppb \in Nat
      <4>1. block_start(j.head) = block_start(h)
        BY <1>1, <1>6 DEF block_start
      <4> QED BY <1>2, <1>6, <4>1, BlockBounds, Sizes DEF block_start
    <3> QED BY <3>1, <1>2
  <2> HIDE DEF e, b
  <2>4. is_erased(page, e) /\ is_erased(page, e - 1)
    <3>1. CASE e = c
      BY <3>1, <1>3
    <3>2. CASE e # c
      <4>1. e > c /\ e - 1 >= c
        BY <3>2, <2>2, <2>3, <1>2
      <4>2. e - 1 # c
        BY <1>1, <2>2, GroupOrder, GroupBounds DEF c
      <4>3. e - 1 > c
        BY <4>1, <4>2, <2>2, <1>2
      <4> QED BY <4>1, <4>3, <2>2, <1>12 DEF b
    <3> QED BY <3>1, <3>2
  <2>5. OpenEnd(page, block_of(h))
    BY <2>2, <2>4 DEF OpenEnd, e, b
  <2> QED BY <2>1, <2>5 DEF Fresh
<1>14. Resumes /\ pc \in Resuming
  BY <1>9 DEF Resumes, Resuming
<1>15. \A s \in Points : s.root = j'.root =>
         \A q \in DOMAIN s.live : Upto(j'.tail, q, j'.root)
  BY <1>1, <1>9
<1>16. Behind(j'.tail, j'.root, j'.head) /\ ClearOf(j'.tail, j'.head)
  BY <1>9, <1>10 DEF Behind
<1> QED BY <1>9, <1>11, <1>13, <1>14, <1>15, <1>16, ResumedKeeps

\* find_head leaves the last group of a block: the block is full.
LEMMA HeadLeavesKeeps ==
  ASSUME num_blocks >= 2, Inv, Inv', OrderInv, pc = "r_head", Observe,
         UNCHANGED <<page, call, crashes>>,
         NEW after \in Pages, after = first_page(next_block(block_of(j.head))),
         cp_page(j.head) = block_start(j.head) + ppb - 1,
         Full(page, cp_page(j.head)),
         Resumed(IF align_eq(after, move_head(j, after).tail, ppb)
                 THEN [move_head(j, after) EXCEPT
                         !.tail = first_page(next_block(block_of(@)))]
                 ELSE move_head(j, after))
  PROVE  OrderInv'
<1> DEFINE m == move_head(j, after)
           chased == [m EXCEPT !.tail = first_page(next_block(block_of(@)))]
           b == block_of(j.head)
           r == j.root
           t == j.tail
<1>1. /\ j \in Journals /\ j.head \in UPages /\ j.head \in Pages /\ t \in Pages
      /\ r \in UPages /\ r \in Pages /\ block_of(r) = b /\ ClearOf(t, r)
      /\ \A s \in Points : s.root = r =>
           /\ \A q \in DOMAIN s.live :
                /\ q \in Pages /\ Upto(t, q, r)
                /\ block_of(q) = next_block(b) => OpenEnd(page, b)
  BY RootFacts
<1>2. /\ b \in Blocks /\ after \in UPages /\ after = block_start(after)
      /\ next_block(b) \in Blocks /\ block_of(after) = next_block(b)
      /\ next_block(b) # b
  BY <1>1, BlockBounds, NextBlockApart DEF block_start
<1>3. ~OpenEnd(page, b)
  <2>1. cp_page(j.head) = first_page(b) + ppb - 1
    BY DEF block_start
  <2>2. cp_page(j.head) - 1 = first_page(b) + ppb - 2
    <3>1. first_page(b) \in Nat /\ ppb \in Nat
      BY <1>2, BlocksApart, Sizes
    <3> QED BY <2>1, <3>1
  <2> QED BY <2>1, <2>2 DEF OpenEnd, Full
<1>4. is_aligned(after, ppb)
  BY <1>2, AlignedBlock
<1>5. Filled(page, after)
  BY <1>2, <1>4, AlignedFilled
<1>6. /\ m \in Journals /\ m.head = after /\ m.tail = t /\ m.root = r
  BY <1>1, <1>2, MoveHeadType, MoveHeadPointers DEF SamePointers
<1>7. Resumes /\ pc \in Resuming
  BY DEF Resumes, Resuming, Resumed
<1>8. Upto(t, r, r) /\ r # after
  BY <1>1, <1>2, OrderTrans
<1>9. /\ after \in Pages /\ align_eq(after, t, ppb) <=> block_of(after) = block_of(t)
  BY <1>1, SameBlock
<1>10. Resumed(IF align_eq(after, m.tail, ppb) THEN chased ELSE m)
  OBVIOUS
<1> HIDE DEF m, b, t, r
<1>11. CASE block_of(t) # next_block(b)
  <2>1. /\ j'.head = after /\ j'.tail = t /\ j'.tail_sync = t /\ j'.root = r
        /\ ~j'.recovery
    BY <1>2, <1>6, <1>9, <1>10, <1>11, ResumedPointers
  <2>2. Onward(t, r, after)
    <3>1. after = first_page(next_block(block_of(r)))
      BY <1>1 DEF b
    <3> QED BY <1>1, <1>11, <3>1, OnwardNextBlock
  <2>3. ClearOf(t, after) /\ Before(t, r, after)
    BY <1>1, <1>8, <2>2 DEF Onward
  <2>4. Behind(j'.tail, j'.root, j'.head)
    BY <2>1, <2>3 DEF Behind
  <2>5. \A s \in Points : s.root = j'.root =>
          \A q \in DOMAIN s.live : Upto(j'.tail, q, j'.root)
    BY <1>1, <2>1
  <2> QED BY <1>4, <1>5, <1>7, <2>1, <2>3, <2>4, <2>5, ResumedKeeps
<1>12. CASE block_of(t) = next_block(b)
  <2> DEFINE u == first_page(next_block(block_of(t)))
  <2>1. chased \in Journals /\ chased.head = after /\ chased.tail = u /\ chased.root = r
    <3>1. u \in UPages
      BY <1>1, BlockBounds
    <3>2. chased = [m EXCEPT !.tail = u]
      BY <1>6 DEF Journals
    <3> HIDE DEF u, chased
    <3> QED BY <1>6, <3>1, <3>2 DEF Journals
  <2>2. Resumed(chased)
    BY <1>2, <1>6, <1>9, <1>10, <1>12
  <2> HIDE DEF chased, u
  <2>3. /\ j'.head = after /\ j'.tail = u /\ j'.tail_sync = u /\ j'.root = r
        /\ ~j'.recovery
    BY <2>1, <2>2, ResumedPointers
  <2>4. ASSUME NEW q \in Pages, Upto(t, q, r), block_of(q) # next_block(b)
        PROVE  Upto(u, q, r) /\ Before(u, r, after) /\ ClearOf(u, after)
    <3>1. /\ after = first_page(next_block(block_of(r)))
          /\ u = first_page(next_block(next_block(block_of(r))))
          /\ block_of(t) = next_block(block_of(r))
          /\ block_of(q) # next_block(block_of(r))
      BY <1>1, <1>12, <2>4 DEF b, u
    <3> QED BY <1>1, <2>4, <3>1, ChasedTail
  <2>5. Before(u, r, after) /\ ClearOf(u, after)
    BY <1>1, <1>2, <1>8, <2>4
  <2>6. \A s \in Points : s.root = j'.root =>
          \A q \in DOMAIN s.live : Upto(j'.tail, q, j'.root)
    BY <1>1, <1>3, <2>3, <2>4
  <2>7. Behind(j'.tail, j'.root, j'.head)
    BY <2>3, <2>5 DEF Behind
  <2> QED BY <1>4, <1>5, <1>7, <2>3, <2>5, <2>6, <2>7, ResumedKeeps
<1> QED BY <1>11, <1>12

\* find_head leaves a full group for the next one of the block.
LEMMA HeadMovesKeeps ==
  ASSUME Inv, Inv', OrderInv, pc = "r_head", Observe,
         UNCHANGED <<page, call, crashes, pc>>, Full(page, cp_page(j.head)),
         j' = move_head(j, cp_page(j.head) + 1),
         cp_page(j.head) + 1 \in Pages,
         block_of(cp_page(j.head) + 1) = block_of(j.head)
  PROVE  OrderInv'
<1> DEFINE c == cp_page(j.head)
           n == c + 1
<1>1. /\ j \in Journals /\ j.head \in UPages /\ j.head < c /\ c \in CpPages /\ c \in Nat
      /\ AtRoot /\ Filled(page, j.head)
  BY GroupBounds, GroupOrder DEF Inv, TypeOK, Journals, OrderInv, HeadInv
<1>2. j' \in Journals
  BY DEF Inv, TypeOK
<1>3. n \in UPages
  <2>1. j'.head = n
    <3>1. j' = move_head(j, n)
      OBVIOUS
    <3> HIDE DEF n
    <3> QED BY <1>1, <3>1 DEF move_head, roll_stats, Journals
  <2> QED BY <1>2, <2>1 DEF Journals
<1>4. n < cp_page(n) /\ cp_page(n) \in Nat
  BY <1>3, GroupBounds, GroupOrder
<1>5. SamePointers(j, j') /\ j'.head = n
  BY <1>1, <1>3, MoveHeadPointers
<1> HIDE DEF c, n
<1>6. AtRoot'
  <2>1. j.root \in UPages /\ j.root < c /\ j.root \in Nat
    BY <1>1 DEF AtRoot, c, UPages, Pages
  <2>2. j.root < cp_page(n)
    BY <1>1, <1>4, <2>1 DEF n
  <2> QED BY <1>1, <1>5, <2>2 DEF AtRoot, SamePointers, c, n
<1>7. Filled(page, n)
  <2> SUFFICES ASSUME NEW x \in CpPages, block_of(x) = block_of(n), x < n
               PROVE  Full(page, x)
    BY DEF Filled
  <2>1. x = c \/ x < c
    <3>1. x \in Nat
      BY CpPage
    <3> QED BY <1>1, <3>1 DEF n
  <2>2. x < c => x < j.head
    BY <1>1, GroupOrder DEF c
  <2> QED BY <1>1, <2>1, <2>2 DEF Filled, c, n
<1> QED BY <1>5, <1>6, <1>7, SearchKeeps DEF Resuming

\* An iteration of find_head.
LEMMA FindHeadKeeps ==
  ASSUME num_blocks >= 2, Inv, Inv', OrderInv, FindHead, Observe
  PROVE  OrderInv'
<1> DEFINE first == align_down(j.head, ppc)
           after == IF first + ppc >= chip_size THEN 0 ELSE first + ppc
           m == move_head(j, after)
           chased == [m EXCEPT !.tail = first_page(next_block(block_of(@)))]
<1>1. /\ pc = "r_head" /\ UNCHANGED <<page, call, crashes>> /\ j.head \in UPages
      /\ j.head \in Pages
  BY DEF FindHead, Inv, TypeOK, Journals, UPages
<1>2. PICK n \in 0 .. ppc :
        /\ trailing_free(first, n)
        /\ \/ n > 1 /\ Resumed([j EXCEPT !.head = first + ppc - n])
           \/ /\ n <= 1 /\ is_aligned(after, ppb)
              /\ Resumed(IF align_eq(after, m.tail, ppb) THEN chased ELSE m)
           \/ n <= 1 /\ ~is_aligned(after, ppb) /\ j' = m /\ UNCHANGED pc
  BY DEF FindHead
<1>3. /\ is_aligned(after, ppb) =>
           /\ after = first_page(next_block(block_of(j.head)))
           /\ cp_page(j.head) = block_start(j.head) + ppb - 1
      /\ ~is_aligned(after, ppb) =>
           /\ after = cp_page(j.head) + 1 /\ after \in Pages
           /\ block_of(after) = block_of(j.head)
  BY <1>1, HeadGroup
<1>4. n <= 1 => Full(page, cp_page(j.head))
  BY <1>1, <1>2, GroupFree
<1>5. CASE n > 1 /\ Resumed([j EXCEPT !.head = first + ppc - n])
  BY <1>1, <1>2, <1>5, HeadFoundKeeps
<1>6. CASE /\ n <= 1 /\ is_aligned(after, ppb)
           /\ Resumed(IF align_eq(after, m.tail, ppb) THEN chased ELSE m)
  <2>1. after \in Pages
    BY <1>1, <1>3, <1>6, BlockBounds
  <2> HIDE DEF after
  <2> QED BY <1>1, <1>3, <1>4, <1>6, <2>1, HeadLeavesKeeps
<1>7. CASE n <= 1 /\ ~is_aligned(after, ppb) /\ j' = m /\ UNCHANGED pc
  <2> HIDE DEF after
  <2> QED BY <1>1, <1>3, <1>4, <1>7, HeadMovesKeeps
<1> QED BY <1>2, <1>5, <1>6, <1>7

-----------------------------------------------------------------------------
(* The theorems                                                            *)

\* The flash is blank and nothing is saved.
LEMMA InitOrder == HInit => OrderInv
<1> SUFFICES ASSUME HInit PROVE OrderInv
  OBVIOUS
<1>1. /\ pc = "resume" /\ call = NoCall /\ saved = NothingSaved /\ mids = {}
      /\ page = [p \in Pages |-> Erased]
  BY DEF HInit, Init
<1>2. \A p \in Pages : is_erased(page, p) /\ page[p].kind = "erased"
  BY <1>1 DEF is_erased, Erased
<1>3. FlashOrder(page)
  BY <1>2, CpPage DEF FlashOrder
<1>4. \A s \in Points : PointOK(page, s)
  BY <1>1, NothingSavedOK DEF Points
<1> QED
  BY <1>1, <1>3, <1>4
  DEF OrderInv, RingInv, PlaceInv, ListsInv, FlashInv, HeadInv, Entered, Running,
      Resuming, NoCall

\* Every step keeps the invariant.
LEMMA NextOrder ==
  ASSUME num_blocks >= 2, Inv, OrderInv, [HNext]_hvars
  PROVE  Inv' /\ OrderInv'
<1>1. CASE UNCHANGED hvars
  <2>1. UNCHANGED vars
    BY <1>1 DEF hvars
  <2>2. Inv'
    BY <2>1, NextInv
  <2>3. Points' = Points /\ Running' = Running
    BY <1>1 DEF hvars, vars, Points, Running
  <2>4. RingInv' /\ PlaceInv'
    BY <1>1, <2>3 DEF hvars, vars, OrderInv, RingInv, PlaceInv
  <2>5. ListsInv' /\ FlashInv'
    BY <1>1, <2>3 DEF hvars, vars, OrderInv, ListsInv, FlashInv
  <2>6. HeadInv'
    BY <1>1, <2>3 DEF hvars, vars, OrderInv, HeadInv, Entered, AtRoot
  <2> QED BY <2>2, <2>4, <2>5, <2>6 DEF OrderInv
<1>2. CASE HNext
  <2>1. Next /\ Observe
    BY <1>2 DEF HNext, Next, CallStep, ResumeStep, ClientStep
  <2>2. Inv'
    BY <2>1, NextInv
  <2>3. CASE SkipBad
    BY <2>1, <2>2, <2>3, SkipBadKeeps
  <2>4. CASE EraseOk
    BY <2>1, <2>2, <2>4, EraseOkKeeps
  <2>5. CASE EraseFails
    BY <2>1, <2>2, <2>5, EraseFailsKeeps
  <2>6. CASE ProgramFails \/ CheckpointFails
    BY <2>1, <2>2, <2>6, FailedProgramKeeps DEF ProgramFails, CheckpointFails
  <2>7. CASE PushMeta
    BY <2>1, <2>2, <2>7, PushMetaKeeps
  <2>8. CASE DumpMeta
    BY <2>1, <2>2, <2>8, DumpMetaKeeps
  <2>9. CASE CopyUnreadable
    BY <2>1, <2>2, <2>9, CopyUnreadableKeeps
  <2>10. CASE Checkpoint
    BY <2>1, <2>2, <2>10, CheckpointKeeps
  <2>11. CASE FindFirst \/ FindLast
    BY <2>1, <2>2, <2>11, FindBlockKeeps
  <2>12. CASE FindGroup
    BY <2>1, <2>2, <2>12, FindGroupKeeps
  <2>13. CASE FindHead
    BY <2>1, <2>2, <2>13, FindHeadKeeps
  <2>14. CASE Enqueue \/ Copy \/ Pad \/ Clear
    BY <2>1, <2>2, <2>14, ClientKeeps
  <2>15. CASE Gc
    BY <2>1, <2>2, <2>15, GcKeeps
  <2>16. CASE Recover
    BY <2>1, <2>2, <2>16, RecoverKeeps
  <2>17. CASE Crash
    BY <2>1, <2>2, <2>17, CrashKeeps
  <2> QED
    BY <1>2, <2>2, <2>3, <2>4, <2>5, <2>6, <2>7, <2>8, <2>9, <2>10, <2>11, <2>12,
       <2>13, <2>14, <2>15, <2>16, <2>17 DEF HNext
<1> QED BY <1>1, <1>2

\* The pointers, the client's pages and the flash are in ring order whatever
\* fails and whenever power is lost, on every chip of two blocks or more.
THEOREM OrderInvariant == ASSUME num_blocks >= 2 PROVE HSpec => [](Inv /\ OrderInv)
<1>1. HInit => Inv /\ OrderInv
  BY InitInv, InitOrder DEF HInit
<1>2. Inv /\ OrderInv /\ [HNext]_hvars => (Inv /\ OrderInv)'
  BY NextOrder
<1> QED BY <1>1, <1>2, PTL DEF HSpec

\* prepare_head never erases a block with a page that is accepted or that the
\* last synchronization point still needs.
THEOREM ErasingSparesLivePages == ASSUME num_blocks >= 2 PROVE HSpec => []EraseSparesLive
<1>1. ASSUME Inv, OrderInv PROVE EraseSparesLive
  <2> SUFFICES ASSUME pc = "scan", NEW p \in DOMAIN accepted \cup DOMAIN saved.live
               PROVE  block_of(p) # block_of(j.head)
    BY DEF EraseSparesLive, erasing
  <2>1. /\ j.head \in Pages /\ j.tail \in Pages /\ j.tail_sync \in Pages
        /\ is_aligned(j.head, ppb) /\ ClearOf(j.tail_sync, j.head) /\ Running
        /\ RingOK(j, call.dumping) /\ saved \in Points
        /\ PointOK(page, saved) /\ Held(saved, j.tail_sync, j.head)
    BY <1>1, CallFacts DEF Points
  <2>2. CASE p \in DOMAIN accepted
    <3>1. p \in queue(j.tail, j.head)
      BY <1>1, <2>1, <2>2 DEF OrderInv, ListsInv
    <3>2. p \in Pages /\ Before(j.tail, p, j.head)
      BY <3>1, InQueue DEF UPages
    <3>3. Before(j.tail_sync, p, j.head)
      BY <2>1, <3>2, TailMoves DEF RingOK
    <3> QED BY <2>1, <3>2, <3>3, BlockIsSpared
  <2>3. CASE p \in DOMAIN saved.live
    <3>1. /\ p \in Pages /\ saved.root \in Pages
          /\ Upto(j.tail_sync, p, saved.root)
          /\ Before(j.tail_sync, saved.root, j.head)
      BY <2>1, <2>3, PointPages DEF Held
    <3>2. Before(j.tail_sync, p, j.head)
      BY <2>1, <3>1, OrderTrans
    <3> QED BY <2>1, <3>1, <3>2, BlockIsSpared
  <2> QED BY <2>2, <2>3
<1> QED BY <1>1, OrderInvariant, PTL

\* The head never catches up with the root, with a tail, or with a page that is
\* accepted or that the last synchronization point still needs.
THEOREM RingIsOrdered == ASSUME num_blocks >= 2 PROVE HSpec => []RingOrder
<1>1. ASSUME Inv, OrderInv PROVE RingOrder
  <2> SUFFICES ASSUME pc = "idle"
               PROVE  /\ Upto(j.tail_sync, j.tail, j.head)
                      /\ j.root # PAGE_NONE => j.root \in queue(j.tail_sync, j.head)
                      /\ DOMAIN accepted \subseteq queue(j.tail, j.head)
                      /\ DOMAIN saved.live \subseteq queue(j.tail_sync, j.head)
    BY DEF RingOrder, Upto
  <2>1. /\ j \in Journals /\ Running /\ RingOK(j, call.dumping)
        /\ DOMAIN accepted \subseteq queue(j.tail, j.head)
        /\ Held(saved, j.tail_sync, j.head) /\ PointOK(page, saved)
    BY <1>1
    DEF Inv, TypeOK, Running, Resuming, OrderInv, RingInv, ListsInv, FlashInv, Points
  <2>2. j.root # PAGE_NONE => j.root \in queue(j.tail_sync, j.head)
    BY <2>1, InQueue DEF RingOK, Behind, Journals, UPagesOrNone
  <2>3. ASSUME NEW q \in DOMAIN saved.live PROVE q \in queue(j.tail_sync, j.head)
    <3>1. q \in UPages /\ q \in Pages /\ saved.root \in Pages
      BY <2>1, PointPages
    <3>2. /\ Upto(j.tail_sync, q, saved.root)
          /\ Before(j.tail_sync, saved.root, j.head)
          /\ j.tail_sync \in Pages /\ j.head \in Pages
      BY <2>1 DEF Held, Journals, UPages
    <3>3. Before(j.tail_sync, q, j.head)
      BY <3>1, <3>2, OrderTrans
    <3> QED BY <3>1, <3>3, InQueue
  <2> QED BY <2>1, <2>2, <2>3 DEF RingOK
<1> QED BY <1>1, OrderInvariant, PTL

=============================================================================
