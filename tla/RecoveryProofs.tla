--------------------------- MODULE RecoveryProofs ---------------------------
(***************************************************************************)
(* Five properties of module JournalHistory, each by an invariant of its   *)
(* own on top of that of module JournalHistoryProofs:                      *)
(*   RecoveryIsComplete  what a recovery hands out         (OwedInv)       *)
(*   ProgramsInOrder     where the head programs  (BlockInv and BlankInv)  *)
(*   AcceptedIntact      what a restart comes back to      (IntactInv)     *)
(*   RootInQueue         where the root is                 (RootedInv)     *)
(*   ResumeFindsCheckpoint  the checkpoint a restart finds  (FoundInv)     *)
(***************************************************************************)
EXTENDS JournalHistoryProofs

-----------------------------------------------------------------------------
(* The root is the last accepted page                                      *)

\* The root of journal k is in the queue, and none of the pages S behind it.
RootIsLast(k, S) ==
  \A p \in S : k.root \in queue(k.tail, k.head) /\ Upto(k.tail, p, k.root)

\* Journal b has passed the root of a if it has given it up.
KeepsRoot(a, b) ==
  b.tail = b.head \/ (Upto(b.tail, a.root, a.head) => b.root = a.root)

\* In the block of a page, what the ring has up to the page is not above it.
LEMMA BeforeInBlock ==
  ASSUME NEW f \in Pages, NEW h \in Pages, NEW r \in Pages, NEW p \in Pages,
         ClearOf(f, h), Before(f, r, h), Upto(f, p, r), block_of(p) = block_of(r)
  PROVE  p <= r
<1>1. /\ f \in Nat /\ h \in Nat /\ r \in Nat /\ p \in Nat
      /\ f < chip_size /\ h < chip_size /\ r < chip_size /\ p < chip_size
      /\ ring_distance(f, r) = IF r >= f THEN r - f ELSE r + chip_size - f
      /\ ring_distance(f, p) = IF p >= f THEN p - f ELSE p + chip_size - f
      /\ ring_distance(f, h) = IF h >= f THEN h - f ELSE h + chip_size - f
      /\ chip_size \in Nat /\ ppb \in Nat
  BY Distance
<1>2. /\ block_start(p) = block_start(r) /\ block_start(r) <= r
      /\ block_start(p) <= p /\ p < block_start(r) + ppb
      /\ block_start(r) \in Nat
  BY BlockBounds, SameBlock
<1>3. /\ block_of(f) = block_of(h) => f <= h
      /\ block_of(f) = block_of(h) <=> block_start(f) = block_start(h)
      /\ block_start(f) \in Nat /\ block_start(f) <= f /\ f < block_start(f) + ppb
      /\ block_start(h) \in Nat /\ block_start(h) <= h /\ h < block_start(h) + ppb
      /\ \/ block_start(f) = block_start(h)
         \/ block_start(f) + ppb <= block_start(h)
         \/ block_start(h) + ppb <= block_start(f)
      /\ \/ block_start(f) = block_start(r)
         \/ block_start(f) + ppb <= block_start(r)
         \/ block_start(r) + ppb <= block_start(f)
  BY BlockBounds, SameBlock DEF ClearOf
<1>4. SUFFICES ASSUME p > r PROVE FALSE
  BY <1>1
<1>5. r < f /\ f <= p
  BY <1>1, <1>4 DEF Upto
<1>6. h < f /\ r < h
  BY <1>1, <1>5 DEF Before
<1>7. block_start(f) = block_start(r) /\ block_start(h) = block_start(f)
  BY <1>1, <1>2, <1>3, <1>5, <1>6
<1> QED BY <1>1, <1>3, <1>6, <1>7

\* A tail that moves on takes the accepted pages it passes out of the queue,
\* and the root only behind the last of them.
LEMMA LastStays ==
  ASSUME NEW a \in Journals, NEW b \in Journals, TailAdvances(a, b), KeepsRoot(a, b),
         NEW S, S \subseteq queue(a.tail, a.head), RootIsLast(a, S)
  PROVE  RootIsLast(b, S \ queue(a.tail, b.tail))
<1> SUFFICES ASSUME NEW p \in S \ queue(a.tail, b.tail)
             PROVE  b.root \in queue(b.tail, b.head) /\ Upto(b.tail, p, b.root)
  BY DEF RootIsLast
<1>1. /\ a.tail \in Pages /\ a.head \in Pages /\ b.tail \in Pages /\ b.head = a.head
      /\ Upto(a.tail, b.tail, a.head)
  BY DEF Journals, UPages, TailAdvances
<1>2. p \in UPages /\ p \in Pages /\ Before(a.tail, p, a.head) /\ ~Before(a.tail, p, b.tail)
  BY InQueue DEF UPages
<1>3. /\ a.root \in UPages /\ a.root \in Pages /\ Before(a.tail, a.root, a.head)
      /\ Upto(a.tail, p, a.root)
  BY InQueue DEF UPages, RootIsLast
<1>4. Upto(a.tail, b.tail, p) /\ b.tail # b.head
  BY <1>1, <1>2, OrderTrans
<1>5. Upto(a.tail, b.tail, a.root)
  BY <1>1, <1>2, <1>3, <1>4, OrderTrans
<1>6. Upto(b.tail, p, a.root) /\ Before(b.tail, a.root, a.head)
  BY <1>1, <1>2, <1>3, <1>4, <1>5, TailMoves
<1>7. b.root = a.root
  BY <1>1, <1>3, <1>4, <1>6, OrderTrans DEF KeepsRoot
<1> QED BY <1>1, <1>3, <1>6, <1>7, InQueue

\* A page that is accepted at the head becomes the root.
LEMMA LastAccepts ==
  ASSUME NEW t \in Pages, NEW h \in UPages, NEW k \in Journals, NEW S,
         k.tail = t, k.root = h, h \in queue(t, k.head), S \subseteq queue(t, h)
  PROVE  RootIsLast(k, S \cup {h})
<1> SUFFICES ASSUME NEW p \in S \cup {h} PROVE Upto(t, p, h)
  BY DEF RootIsLast
<1>1. p = h \/ (p \in Pages /\ Before(t, p, h))
  BY InQueue DEF UPages
<1> QED BY <1>1, OrderTrans DEF UPages

-----------------------------------------------------------------------------
(* The inductive invariant                                                 *)

\* Outside recovery every accepted page is at the root or before it.
LastInv == ~j.recovery => RootIsLast(j, DOMAIN accepted)

\* The head is no longer in the block that is recovered.
LeftInv ==
  (j.recovery \/ call.dumping) /\ j.recover_root # PAGE_NONE =>
    block_of(j.head) # block_of(j.recover_root)

\* The recovery of a page starts at the first page of its block.
StartInv ==
  call.dumping =>
    j.recover_root = j.root /\ j.recover_next = recover_start(j.root)

\* None of the pages S lies behind page r in its block.
Covered(S, r) == \A p \in S : block_of(p) = block_of(r) => p <= r

\* The accepted pages of the block that is recovered are at its root or before
\* it; those that are owed to the client are still to be handed out.
OwedByWalk ==
  /\ Covered(DOMAIN accepted, j.recover_root)
  /\ j.enum_done => owed = {}
  /\ \A p \in owed : /\ p \in UPages /\ block_of(p) = block_of(j.recover_root)
                     /\ j.recover_next <= p /\ p <= j.recover_root
  /\ j.recover_root # PAGE_NONE =>
       /\ j.recover_next \in UPages /\ j.recover_next <= j.recover_root
       /\ block_of(j.recover_next) = block_of(j.recover_root)

OwedInv ==
  Running => LastInv /\ LeftInv /\ StartInv /\ (j.recovery => OwedByWalk)

\* Whatever page is the root, a recovery of its block covers what is accepted.
LEMMA LastCovers ==
  ASSUME NEW k \in Journals, NEW d, RingOK(k, d), NEW S, S \subseteq queue(k.tail, k.head),
         RootIsLast(k, S)
  PROVE  Covered(S, k.root)
<1> SUFFICES ASSUME NEW p \in S, block_of(p) = block_of(k.root) PROVE p <= k.root
  BY DEF Covered
<1>1. /\ k.tail \in Pages /\ k.tail_sync \in Pages /\ k.head \in Pages
      /\ ClearOf(k.tail_sync, k.head) /\ Upto(k.tail_sync, k.tail, k.head)
  BY DEF Journals, UPages, RingOK
<1>2. /\ p \in Pages /\ k.root \in Pages /\ Before(k.tail, k.root, k.head)
      /\ Upto(k.tail, p, k.root)
  BY InQueue DEF UPages, RootIsLast
<1>3. ClearOf(k.tail, k.head)
  BY <1>1, ClearTail
<1> QED BY <1>1, <1>2, <1>3, BeforeInBlock

\* PAGE_NONE is in no block of the chip.
LEMMA OutsideBlocks == block_of(PAGE_NONE) \notin Blocks
<1>1. /\ PAGE_NONE \in Nat /\ PAGE_NONE >= chip_size /\ ppb \in Nat \ {0}
      /\ chip_size = num_blocks * ppb /\ num_blocks \in Nat
  BY Sizes, GeometryAssumption
<1>2. PAGE_NONE = ((PAGE_NONE \div ppb) * ppb) + (PAGE_NONE % ppb)
      /\ PAGE_NONE % ppb \in 0 .. (ppb - 1) /\ PAGE_NONE \div ppb \in Nat
  BY <1>1, DivMod
<1> DEFINE b == PAGE_NONE \div ppb
<1>3. SUFFICES ASSUME b < num_blocks PROVE FALSE
  BY <1>1, <1>2 DEF block_of, Blocks
<1>4. b \in Nat /\ (num_blocks - b) \in Nat /\ num_blocks - b >= 1
  BY <1>1, <1>2, <1>3
<1> HIDE DEF b
<1>5. (b * ppb) + ppb <= num_blocks * ppb
  <2>1. num_blocks * ppb = (b * ppb) + ((num_blocks - b) * ppb)
    BY <1>1, <1>4
  <2>2. (num_blocks - b) * ppb >= ppb
    BY <1>1, <1>4
  <2> QED BY <1>1, <1>4, <2>1, <2>2
<1> QED BY <1>1, <1>2, <1>4, <1>5 DEF b

\* A recovery that begins, or begins again, owes the accepted pages of its block.
LEMMA WalkBegins ==
  ASSUME Observe, Running, ~Crashes, ~Resumes, StartsRecovery, j' \in Journals,
         j'.recover_next = recover_start(j'.recover_root), ~j'.enum_done,
         Covered(DOMAIN accepted, j'.recover_root),
         DOMAIN accepted \subseteq UPages, DOMAIN accepted' \subseteq DOMAIN accepted
  PROVE  OwedByWalk'
<1>1. owed' = {p \in DOMAIN accepted : align_eq(p, j'.recover_root, ppb)}
  BY DEF Observe, Running
<1>2. CASE j'.recover_root = PAGE_NONE
  <2>1. ASSUME NEW p \in Pages PROVE ~align_eq(p, PAGE_NONE, ppb)
    <3>1. block_of(p) \in Blocks
      BY <2>1, BlockOf
    <3>2. block_of(PAGE_NONE) \notin Blocks
      BY OutsideBlocks
    <3> QED BY <3>1, <3>2 DEF align_eq, block_of
  <2>2. owed' = {}
    BY <1>1, <1>2, <2>1 DEF UPages
  <2> QED BY <1>2, <2>2 DEF OwedByWalk, Covered
<1>3. CASE j'.recover_root # PAGE_NONE
  <2> DEFINE r == j'.recover_root
  <2>1. r \in UPages /\ r \in Pages
    BY <1>3 DEF Journals, UPagesOrNone, UPages
  <2>2. j'.recover_next = block_start(r)
    BY <2>1, AlignDownBlock DEF recover_start, block_start
  <2>3. block_start(r) \in UPages /\ block_start(r) <= r /\ block_of(block_start(r)) = block_of(r)
    BY <2>1, BlockBounds
  <2>4. ASSUME NEW p \in owed'
        PROVE  /\ p \in UPages /\ block_of(p) = block_of(r)
               /\ block_start(r) <= p /\ p <= r
    <3>1. p \in DOMAIN accepted /\ p \in UPages /\ p \in Pages /\ block_of(p) = block_of(r)
      BY <1>1 DEF align_eq, block_of, UPages
    <3>2. block_start(p) <= p /\ block_start(p) = block_start(r)
      BY <2>1, <3>1, BlockBounds, SameBlock
    <3> QED BY <3>1, <3>2 DEF Covered
  <2>5. Covered(DOMAIN accepted', r)
    BY DEF Covered
  <2> QED BY <2>1, <2>2, <2>3, <2>4, <2>5 DEF OwedByWalk
<1> QED BY <1>2, <1>3

\* Where the head goes: on in its block, or to the start of another one.
HeadGoes(a, b) == block_of(b.head) = block_of(a.head) \/ is_aligned(b.head, ppb)

\* What the invariants say of a running journal.
LEMMA RunningFacts ==
  ASSUME Inv, OrderInv, Running
  PROVE  /\ j \in Journals /\ RecoveryFields(j) /\ RingOK(j, call.dumping)
         /\ DOMAIN accepted \subseteq queue(j.tail, j.head)
         /\ DOMAIN accepted \subseteq UPages
         /\ j.tail \in Pages /\ j.tail_sync \in Pages /\ j.head \in Pages
         /\ j.head \in UPages /\ j.root \in UPagesOrNone
         /\ call.dumping => ~j.recovery
         /\ j.recovery \in BOOLEAN /\ call.dumping \in BOOLEAN
<1>1. /\ j \in Journals /\ RecoveryFields(j) /\ RingOK(j, call.dumping)
      /\ DOMAIN accepted \subseteq queue(j.tail, j.head)
      /\ call.dumping => ~j.recovery
  BY DEF Inv, TypeOK, RecoveryState, OrderInv, RingInv, ListsInv
<1>2. call.dumping \in BOOLEAN
  BY DEF Inv, TypeOK, CallRecords
<1> QED BY <1>1, <1>2 DEF queue, Journals, UPages

\* A head at the start of a block has left the one that is recovered.
LEMMA LeftAtStart ==
  ASSUME NEW k \in Journals, NEW d, RingOK(k, d), k.recovery \/ d,
         k.recover_root # PAGE_NONE, is_aligned(k.head, ppb)
  PROVE  block_of(k.head) # block_of(k.recover_root)
<1>1. /\ k.recover_root \in Pages /\ k.head \in Pages /\ k.tail_sync \in Pages
      /\ Before(k.tail_sync, k.recover_root, k.head) /\ ClearOf(k.tail_sync, k.head)
  BY DEF Journals, UPagesOrNone, UPages, RingOK, Behind
<1> QED BY <1>1, BlockIsSpared

\* A step that neither begins a recovery nor hands out a page of one.
LEMMA OwedStays ==
  ASSUME Inv, Inv', OrderInv, OrderInv', OwedInv, Observe, Running, Running', ~Crashes,
         ~Resumes, ~StartsRecovery, ~HandsOut, SameRecovery(j, j'), HeadGoes(j, j'),
         call'.dumping => call.dumping /\ j'.root = j.root,
         DOMAIN accepted' \subseteq DOMAIN accepted \cup {j.head},
         LastInv'
  PROVE  OwedInv'
<1>1. /\ j' \in Journals /\ RingOK(j', call'.dumping)
      /\ j'.recovery = j.recovery /\ j'.recover_root = j.recover_root
      /\ j'.recover_next = j.recover_next /\ j'.enum_done = j.enum_done
  BY DEF Inv, TypeOK, OrderInv, RingInv, SameRecovery
<1>2. LeftInv'
  <2>1. SUFFICES ASSUME j'.recovery \/ call'.dumping, j.recover_root # PAGE_NONE
                 PROVE  block_of(j'.head) # block_of(j.recover_root)
    BY <1>1 DEF LeftInv
  <2>2. CASE is_aligned(j'.head, ppb)
    BY <1>1, <2>1, <2>2, LeftAtStart
  <2>3. CASE block_of(j'.head) = block_of(j.head)
    BY <1>1, <2>1, <2>3 DEF OwedInv, LeftInv
  <2> QED BY <2>2, <2>3 DEF HeadGoes
<1>3. StartInv'
  BY <1>1 DEF OwedInv, StartInv
<1>4. ASSUME j'.recovery PROVE OwedByWalk'
  <2>1. owed' = owed
    BY DEF Observe, Running
  <2>2. OwedByWalk
    BY <1>1, <1>4 DEF OwedInv
  <2>3. Covered(DOMAIN accepted', j.recover_root)
    <3>1. ASSUME block_of(j.head) = block_of(j.recover_root)
          PROVE  j.head <= j.recover_root
      <4>1. j.recover_root = PAGE_NONE
        BY <1>1, <1>4, <3>1 DEF OwedInv, LeftInv
      <4>2. j.head \in Nat /\ j.head < chip_size
        BY RunningFacts, BlockBounds
      <4> QED BY <4>1, <4>2, Sizes, GeometryAssumption
    <3> QED BY <2>2, <3>1 DEF OwedByWalk, Covered
  <2> QED BY <1>1, <2>1, <2>2, <2>3 DEF OwedByWalk
<1> QED BY <1>2, <1>3, <1>4 DEF OwedInv

\* A step that leaves the journal out of recovery.
LEMMA OwedEnds ==
  ASSUME ~j'.recovery, ~call'.dumping, LastInv'
  PROVE  OwedInv'
BY DEF OwedInv, LeftInv, StartInv

\* The accepted pages after a step.
LEMMA AcceptedAfter ==
  ASSUME Observe, Running, ~Crashes
  PROVE  /\ DOMAIN accepted' \subseteq (DOMAIN accepted \cup {j.head}) \ queue(j.tail, j'.tail)
         /\ ~Accepts => DOMAIN accepted' \subseteq DOMAIN accepted \ queue(j.tail, j'.tail)
<1>1. DOMAIN accepted' =
        ((DOMAIN accepted \ Released) \cup (IF Accepts THEN {j.head} ELSE {}))
          \ queue(j.tail, j'.tail)
  BY Observed
<1> QED BY <1>1

\* The root and the tail stay and the head moves on.
LEMMA LastOnward ==
  ASSUME NEW a, NEW b, NEW S, NEW T, RootIsLast(a, S), T \subseteq S,
         b.root = a.root, b.tail = a.tail,
         queue(a.tail, a.head) \subseteq queue(b.tail, b.head)
  PROVE  RootIsLast(b, T)
BY DEF RootIsLast

\* A step whose tail moves on and which accepts nothing.
LEMMA OwedTail ==
  ASSUME Inv, Inv', OrderInv, OrderInv', OwedInv, Observe, Running, Running', ~Crashes,
         ~Resumes, ~StartsRecovery, ~HandsOut, SameRecovery(j, j'), ~Accepts,
         ~call'.dumping, NEW k \in Journals, TailAdvances(j, k), KeepsRoot(j, k),
         SamePointers(k, j'), j'.head = k.head
  PROVE  OwedInv'
<1>1. /\ j \in Journals /\ j' \in Journals /\ DOMAIN accepted \subseteq queue(j.tail, j.head)
      /\ j'.recovery = j.recovery
  BY RunningFacts DEF Inv, TypeOK, SameRecovery
<1>2. /\ j'.tail = k.tail /\ j'.root = k.root /\ j'.head = j.head /\ k.head = j.head
  BY DEF SamePointers, TailAdvances
<1>3. DOMAIN accepted' \subseteq DOMAIN accepted \ queue(j.tail, j'.tail)
  BY AcceptedAfter
<1>4. LastInv'
  <2>1. SUFFICES ASSUME ~j'.recovery PROVE RootIsLast(j', DOMAIN accepted')
    BY DEF LastInv
  <2>2. RootIsLast(j, DOMAIN accepted)
    BY <1>1, <2>1 DEF OwedInv, LastInv
  <2>3. RootIsLast(k, DOMAIN accepted \ queue(j.tail, k.tail))
    BY <1>1, <2>2, LastStays
  <2> QED BY <1>2, <1>3, <2>3 DEF RootIsLast
<1>5. HeadGoes(j, j')
  BY <1>2 DEF HeadGoes
<1>6. DOMAIN accepted' \subseteq DOMAIN accepted \cup {j.head}
  BY <1>3
<1> QED BY <1>4, <1>5, <1>6, OwedStays

-----------------------------------------------------------------------------
(* Failures                                                                *)

\* What a failed command makes of a recovery: nothing, when the journal is full
\* or the block can be skipped outside one; it begins again; or one begins, at
\* once or after the metadata is dumped.
FailureKept ==
  /\ SameRecovery(j, j') /\ j'.root = j.root
  /\ call'.dumping => call.dumping
  /\ j.recovery => ~can_skip(j)
FailureRestarts ==
  /\ j.recovery /\ j'.recovery /\ can_skip(j) /\ call' = NoCall
  /\ j'.recover_root = j.recover_root /\ ~j'.enum_done
  /\ j'.recover_next = recover_start(j.recover_root)
FailureStarts ==
  /\ ~j.recovery /\ can_skip(j) /\ j'.root = j.root
  /\ j'.recover_root = j.root /\ ~j'.enum_done
  /\ j'.recover_next = recover_start(j.root)
  /\ j'.recovery \/ call'.dumping => is_aligned(j'.head, ppb)

\* A failed command does one of these.
LEMMA BadBlockKinds ==
  ASSUME Inv, BadBlock
  PROVE  /\ FailureKept \/ FailureRestarts \/ FailureStarts
         /\ fails' # fails
<1>1. /\ j \in Journals /\ call \in CallRecords /\ RecoveryFields(j)
      /\ call.dumping => ~j.recovery
      /\ fails' # fails
  BY DEF Inv, TypeOK, RecoveryState, BadBlock
<1> DEFINE sk == skip_block(counted)
           start == [sk EXCEPT !.recover_root = j.root,
                               !.recover_next = recover_start(j.root)]
<1>2. /\ counted \in Journals /\ SameRecovery(j, counted) /\ counted.root = j.root
      /\ counted.head = j.head /\ counted.tail_sync = j.tail_sync
  BY <1>1, CountedType DEF counted, Journals
<1>3. /\ sk \in Journals /\ SameRecovery(j, sk) /\ sk.root = j.root
  BY <1>2, SkipBlockType DEF SameRecovery
<1>4. can_skip(counted) <=> can_skip(j)
  BY <1>2 DEF can_skip
<1> HIDE DEF sk
<1>5. /\ start \in Journals /\ start.root = j.root /\ start.recover_root = j.root
      /\ start.recover_next = recover_start(j.root) /\ start.recovery = j.recovery
      /\ start.enum_done = j.enum_done /\ is_aligned(start.head, ppb)
  <2>1. is_aligned(sk.head, ppb)
    BY <1>1, SkippedPointers DEF sk
  <2> QED BY <1>1, <1>3, <2>1, RecoverStart DEF Journals, SameRecovery
<1>6. ~NoCall.dumping
  BY DEF NoCall
<1>7. ASSUME NEW k \in Journals, NEW c \in CallRecords, prepare_head(k, c)
      PROVE  /\ SameRecovery(k, j') /\ j'.root = k.root /\ j'.head = k.head
             /\ call' = NoCall \/ call'.dumping = c.dumping
  <2>1. CASE Return(k, "JOURNAL_FULL")
    BY <2>1 DEF Return, SameRecovery
  <2>2. CASE j' = [k EXCEPT !.dirty = TRUE] /\ call' = [c EXCEPT !.scans = 0]
    BY <2>2, <1>7 DEF SameRecovery, Journals, CallRecords
  <2> QED BY <1>7, <2>1, <2>2 DEF prepare_head
<1>8. ASSUME Return(counted, "JOURNAL_FULL"), ~can_skip(counted) PROVE FailureKept
  BY <1>2, <1>4, <1>6, <1>8 DEF Return, FailureKept
<1>9. ASSUME Return(sk, "TOO_BAD"), ~j.recovery PROVE FailureKept
  BY <1>3, <1>6, <1>9 DEF Return, FailureKept
<1>10. ASSUME ~j.recovery, NEW c \in CallRecords, c.dumping = call.dumping,
              prepare_head(sk, c)
       PROVE  FailureKept
  <2>1. /\ SameRecovery(sk, j') /\ j'.root = sk.root
        /\ call' = NoCall \/ call'.dumping = c.dumping
    BY <1>3, <1>7, <1>10
  <2> QED BY <2>1, <1>3, <1>6, <1>10 DEF FailureKept, SameRecovery
<1>11. CASE call.dumping /\ dump_failed
  <2>1. /\ [call EXCEPT !.dumps = @ + 1] \in CallRecords
        /\ [call EXCEPT !.dumps = @ + 1].dumping = call.dumping
    BY <1>1 DEF CallRecords
  <2> QED BY <1>1, <1>8, <1>9, <1>10, <1>11, <2>1 DEF dump_failed, sk
<1>12. CASE ~call.dumping /\ recover_from
  <2>1. ASSUME can_skip(counted), j.recovery, restart_recovery(sk, j.head)
        PROVE  FailureRestarts
    <3> DEFINE hm == /\ sk.recover_meta # PAGE_NONE
                     /\ align_eq(sk.recover_meta, j.head, ppb)
               k == [sk EXCEPT !.bad_meta = @ \/ hm,
                               !.enum_done = FALSE,
                               !.recover_next = recover_start(sk.recover_root),
                               !.root = sk.recover_root]
    <3>1. Return(k, "RECOVER")
      BY <2>1 DEF restart_recovery
    <3>2. j' = k /\ call' = NoCall
      BY <3>1, ReturnError
    <3>3. /\ k.recovery = j.recovery /\ k.recover_root = j.recover_root
          /\ k.recover_next = recover_start(j.recover_root) /\ ~k.enum_done
      BY <1>3 DEF Journals, SameRecovery
    <3> QED BY <1>4, <2>1, <3>2, <3>3 DEF FailureRestarts
  <2>2. ASSUME ~j.recovery, prepare_head(sk, [call EXCEPT !.tries = @ + 1])
        PROVE  FailureKept
    <3>1. /\ [call EXCEPT !.tries = @ + 1] \in CallRecords
          /\ [call EXCEPT !.tries = @ + 1].dumping = call.dumping
      BY <1>1 DEF CallRecords
    <3> QED BY <1>10, <2>2, <3>1
  <2>3. ASSUME can_skip(counted), ~j.recovery,
               Return([start EXCEPT !.recovery = TRUE], "RECOVER")
        PROVE  FailureStarts
    <3> HIDE DEF start
    <3>1. j' = [start EXCEPT !.recovery = TRUE] /\ call' = NoCall
      BY <2>3, ReturnError
    <3>2. /\ j'.root = j.root /\ j'.recover_root = j.root
          /\ j'.recover_next = recover_start(j.root) /\ j'.enum_done = j.enum_done
          /\ is_aligned(j'.head, ppb)
      BY <3>1, <1>5 DEF Journals
    <3> QED BY <1>1, <1>4, <1>6, <2>3, <3>1, <3>2 DEF FailureStarts, RecoveryFields
  <2>4. ASSUME can_skip(counted), ~j.recovery,
               prepare_head(start, [call EXCEPT !.dumping = TRUE])
        PROVE  FailureStarts
    <3> HIDE DEF start
    <3>1. [call EXCEPT !.dumping = TRUE] \in CallRecords
      BY <1>1 DEF CallRecords
    <3>2. SameRecovery(start, j') /\ j'.root = start.root /\ j'.head = start.head
      BY <1>5, <1>7, <2>4, <3>1
    <3> QED BY <1>1, <1>4, <1>5, <2>4, <3>2 DEF FailureStarts, RecoveryFields, SameRecovery
  <2>5. \/ ~can_skip(counted) /\ Return(counted, "JOURNAL_FULL")
        \/ can_skip(counted) /\ j.recovery /\ restart_recovery(sk, j.head)
        \/ ~j.recovery /\ Return(sk, "TOO_BAD")
        \/ ~j.recovery /\ prepare_head(sk, [call EXCEPT !.tries = @ + 1])
        \/ /\ can_skip(counted) /\ ~j.recovery
           /\ Return([start EXCEPT !.recovery = TRUE], "RECOVER")
        \/ /\ can_skip(counted) /\ ~j.recovery
           /\ prepare_head(start, [call EXCEPT !.dumping = TRUE])
    BY <1>12 DEF recover_from, sk
  <2> HIDE DEF start
  <2> QED
    BY <1>1, <1>8, <1>9, <2>1, <2>2, <2>3, <2>4, <2>5
<1> QED BY <1>1, <1>11, <1>12 DEF BadBlock

\* A journal that has retreated keeps its queue and accepts nothing.
LEMMA RetreatRing ==
  ASSUME Inv, Inv', OrderInv, pc \in {"scan", "prog", "cp"}, Retreats
  PROVE  /\ queue(j.tail, j.head) \subseteq queue(j'.tail, j'.head)
         /\ j'.tail = j.tail /\ HeadGoes(j, j') /\ ~Accepts
         /\ pc' \in {"idle", "scan"}
         /\ j'.head = j.head \/ is_aligned(j'.head, ppb)
         /\ Onward(j.tail_sync, j.head, j'.head)
<1>1. /\ j \in Journals /\ j.head \in UPages /\ j.tail_sync \in Pages
      /\ j.head \in Pages /\ j.tail \in Pages
      /\ RingOK(j, call.dumping) /\ ClearOf(j.tail_sync, j.head)
  BY CallFacts
<1>2. j' \in Journals /\ j'.head \in UPages /\ j'.head \in Pages
      /\ pc' \in {"idle", "scan"} /\ j'.tail = j.tail
  BY DEF Inv, TypeOK, Journals, UPages, Retreats
<1>3. Onward(j.tail_sync, j.head, j'.head) /\ (j'.head = j.head \/ is_aligned(j'.head, ppb))
  <2>1. CASE j'.head = j.head
    <3>1. j.head <= j.head
      BY <1>1 DEF Pages
    <3> QED BY <2>1, <3>1, <1>1, OnwardInBlock
  <2>2. CASE /\ j'.head = first_page(next_block(block_of(j.head)))
             /\ block_of(j.tail_sync) # next_block(block_of(j.head))
    <3>1. Onward(j.tail_sync, j.head, j'.head)
      BY <2>2, <1>1, OnwardNextBlock
    <3>2. next_block(block_of(j.head)) \in Blocks
      BY <1>1, BlockBounds
    <3>3. j'.head = block_start(j'.head)
      BY <1>1, <2>2, BlockBounds DEF block_start
    <3> QED BY <1>2, <3>1, <3>3, AlignedBlock
  <2> QED BY <2>1, <2>2 DEF Retreats
<1>4. Advances(j, call.dumping, j', call'.dumping)
  BY <1>3 DEF Advances, Retreats
<1>5. queue(j.tail, j.head) \subseteq queue(j'.tail, j'.head)
  BY <1>1, <1>2, <1>4, OnwardRing
<1>6. ~Accepts
  <2>1. j.head # PAGE_NONE /\ j.tail_sync \in Pages
    BY <1>1, PageNone
  <2>2. j'.root # j.head
    <3>1. Behind(j.tail_sync, j.root, j.head)
      BY <1>1 DEF RingOK
    <3>2. j.recovery => Behind(j.tail_sync, j.recover_root, j.head)
      BY <1>1 DEF RingOK
    <3>3. ~Before(j.tail_sync, j.head, j.head)
      BY <1>1, OrderTrans
    <3> QED BY <2>1, <3>1, <3>2, <3>3 DEF Retreats, Behind
  <2> QED BY <2>2 DEF Accepts
<1>7. HeadGoes(j, j')
  BY <1>3 DEF HeadGoes
<1> QED BY <1>2, <1>3, <1>5, <1>6, <1>7

\* A failed command.
LEMMA FailureOwed ==
  ASSUME Inv, Inv', OrderInv, OrderInv', OwedInv, BadBlock, Observe,
         pc \in {"scan", "prog", "cp"}
  PROVE  OwedInv'
<1>1. /\ Running /\ ~Crashes /\ ~Resumes /\ ~HandsOut
  BY DEF Running, Resuming, BadBlock, Crashes, Resumes, HandsOut
<1>2. /\ queue(j.tail, j.head) \subseteq queue(j'.tail, j'.head)
      /\ j'.tail = j.tail /\ HeadGoes(j, j') /\ ~Accepts /\ Running'
  BY BadBlockRetreats, RetreatRing DEF Running, Resuming
<1>3. /\ j \in Journals /\ RingOK(j, call.dumping) /\ RingOK(j', call'.dumping)
      /\ DOMAIN accepted \subseteq queue(j.tail, j.head) /\ j' \in Journals
      /\ DOMAIN accepted \subseteq UPages /\ j'.head \in Pages
      /\ call.dumping => ~j.recovery
  BY <1>1, <1>2, RunningFacts DEF Inv, TypeOK, OrderInv, RingInv, Journals, UPages
<1>4. DOMAIN accepted' \subseteq DOMAIN accepted
  BY <1>1, <1>2, AcceptedAfter
<1>5. ASSUME j'.root = j.root, ~j.recovery PROVE RootIsLast(j', DOMAIN accepted')
  <2>1. RootIsLast(j, DOMAIN accepted)
    BY <1>1, <1>5 DEF OwedInv, LastInv
  <2> QED BY <1>2, <1>4, <1>5, <2>1, LastOnward
<1>6. fails' # fails /\ (FailureKept \/ FailureRestarts \/ FailureStarts)
  BY BadBlockKinds
<1>7. CASE FailureKept
  <2>1. LastInv'
    BY <1>5, <1>7 DEF FailureKept, SameRecovery, LastInv
  <2>2. /\ SameRecovery(j, j') /\ (call'.dumping => call.dumping /\ j'.root = j.root)
    BY <1>7 DEF FailureKept
  <2>3. ~StartsRecovery
    BY <1>3, <1>7 DEF StartsRecovery, FailureKept, SameRecovery
  <2> QED BY <1>1, <1>2, <1>4, <2>1, <2>2, <2>3, OwedStays
<1>8. CASE FailureRestarts
  <2>1. StartsRecovery /\ ~call'.dumping /\ j'.recovery
    BY <1>6, <1>8 DEF StartsRecovery, FailureRestarts, NoCall
  <2>2. OwedByWalk'
    <3>1. Covered(DOMAIN accepted, j.recover_root)
      BY <1>1, <1>8 DEF OwedInv, OwedByWalk, FailureRestarts
    <3> QED BY <1>1, <1>3, <1>4, <1>8, <2>1, <3>1, WalkBegins DEF FailureRestarts
  <2>3. LeftInv'
    <3>1. is_aligned(j'.head, ppb) \/ block_of(j'.head) = block_of(j.head)
      BY <1>2 DEF HeadGoes
    <3>2. CASE is_aligned(j'.head, ppb)
      BY <1>3, <2>1, <3>2, LeftAtStart DEF LeftInv
    <3>3. CASE block_of(j'.head) = block_of(j.head)
      BY <1>1, <1>8, <3>3 DEF OwedInv, LeftInv, FailureRestarts
    <3> QED BY <3>1, <3>2, <3>3
  <2> QED BY <2>1, <2>2, <2>3 DEF OwedInv, LastInv, StartInv
<1>9. CASE FailureStarts
  <2>1. LastInv' /\ StartInv'
    BY <1>5, <1>9 DEF FailureStarts, LastInv, StartInv
  <2>2. ASSUME j'.recovery PROVE OwedByWalk'
    <3>1. StartsRecovery
      BY <1>6, <1>9, <2>2 DEF StartsRecovery, FailureStarts
    <3>2. Covered(DOMAIN accepted, j.root)
      <4>1. RootIsLast(j, DOMAIN accepted)
        BY <1>1, <1>9 DEF OwedInv, LastInv, FailureStarts
      <4> QED BY <1>3, <4>1, LastCovers
    <3> QED BY <1>1, <1>3, <1>4, <1>9, <3>1, <3>2, WalkBegins DEF FailureStarts
  <2>3. LeftInv'
    <3>1. SUFFICES ASSUME j'.recovery \/ call'.dumping, j'.recover_root # PAGE_NONE
                   PROVE  is_aligned(j'.head, ppb)
      BY <1>3, LeftAtStart DEF LeftInv
    <3> QED BY <1>9, <3>1 DEF FailureStarts
  <2> QED BY <2>1, <2>2, <2>3 DEF OwedInv
<1> QED BY <1>6, <1>7, <1>8, <1>9

-----------------------------------------------------------------------------
(* The steps of a call                                                     *)

\* A step that retreats and fails nothing: recovery stays as it was.
LEMMA RetreatOwed ==
  ASSUME Inv, Inv', OrderInv, OrderInv', OwedInv, Observe, Retreats,
         pc \in {"scan", "prog", "cp"}, SameRecovery(j, j'), j'.root = j.root,
         UNCHANGED <<fails, crashes>>, ~call.dumping \/ ~j'.recovery,
         call'.dumping => call.dumping
  PROVE  OwedInv'
<1>1. /\ Running /\ ~Crashes /\ ~Resumes /\ ~HandsOut /\ ~StartsRecovery
  BY DEF Running, Resuming, Crashes, Resumes, HandsOut, StartsRecovery
<1>2. /\ queue(j.tail, j.head) \subseteq queue(j'.tail, j'.head)
      /\ j'.tail = j.tail /\ HeadGoes(j, j') /\ ~Accepts /\ Running'
  BY RetreatRing DEF Running, Resuming
<1>3. DOMAIN accepted' \subseteq DOMAIN accepted
  BY <1>1, <1>2, AcceptedAfter
<1>4. LastInv'
  <2>1. SUFFICES ASSUME ~j'.recovery PROVE RootIsLast(j', DOMAIN accepted')
    BY DEF LastInv
  <2>2. RootIsLast(j, DOMAIN accepted)
    BY <1>1, <2>1 DEF OwedInv, LastInv, SameRecovery
  <2> QED BY <1>2, <1>3, <2>2, LastOnward
<1> QED BY <1>1, <1>2, <1>3, <1>4, OwedStays

\* prepare_head passes a bad block; a copy cannot read its source.
LEMMA PassOwed ==
  ASSUME Inv, Inv', OrderInv, OrderInv', OwedInv, Observe, SkipBad \/ CopyUnreadable
  PROVE  OwedInv'
<1>1. /\ pc \in {"scan", "prog", "cp"} /\ j \in Journals /\ UNCHANGED <<fails, crashes>>
      /\ call \in CallRecords /\ j.dirty
  BY CallFacts DEF SkipBad, CopyUnreadable, Inv, TypeOK
<1>2. CASE SkipBad
  <2>1. /\ SameRecovery(j, counted) /\ counted \in Journals /\ counted.root = j.root
    BY <1>1, CountedType
  <2>2. /\ SameRecovery(j, skip_block(counted)) /\ skip_block(counted).root = j.root
    BY <2>1, SkipBlockType DEF SameRecovery
  <2>3. j' = counted \/ j' = skip_block(counted)
    BY <1>2 DEF SkipBad, Return
  <2>4. call'.dumping => call.dumping
    BY <1>1, <1>2 DEF SkipBad, Return, NoCall, CallRecords
  <2>5. ~call.dumping \/ ~j'.recovery
    BY <2>1, <2>2, <2>3 DEF Inv, RecoveryState, SameRecovery
  <2>6. Retreats
    BY <1>1, <1>2, SkipBadRetreats
  <2> QED BY <1>1, <2>1, <2>2, <2>3, <2>4, <2>5, <2>6, RetreatOwed
<1>3. CASE CopyUnreadable
  <2>1. j' = j /\ call' = NoCall /\ Return(j, "ECC")
    BY <1>3, ReturnError DEF CopyUnreadable
  <2>2. Retreats
    BY <2>1, RetreatReturns
  <2>3. SameRecovery(j, j') /\ ~call'.dumping /\ (~call.dumping \/ ~j'.recovery)
    BY <2>1 DEF SameRecovery, NoCall, Inv, RecoveryState
  <2> QED BY <1>1, <2>1, <2>2, <2>3, RetreatOwed
<1> QED BY <1>2, <1>3

\* A step that leaves the journal as it is.
LEMMA SameOwed ==
  ASSUME Inv, Inv', OrderInv, OrderInv', OwedInv, Observe, Running, Running',
         UNCHANGED <<j, fails, crashes>>, call'.dumping => call.dumping,
         ~HandsOut, ~Accepts, ~StartsRecovery
  PROVE  OwedInv'
<1>1. ~Crashes /\ ~Resumes /\ SameRecovery(j, j') /\ HeadGoes(j, j')
  BY DEF Running, Resuming, Crashes, Resumes, SameRecovery, HeadGoes
<1>2. j \in Journals
  BY RunningFacts
<1>3. DOMAIN accepted' \subseteq DOMAIN accepted
  BY <1>1, AcceptedAfter
<1>4. LastInv'
  BY <1>3 DEF OwedInv, LastInv, RootIsLast
<1>5. /\ call'.dumping => call.dumping /\ j'.root = j.root
      /\ DOMAIN accepted' \subseteq DOMAIN accepted \cup {j.head}
  BY <1>3
<1> QED BY <1>1, <1>4, <1>5, OwedStays

\* A block has been erased.
LEMMA EraseOkOwed ==
  ASSUME Inv, Inv', OrderInv, OrderInv', OwedInv, Observe, EraseOk
  PROVE  OwedInv'
<1>1. /\ pc = "scan" /\ pc' = "prog" /\ UNCHANGED <<j, fails, crashes>>
      /\ call'.dumping = call.dumping
  BY DEF EraseOk, erasing, Inv, TypeOK, CallRecords
<1>2. ~HandsOut /\ ~Accepts /\ Running /\ Running'
  BY <1>1 DEF HandsOut, Accepts, Running, Resuming
<1>3. ~StartsRecovery
  BY <1>1 DEF StartsRecovery, Inv, RecoveryState
<1> QED BY <1>1, <1>2, <1>3, SameOwed

\* A page has been programmed at the head, and the head of journal k is behind it.
LEMMA HeadQueued ==
  ASSUME NEW k \in Journals, NEW d, RingOK(j, d), j \in Journals,
         Onward(j.tail_sync, j.head, k.head), k.tail = j.tail, k.head # j.head
  PROVE  /\ j.head \in queue(j.tail, k.head)
         /\ queue(j.tail, j.head) \subseteq queue(j.tail, k.head)
<1>1. /\ j.tail \in Pages /\ j.tail_sync \in Pages /\ j.head \in Pages
      /\ j.head \in UPages /\ k.head \in Pages
      /\ Upto(j.tail_sync, j.tail, j.head)
  BY DEF Journals, UPages, RingOK
<1>2. Upto(j.tail_sync, j.head, j.head)
  BY <1>1, OrderTrans
<1>3. Before(j.tail_sync, j.head, k.head)
  BY <1>1, <1>2 DEF Onward
<1>4. Before(j.tail, j.head, k.head)
  BY <1>1, <1>3, TailMoves
<1>5. ASSUME NEW p \in queue(j.tail, j.head) PROVE p \in queue(j.tail, k.head)
  <2>1. p \in UPages /\ p \in Pages /\ Before(j.tail, p, j.head)
    BY InQueue DEF UPages
  <2>2. Before(j.tail, p, k.head)
    BY <1>1, <1>4, <2>1, OrderTrans
  <2> QED BY <2>1, <2>2, InQueue
<1> QED BY <1>1, <1>4, <1>5, InQueue

\* The page at the head is accepted, and the call returns with journal k.
LEMMA AcceptOwed ==
  ASSUME Inv, OrderInv, Observe, pc \in {"prog", "cp"}, ~Crashes,
         NEW k \in Journals, Onward(j.tail_sync, j.head, k.head), k.head # j.head,
         k.tail = j.tail, k.root = j.head, Return(k, "OK")
  PROVE  /\ RootIsLast(j', DOMAIN accepted')
         /\ DOMAIN accepted' \subseteq DOMAIN accepted \cup {j.head}
         /\ j'.head = k.head /\ pc' = "idle" /\ call' = NoCall
<1>1. /\ Running /\ j \in Journals /\ RingOK(j, call.dumping) /\ j.tail \in Pages
      /\ DOMAIN accepted \subseteq queue(j.tail, j.head) /\ j.head \in UPages
  BY RunningFacts DEF Running, Resuming
<1>2. /\ j.head \in queue(j.tail, k.head)
      /\ queue(j.tail, j.head) \subseteq queue(j.tail, k.head)
  BY <1>1, HeadQueued
<1> DEFINE S == DOMAIN accepted \cup {j.head}
<1>3. RootIsLast(k, S) /\ S \subseteq queue(k.tail, k.head)
  BY <1>1, <1>2, LastAccepts
<1> HIDE DEF S
<1>4. /\ j' \in Journals /\ TailAdvances(k, j') /\ KeepsRoot(k, j')
      /\ pc' = "idle" /\ call' = NoCall
  BY ReturnOk DEF KeepsRoot
<1>5. RootIsLast(j', S \ queue(k.tail, j'.tail))
  BY <1>3, <1>4, LastStays
<1>6. DOMAIN accepted' \subseteq S \ queue(j.tail, j'.tail)
  BY <1>1, AcceptedAfter DEF S
<1> QED BY <1>4, <1>5, <1>6 DEF RootIsLast, TailAdvances, S

\* What a successful return leaves of the recovery fields.
LEMMA ReturnRecovery ==
  ASSUME NEW k \in Journals, Return(k, "OK")
  PROVE  SameRecovery(k, j')
<1>1. j' = k \/ j' = dequeue(k)
  BY DEF Return
<1> QED BY <1>1, DequeueType DEF SameRecovery

\* The user page of an enqueue or copy is on the flash.
LEMMA PushMetaOwed ==
  ASSUME Inv, Inv', OrderInv, OrderInv', OwedInv, Observe, PushMeta
  PROVE  OwedInv'
<1>1. /\ pc = "prog" /\ ~call.dumping /\ UNCHANGED <<fails, crashes>>
      /\ Running /\ ~Crashes /\ ~Resumes /\ ~HandsOut /\ ~StartsRecovery
  BY DEF PushMeta, ProgramOk, Running, Resuming, Crashes, Resumes, HandsOut, StartsRecovery
<1>2. /\ j \in Journals /\ RingOK(j, call.dumping) /\ j.head \in UPages
      /\ j.head \in Pages /\ j.tail_sync \in Pages
  BY <1>1, RunningFacts
<1>3. CASE pc' = "cp" /\ UNCHANGED <<j, call, client>>
  <2>1. ~Accepts /\ Running' /\ (call'.dumping => call.dumping)
    BY <1>3 DEF Accepts, Running, Resuming
  <2> QED BY <1>1, <1>3, <2>1, SameOwed
<1>4. CASE /\ ~is_aligned(j.head + 2, ppc)
           /\ Return([j EXCEPT !.root = j.head, !.head = j.head + 1], "OK")
  <2> DEFINE k == [j EXCEPT !.root = j.head, !.head = j.head + 1]
  <2>1. j.head + 1 \in UPages /\ block_of(j.head + 1) = block_of(j.head)
    BY <1>2, <1>4, NextOffset
  <2>2. /\ k \in Journals /\ k.head = j.head + 1 /\ k.root = j.head
        /\ k.tail = j.tail /\ SameRecovery(j, k)
    BY <1>2, <2>1 DEF Journals, UPagesOrNone, SameRecovery
  <2>3. Return(k, "OK")
    BY <1>4
  <2> HIDE DEF k
  <2>4. j.head + 1 \in Pages /\ j.head <= j.head + 1 /\ j.head # j.head + 1
    BY <1>2, <2>1 DEF UPages, Pages
  <2>5. Onward(j.tail_sync, j.head, k.head)
    BY <1>2, <2>1, <2>2, <2>4, OnwardInBlock DEF RingOK
  <2>6. /\ RootIsLast(j', DOMAIN accepted')
        /\ DOMAIN accepted' \subseteq DOMAIN accepted \cup {j.head}
        /\ j'.head = k.head /\ pc' = "idle" /\ call' = NoCall
    BY <1>1, <2>2, <2>3, <2>4, <2>5, AcceptOwed
  <2>7. SameRecovery(j, j')
    BY <2>2, <2>3, ReturnRecovery DEF SameRecovery
  <2>8. LastInv' /\ HeadGoes(j, j') /\ Running' /\ ~call'.dumping
    BY <2>1, <2>2, <2>6 DEF LastInv, HeadGoes, Running, Resuming, NoCall
  <2> QED BY <1>1, <2>6, <2>7, <2>8, OwedStays
<1> QED BY <1>3, <1>4 DEF PushMeta

\* The next user page is in the same block or begins the next one.
LEMMA NextGoes ==
  ASSUME NEW u \in UPages
  PROVE  block_of(next_upage(u)) = block_of(u) \/ is_aligned(next_upage(u), ppb)
BY NextGroup

\* The metadata is dumped: the recovery begins.
LEMMA DumpMetaOwed ==
  ASSUME num_blocks >= 2, Inv, Inv', OrderInv, OrderInv', OwedInv, Observe, DumpMeta
  PROVE  OwedInv'
<1>1. /\ pc = "prog" /\ call.dumping /\ UNCHANGED <<fails, crashes>>
      /\ Running /\ ~Crashes /\ ~Resumes
  BY DEF DumpMeta, ProgramOk, Running, Resuming, Crashes, Resumes
<1>2. /\ j \in Journals /\ RingOK(j, call.dumping) /\ j.head \in UPages
      /\ RecoveryFields(j) /\ ~j.recovery
      /\ DOMAIN accepted \subseteq queue(j.tail, j.head)
      /\ DOMAIN accepted \subseteq UPages
  BY <1>1, RunningFacts
<1> DEFINE n == next_upage(j.head)
           m == move_head(j, n)
           k == [m EXCEPT !.recover_meta = j.head, !.recovery = TRUE]
<1>3. n \in UPages
  BY <1>2, NextUPage
<1> HIDE DEF n
<1>4. /\ m \in Journals /\ SameRecovery(j, m) /\ m.head = n /\ m.root = j.root
      /\ m.tail = j.tail
  BY <1>2, <1>3, MoveHeadType, MoveHeadPointers DEF SamePointers
<1> HIDE DEF m
<1>5. /\ k.head = n /\ k.recover_root = j.recover_root /\ k.recovery
      /\ k.recover_next = j.recover_next /\ k.enum_done = j.enum_done
      /\ k.tail = j.tail
  BY <1>4 DEF Journals, SameRecovery
<1>6. Return(k, "RECOVER")
  BY DEF DumpMeta, m, n
<1> HIDE DEF k
<1>7. j' = k /\ pc' = "idle" /\ call' = NoCall /\ j' \in Journals
  BY <1>6, ReturnError DEF Inv, TypeOK
<1>8. /\ StartsRecovery /\ Running' /\ ~call'.dumping /\ ~j'.enum_done /\ ~Accepts
  <2>1. Before(j.tail_sync, j.head, j.head) => FALSE
    BY <1>2, OrderTrans DEF Journals, UPages
  <2>2. k.root = j.root
    BY <1>4 DEF k, Journals
  <2>3. Behind(j.tail_sync, j.root, j.head) /\ j.head # PAGE_NONE
    BY <1>2, PageNone DEF RingOK
  <2>4. j'.root # j.head
    BY <1>7, <2>1, <2>2, <2>3 DEF Behind
  <2> QED
    BY <1>1, <1>2, <1>5, <1>7, <2>4
    DEF StartsRecovery, Running, Resuming, NoCall, Accepts, RecoveryFields
<1>9. j.recover_root = j.root /\ j.recover_next = recover_start(j.root)
  BY <1>1 DEF OwedInv, StartInv
<1>10. Covered(DOMAIN accepted, j.root)
  <2>1. RootIsLast(j, DOMAIN accepted)
    BY <1>1, <1>2 DEF OwedInv, LastInv
  <2> QED BY <1>2, <2>1, LastCovers
<1>11. DOMAIN accepted' \subseteq DOMAIN accepted
  BY <1>1, <1>8, AcceptedAfter
<1>12. OwedByWalk'
  BY <1>1, <1>2, <1>5, <1>7, <1>8, <1>9, <1>10, <1>11, WalkBegins
<1>13. LeftInv'
  <2>1. SUFFICES ASSUME j.recover_root # PAGE_NONE
                 PROVE  block_of(j'.head) # block_of(j.recover_root)
    BY <1>5, <1>7 DEF LeftInv
  <2>2. CASE is_aligned(j'.head, ppb)
    <3>1. RingOK(j', call'.dumping)
      BY <1>8 DEF OrderInv, RingInv
    <3> QED BY <1>5, <1>7, <2>1, <2>2, <3>1, LeftAtStart
  <2>3. CASE block_of(j'.head) = block_of(j.head)
    BY <1>1, <2>1, <2>3 DEF OwedInv, LeftInv
  <2> QED BY <1>2, <1>5, <1>7, <2>2, <2>3, NextGoes DEF n
<1> QED BY <1>5, <1>7, <1>8, <1>12, <1>13 DEF OwedInv, LastInv, StartInv

\* The journal with which a checkpoint returns: the head has moved on, and a
\* recovery that has handed out every page is over.
LEMMA CheckpointReturns ==
  ASSUME num_blocks >= 2, Inv, OrderInv, Checkpoint
  PROVE  \E k \in Journals :
           /\ Return(k, "OK") /\ SameRecovery(k, j')
           /\ k.head = next_upage(j.head) /\ k.root = j.head /\ k.tail = j.tail
           /\ Onward(j.tail_sync, j.head, k.head) /\ k.head # j.head
           /\ HeadGoes(j, k)
           /\ j'.recovery => SameRecovery(j, j') /\ k.tail_sync = j.tail_sync
<1> DEFINE n == next_upage(j.head)
           a == checkpointed
           k == [a EXCEPT !.tail_sync = IF a.recovery THEN @ ELSE a.tail]
<1>1. pc \in {"scan", "prog", "cp"} /\ Return(k, "OK")
  BY DEF Checkpoint, checkpointed
<1>2. /\ j \in Journals /\ j.head \in UPages /\ j.head \in Pages
      /\ j.tail_sync \in Pages /\ ~RollsOnto(j.tail_sync, j.head)
      /\ ClearOf(j.tail_sync, j.head)
  BY <1>1, CallFacts
<1>3. n \in UPages /\ Onward(j.tail_sync, j.head, n) /\ n # j.head
  BY <1>2, NextGroup, OnwardNext DEF RollsOnto
<1>5. /\ a \in Journals /\ a.head = n /\ a.root = j.head /\ a.tail = j.tail
      /\ a.tail_sync = j.tail_sync
      /\ a.recovery => SameRecovery(j, a)
  <2>1. /\ a \in Journals /\ a.head = n /\ a.root = j.head /\ a.tail = j.tail
        /\ a.tail_sync = j.tail_sync
    BY <1>2, CheckpointedPointers
  <2> DEFINE c == [j EXCEPT !.dirty = FALSE, !.root = j.head]
  <2>2. c \in Journals /\ SameRecovery(j, c)
    BY <1>2 DEF Journals, SameRecovery, UPagesOrNone
  <2>3. a = IF j.enum_done THEN clear_recovery(move_head(c, n)) ELSE move_head(c, n)
    BY DEF checkpointed
  <2> HIDE DEF a, c
  <2>4. move_head(c, n) \in Journals /\ SameRecovery(c, move_head(c, n))
    BY <1>3, <2>2, MoveHeadType
  <2>5. CASE j.enum_done
    BY <2>1, <2>3, <2>4, <2>5, ClearRecoveryType
  <2>6. CASE ~j.enum_done
    BY <2>1, <2>2, <2>3, <2>4, <2>6 DEF SameRecovery
  <2> QED BY <2>5, <2>6
<1> HIDE DEF a, n
<1>6. /\ k \in Journals /\ k.head = n /\ k.root = j.head /\ k.tail = j.tail
      /\ SameRecovery(a, k) /\ (a.recovery => k.tail_sync = j.tail_sync)
  BY <1>5 DEF Journals, SameRecovery
<1> HIDE DEF k
<1>7. SameRecovery(k, j')
  BY <1>1, <1>6, ReturnRecovery
<1>8. j'.recovery => SameRecovery(j, j') /\ k.tail_sync = j.tail_sync
  BY <1>5, <1>6, <1>7 DEF SameRecovery
<1>9. HeadGoes(j, k) /\ k.head = next_upage(j.head)
  BY <1>2, <1>6, NextGoes DEF HeadGoes, n
<1> QED BY <1>1, <1>3, <1>6, <1>7, <1>8, <1>9

\* A checkpoint completes its group, and with it a recovery that has handed out
\* every page.
LEMMA CheckpointOwed ==
  ASSUME num_blocks >= 2, Inv, Inv', OrderInv, OrderInv', OwedInv, Observe, Checkpoint
  PROVE  OwedInv'
<1>1. /\ pc \in {"prog", "cp"} /\ UNCHANGED <<fails, crashes>>
      /\ Running /\ ~Crashes /\ ~Resumes /\ ~HandsOut
  BY DEF Checkpoint, Running, Resuming, Crashes, Resumes, HandsOut
<1>2. ~call.dumping /\ ~StartsRecovery
  BY <1>1 DEF Checkpoint, Inv, RecoveryState, StartsRecovery
<1>3. PICK k \in Journals :
        /\ Return(k, "OK") /\ SameRecovery(k, j')
        /\ k.root = j.head /\ k.tail = j.tail
        /\ Onward(j.tail_sync, j.head, k.head) /\ k.head # j.head
        /\ HeadGoes(j, k)
        /\ j'.recovery => SameRecovery(j, j')
  BY CheckpointReturns
<1>4. /\ RootIsLast(j', DOMAIN accepted')
      /\ DOMAIN accepted' \subseteq DOMAIN accepted \cup {j.head}
      /\ j'.head = k.head /\ pc' = "idle" /\ call' = NoCall
  BY <1>1, <1>3, AcceptOwed
<1>5. LastInv' /\ ~call'.dumping /\ Running' /\ HeadGoes(j, j')
  BY <1>3, <1>4 DEF LastInv, NoCall, Running, Resuming, HeadGoes
<1>6. CASE ~j'.recovery
  BY <1>5, <1>6, OwedEnds
<1>7. CASE j'.recovery
  BY <1>1, <1>2, <1>3, <1>4, <1>5, <1>7, OwedStays
<1>8. j'.recovery \in BOOLEAN
  BY DEF Inv, TypeOK, Journals
<1> QED BY <1>6, <1>7, <1>8

-----------------------------------------------------------------------------
(* Calls of the client and restarts                                        *)

\* What begins with a call of the client, after the query that has left journal k.
LEMMA BeginStep ==
  ASSUME NEW k \in Journals, NEW op, NEW src, NEW m, NEW deq, Begin(k, op, src, m, deq)
  PROVE  /\ SamePointers(k, j') /\ j'.head = k.head /\ SameRecovery(k, j')
         /\ ~call'.dumping /\ pc' \in {"idle", "scan", "prog"}
         /\ UNCHANGED <<fails, crashes, page, marked>>
<1> DEFINE c == [NoCall EXCEPT !.op = op, !.src = src, !.meta = m, !.dequeue = deq]
<1>1. prepare_head(k, c) /\ UNCHANGED <<fails, crashes, page, marked>>
  BY DEF Begin
<1>2. CASE Return(k, "JOURNAL_FULL")
  BY <1>1, <1>2, ReturnError DEF NoCall, SamePointers, SameRecovery
<1>3. CASE /\ j' = [k EXCEPT !.dirty = TRUE] /\ call' = [c EXCEPT !.scans = 0]
           /\ pc' = IF is_aligned(k.head, ppb) THEN "scan" ELSE "prog"
  BY <1>1, <1>3 DEF NoCall, Journals, SamePointers, SameRecovery
<1> QED BY <1>1, <1>2, <1>3 DEF prepare_head

\* A call of the client, after which the journal is that of its query, k.
LEMMA ClientOwed ==
  ASSUME Inv, Inv', OrderInv, OrderInv', OwedInv, Observe, pc = "idle",
         NEW k \in Journals, TailAdvances(j, k), KeepsRoot(j, k), SameRecovery(j, k),
         \/ SameRecovery(k, j') /\ SamePointers(k, j') /\ j'.head = k.head /\ Quiet
         \/ \E op, src, m, deq : Begin(k, op, src, m, deq),
         client = "normal" \/ j.enum_done
  PROVE  OwedInv'
<1>1. /\ SamePointers(k, j') /\ j'.head = k.head /\ SameRecovery(k, j')
      /\ ~call'.dumping /\ pc' \in {"idle", "scan", "prog"}
      /\ UNCHANGED <<fails, crashes>>
  BY BeginStep, BetweenCalls DEF Quiet
<1>2. /\ Running /\ Running' /\ ~Crashes /\ ~Resumes /\ ~HandsOut /\ ~Accepts
  BY <1>1 DEF Running, Resuming, Crashes, Resumes, HandsOut, Accepts
<1>3. ~StartsRecovery
  BY <1>1, BetweenCalls DEF StartsRecovery
<1>4. SameRecovery(j, j')
  BY <1>1 DEF SameRecovery
<1> QED BY <1>1, <1>2, <1>3, <1>4, OwedTail

\* A step that leaves the tail and the root.
LEMMA RootStays == ASSUME NEW a PROVE KeepsRoot(a, a)
BY DEF KeepsRoot

\* peek gives the root up only with the whole queue.
LEMMA PeekKeepsRoot ==
  ASSUME j \in Journals, NEW t \in UPages, NEW r \in {j.root, PAGE_NONE},
         peeked([j EXCEPT !.tail = t, !.root = r])
  PROVE  t = j.head \/ r = j.root
<1> DEFINE k == [j EXCEPT !.tail = t, !.root = r]
<1>1. k.tail = t /\ k.root = r
  BY DEF Journals
<1>2. \/ k = j
      \/ \E b \in Blocks : k = [j EXCEPT !.tail = first_page(b),
                           !.root = IF first_page(b) = j.head THEN PAGE_NONE ELSE @]
  BY DEF peeked
<1> HIDE DEF k
<1> QED BY <1>1, <1>2 DEF Journals

\* The garbage collector drops or copies the page at the tail.
LEMMA GcOwed ==
  ASSUME Inv, Inv', OrderInv, OrderInv', OwedInv, Observe, Gc
  PROVE  OwedInv'
<1>1. j \in Journals /\ pc = "idle" /\ j.head # j.tail /\ client = "normal"
  BY DEF Inv, TypeOK, Gc
<1>2. PICK t \in UPages, r \in {j.root, PAGE_NONE} :
        LET k == [j EXCEPT !.tail = t, !.root = r]
        IN  /\ peeked(k)
            /\ \/ j' = k /\ Quiet
               \/ j' = dequeue(k) /\ Quiet
               \/ \E m \in Meta : Begin(k, "copy", t, m, TRUE)
  BY DEF Gc
<1> DEFINE k == [j EXCEPT !.tail = t, !.root = r]
<1>3. /\ k \in Journals /\ TailAdvances(j, k)
      /\ k.dirty = j.dirty /\ k.tail_sync = j.tail_sync
  BY <1>1, <1>2, PeekAdvances
<1>4. k.tail = k.head \/ k.root = j.root
  BY <1>1, <1>2, PeekKeepsRoot DEF Journals
<1>5. SameRecovery(j, k)
  BY <1>1 DEF SameRecovery, Journals
<1>6. \/ j' = k /\ Quiet
      \/ j' = dequeue(k) /\ Quiet
      \/ \E m \in Meta : Begin(k, "copy", t, m, TRUE)
  BY <1>2
<1> HIDE DEF k
<1>7. KeepsRoot(j, k)
  BY <1>4 DEF KeepsRoot
<1>8. CASE j' = k /\ Quiet
  BY <1>1, <1>3, <1>5, <1>7, <1>8, ClientOwed DEF SameRecovery, SamePointers
<1>9. CASE j' = dequeue(k) /\ Quiet
  <2>1. /\ j' \in Journals /\ TailAdvances(k, j') /\ SameRecovery(k, j')
        /\ Upto(j'.tail, k.root, k.head) => j'.root = k.root
    BY <1>3, <1>9, DequeueAdvances, DequeueType
  <2>2. /\ j.tail \in Pages /\ k.tail \in Pages /\ j'.tail \in Pages
        /\ j.head \in Pages /\ k.head = j.head /\ j'.head = j.head
    BY <1>1, <1>3, <2>1 DEF Journals, UPages, TailAdvances
  <2>3. Upto(j.tail, j'.tail, j.head)
    BY <1>3, <2>1, <2>2, TailMoves DEF TailAdvances
  <2>4. TailAdvances(j, j')
    BY <1>3, <2>1, <2>3 DEF TailAdvances
  <2>5. KeepsRoot(j, j')
    <3>1. CASE k.tail = k.head
      BY <1>9, <2>2, <3>1 DEF KeepsRoot, dequeue
    <3>2. CASE k.tail # k.head
      BY <1>4, <2>1, <2>2, <3>2 DEF KeepsRoot
    <3> QED BY <3>1, <3>2
  <2>6. SameRecovery(j, j')
    BY <1>5, <2>1 DEF SameRecovery
  <2> QED BY <1>1, <1>9, <2>1, <2>4, <2>5, <2>6, ClientOwed DEF SameRecovery, SamePointers
<1>10. CASE \E m \in Meta : Begin(k, "copy", t, m, TRUE)
  BY <1>1, <1>3, <1>5, <1>7, <1>10, ClientOwed
<1> QED BY <1>6, <1>8, <1>9, <1>10

\* The other calls of the client outside a recovery, and the padding at its end.
LEMMA WritesOwed ==
  ASSUME Inv, Inv', OrderInv, OrderInv', OwedInv, Observe,
         \/ Enqueue \/ Copy \/ Pad \/ Clear
         \/ pc = "idle" /\ j.enum_done /\ pad_queue(j)
  PROVE  OwedInv'
<1>1. /\ j \in Journals /\ TailAdvances(j, j) /\ j.head \in Pages /\ j.tail \in Pages
      /\ KeepsRoot(j, j) /\ SameRecovery(j, j) /\ SamePointers(j, j) /\ pc = "idle"
      /\ client = "normal" \/ j.enum_done
  BY TailStays, RootStays
  DEF Inv, TypeOK, SamePointers, SameRecovery, Journals, UPages, Enqueue, Copy, Pad, Clear
<1>2. CASE \E op, src, m, deq : Begin(j, op, src, m, deq)
  BY <1>1, <1>2, ClientOwed
<1>3. CASE j' = j /\ UNCHANGED <<page, pc, call, fails, crashes>>
  <2>1. ~HandsOut /\ ~Accepts /\ Running /\ Running' /\ ~StartsRecovery
    BY <1>1, <1>3, BetweenCalls DEF HandsOut, Accepts, Running, Resuming, StartsRecovery
  <2> QED BY <1>3, <2>1, SameOwed
<1>4. CASE Clear
  <2>1. /\ UNCHANGED <<page, pc, call, fails, crashes>>
        /\ j' = [j EXCEPT !.tail = j.head, !.root = PAGE_NONE, !.dirty = TRUE]
    BY <1>4 DEF Clear
  <2>2. /\ j'.tail = j.head /\ j'.head = j.head /\ j'.root = PAGE_NONE
        /\ j'.tail_sync = j.tail_sync /\ SameRecovery(j, j')
        /\ j'.recovery = j.recovery /\ j'.recover_root = j.recover_root
    BY <1>1, <2>1 DEF Journals, SameRecovery
  <2>3. Upto(j.tail, j.head, j.head)
    BY <1>1, OrderTrans
  <2>4. TailAdvances(j, j') /\ KeepsRoot(j, j') /\ SamePointers(j', j') /\ j' \in Journals
    BY <2>2, <2>3 DEF TailAdvances, KeepsRoot, SamePointers, Inv, TypeOK
  <2>5. ~HandsOut /\ ~Accepts /\ Running /\ Running' /\ ~StartsRecovery /\ ~call'.dumping
        /\ ~Crashes /\ ~Resumes
    BY <1>1, <1>4, <2>1, BetweenCalls
    DEF HandsOut, Accepts, Running, Resuming, StartsRecovery, Clear, Crashes, Resumes
  <2> QED BY <2>2, <2>4, <2>5, OwedTail
<1> QED BY <1>2, <1>3, <1>4 DEF Enqueue, Copy, Pad, pad_queue

\* next_recoverable hands out a page, or ends the enumeration with the last one.
LEMMA HandOutOwed ==
  ASSUME Inv, Inv', OrderInv, OrderInv', OwedInv, Observe, pc = "idle",
         client = "recovering", ~j.enum_done, next_recoverable \in Journals,
         SameRecovery(next_recoverable, j'), SamePointers(next_recoverable, j'),
         j'.head = j.head, ~call'.dumping, pc' \notin Resuming,
         UNCHANGED <<fails, crashes>>
  PROVE  OwedInv'
<1> DEFINE k == next_recoverable
           r == j.recover_root
           x == j.recover_next
<1>1. /\ j \in Journals /\ j.recovery /\ Running /\ Running' /\ ~Crashes /\ ~Resumes
      /\ HandsOut /\ ~Accepts /\ ~StartsRecovery
  BY BetweenCalls
  DEF Inv, TypeOK, RecoveryState, Running, Resuming, Crashes, Resumes, HandsOut, Accepts,
      StartsRecovery
<1>2. /\ k.recovery = j.recovery /\ k.recover_root = r
      /\ k.recover_next = (IF x = r THEN x ELSE next_upage(x))
      /\ k.enum_done = (x = r)
  BY <1>1 DEF next_recoverable, Journals
<1> HIDE DEF k
<1>3. /\ j'.recovery /\ j'.recover_root = r
      /\ j'.recover_next = (IF x = r THEN x ELSE next_upage(x))
      /\ j'.enum_done = (x = r)
  BY <1>1, <1>2 DEF SameRecovery, k
<1>4. owed' = owed \ {x}
  BY <1>1 DEF Observe, Running
<1>5. DOMAIN accepted' \subseteq DOMAIN accepted
  BY <1>1, AcceptedAfter
<1>6. OwedByWalk /\ LeftInv
  BY <1>1 DEF OwedInv
<1>7. ASSUME r # PAGE_NONE, x # r
      PROVE  /\ next_upage(x) \in UPages /\ next_upage(x) <= r
             /\ block_of(next_upage(x)) = block_of(r)
             /\ \A p \in UPages : x <= p /\ p # x => next_upage(x) <= p
  <2>1. /\ x \in UPages /\ x \in Pages /\ x <= r /\ block_of(x) = block_of(r)
        /\ r \in UPages /\ r \in Pages
    BY <1>1, <1>6, <1>7 DEF OwedByWalk, Journals, UPagesOrNone, UPages
  <2>2. /\ x < r /\ x \in Nat /\ r \in Nat
    BY <1>7, <2>1, BlockBounds
  <2>3. /\ cp_page(x) \in CpPages /\ cp_page(x) \in Nat /\ x < cp_page(x)
        /\ next_upage(x) = IF x + 1 # cp_page(x) THEN x + 1
                           ELSE IF x + 2 >= chip_size THEN 0 ELSE x + 2
    BY <2>1, GroupBounds, CpPage
  <2>4. ASSUME NEW p \in UPages, x <= p, p # x
        PROVE  /\ p \in Nat /\ p >= x + 1 /\ p < chip_size
               /\ x + 1 = cp_page(x) => p >= x + 2
    <3>1. p \in Pages /\ p \in Nat /\ p < chip_size
      BY BlockBounds DEF UPages
    <3>2. p # cp_page(x)
      BY <2>3, GroupOrder
    <3> QED BY <2>2, <2>3, <2>4, <3>1, <3>2
  <2>5. r >= x + 1 /\ r < chip_size /\ (x + 1 = cp_page(x) => r >= x + 2)
    BY <1>7, <2>1, <2>4
  <2>6. next_upage(x) \in UPages /\ next_upage(x) \in Pages
    BY <2>1, NextUPage DEF UPages
  <2>7. next_upage(x) = (IF x + 1 # cp_page(x) THEN x + 1 ELSE x + 2)
    BY <2>2, <2>3, <2>5, Sizes
  <2>8. next_upage(x) <= r
    BY <2>5, <2>7
  <2>9. \A p \in UPages : x <= p /\ p # x => next_upage(x) <= p
    BY <2>4, <2>7
  <2>10. block_of(next_upage(x)) = block_of(r)
    <3>1. /\ block_start(x) = block_start(r) /\ block_start(x) <= x
          /\ r < block_start(x) + ppb
      BY <2>1, BlockBounds, SameBlock
    <3>2. block_start(x) <= next_upage(x) /\ next_upage(x) < block_start(x) + ppb
      BY <2>1, <2>2, <2>7, <2>8, <3>1, BlockBounds, Sizes
    <3> QED BY <2>1, <2>6, <3>2, InBlock DEF UPages, Pages
  <2> QED BY <2>6, <2>8, <2>9, <2>10
<1>8. ASSUME r = PAGE_NONE PROVE owed = {}
  <2>1. \A p \in owed : p \in Pages /\ block_of(p) = block_of(PAGE_NONE)
    BY <1>6, <1>8 DEF OwedByWalk, UPages
  <2> QED BY <2>1, OutsideBlocks, BlockOf
<1>9. \A p \in owed : p \in UPages /\ p \in Nat
  BY <1>6, BlockBounds DEF OwedByWalk, UPages
<1>10. /\ x = r => owed' = {}
       /\ \A p \in owed' : /\ p \in UPages /\ block_of(p) = block_of(r)
                           /\ j'.recover_next <= p /\ p <= r
  <2>1. CASE r = PAGE_NONE
    BY <1>4, <1>8, <2>1
  <2>2. CASE r # PAGE_NONE /\ x = r
    <3>1. \A p \in owed : p = r
      <4>1. r \in Nat
        BY <1>6, <2>2, BlockBounds DEF OwedByWalk, UPages
      <4> QED BY <1>6, <1>9, <2>2, <4>1 DEF OwedByWalk
    <3> QED BY <1>4, <2>2, <3>1
  <2>3. CASE r # PAGE_NONE /\ x # r
    BY <1>3, <1>4, <1>6, <1>7, <2>3 DEF OwedByWalk
  <2> QED BY <2>1, <2>2, <2>3
<1>11. OwedByWalk'
  <2>1. r # PAGE_NONE =>
          /\ j'.recover_next \in UPages /\ j'.recover_next <= r
          /\ block_of(j'.recover_next) = block_of(r)
    BY <1>3, <1>6, <1>7 DEF OwedByWalk
  <2>2. Covered(DOMAIN accepted', r)
    BY <1>5, <1>6 DEF OwedByWalk, Covered
  <2> QED BY <1>3, <1>10, <2>1, <2>2 DEF OwedByWalk
<1>12. LeftInv'
  BY <1>1, <1>3, <1>6 DEF LeftInv
<1> QED BY <1>3, <1>11, <1>12 DEF OwedInv, LastInv, StartInv

\* An iteration of try_recover.
LEMMA RecoverOwed ==
  ASSUME Inv, Inv', OrderInv, OrderInv', OwedInv, Observe, Recover
  PROVE  OwedInv'
<1> DEFINE k == next_recoverable
<1>1. j \in Journals /\ pc = "idle" /\ RecoveryFields(j) /\ client = "recovering"
  BY DEF Inv, TypeOK, RecoveryState, Recover
<1>2. k \in Journals /\ k.head = j.head
  <2>1. next_upage(j.recover_next) \in RecoverPages \/ j.recover_next = PAGE_NONE
    <3>1. \/ j.recover_next \in UPages \/ j.recover_next = PAGE_NONE
          \/ (j.recover_next \in Nat /\ j.recover_next >= chip_size)
      BY <1>1, PageNone, GeometryAssumption DEF Journals, RecoverPages, UPagesOrNone
    <3> QED BY <3>1, NextUPage, NextUPageOutside DEF RecoverPages, UPagesOrNone
  <2>2. client = "recovering" => j.recover_next # PAGE_NONE
    BY <1>1 DEF Inv, RecoveryState, RecoveryFields
  <2> QED BY <1>1, <2>1, <2>2 DEF next_recoverable, Journals
<1> HIDE DEF k
<1>3. CASE j.enum_done /\ pad_queue(j)
  BY <1>1, <1>3, WritesOwed
<1>4. CASE ~j.enum_done /\ j' = k /\ Quiet
  <2>1. ~call'.dumping /\ pc' \notin Resuming /\ UNCHANGED <<fails, crashes>>
    BY <1>1, <1>4, BetweenCalls DEF Quiet, Resuming
  <2> QED
    BY <1>1, <1>2, <1>4, <2>1, HandOutOwed DEF k, SameRecovery, SamePointers
<1>5. CASE ~j.enum_done /\ \E m \in Meta : Begin(k, "copy", j.recover_next, m, FALSE)
  <2>1. /\ SamePointers(k, j') /\ j'.head = k.head /\ SameRecovery(k, j')
        /\ ~call'.dumping /\ pc' \in {"idle", "scan", "prog"}
        /\ UNCHANGED <<fails, crashes>>
    BY <1>2, <1>5, BeginStep
  <2> QED BY <1>1, <1>2, <1>5, <2>1, HandOutOwed DEF k, Resuming
<1> QED BY <1>3, <1>4, <1>5 DEF Recover, k

\* The end of a restart leaves nothing to synchronize and no recovery.
LEMMA ResumedEnds ==
  ASSUME NEW x, Resumed(x), j' \in Journals
  PROVE  j'.tail_sync = j'.tail /\ ~j'.recovery
<1> DEFINE m == [x EXCEPT !.dirty = FALSE, !.tail_sync = x.tail]
<1>1. j' = clear_recovery(m)
  BY DEF Resumed
<1>2. DOMAIN m = DOMAIN j'
  BY <1>1 DEF clear_recovery
<1>3. /\ DOMAIN x = DOMAIN j' /\ "tail_sync" \in DOMAIN j' /\ "tail" \in DOMAIN j'
      /\ "recovery" \in DOMAIN j'
  BY <1>2 DEF Journals
<1>4. m.tail_sync = x.tail /\ m.tail = x.tail
  BY <1>3
<1> HIDE DEF m
<1> QED BY <1>1, <1>2, <1>3, <1>4 DEF clear_recovery

\* A restart that has ended finds the pages of its checkpoint at its root or
\* before it.
LEMMA ResumeOwed ==
  ASSUME Inv, Inv', OrderInv, OrderInv', OwedInv, Observe, ResumeStep
  PROVE  OwedInv'
<1>1. /\ pc \in Resuming /\ UNCHANGED <<page, call, crashes>> /\ ~Crashes
      /\ ~call.dumping
  BY DEF ResumeStep, FindFirst, FindLast, FindGroup, FindHead, Resuming, Crashes, Inv,
         RecoveryState
<1>2. CASE pc' \in Resuming
  BY <1>2 DEF OwedInv, Running
<1>3. CASE pc' \notin Resuming
  <2>1. pc' = "idle" /\ Resumes /\ (ResumeFailed \/ \E k : Resumed(k))
    <3>1. CASE FindFirst
      BY <1>3, <3>1 DEF FindFirst, Resuming, Resumes, ResumeFailed
    <3>2. CASE FindLast
      BY <1>3, <3>2 DEF FindLast, Resuming
    <3>3. CASE FindGroup
      BY <1>3, <3>3 DEF FindGroup, restore, Resuming, Resumes, ResumeFailed
    <3>4. CASE FindHead
      BY <1>3, <3>4 DEF FindHead, Resuming, Resumes, Resumed
    <3> QED BY <3>1, <3>2, <3>3, <3>4 DEF ResumeStep
  <2>2. /\ j' \in Journals /\ j'.tail \in Pages /\ j'.head \in Pages
        /\ Running' /\ DOMAIN accepted' \subseteq queue(j'.tail, j'.head)
    BY <1>3 DEF Inv, TypeOK, Journals, UPages, OrderInv, ListsInv, Running
  <2>3. j'.tail_sync = j'.tail /\ ~j'.recovery
    BY <2>1, <2>2, ResumedEnds DEF ResumeFailed, EmptyJournal
  <2>4. /\ accepted' = saved'.live
        /\ saved' = NothingSaved \/ saved'.root = j'.root
    BY <1>1, <2>1, ResumeObserved
  <2>5. saved' \in Points' /\ PointOK(page', saved') /\ Held(saved', j'.tail, j'.head)
    BY <2>2, <2>3 DEF OrderInv, ListsInv, FlashInv, Points
  <2>6. ASSUME NEW p \in DOMAIN accepted'
        PROVE  j'.root \in queue(j'.tail, j'.head) /\ Upto(j'.tail, p, j'.root)
    <3>1. saved' # NothingSaved
      BY <2>4, <2>6 DEF NothingSaved, NoPages
    <3>2. saved'.root = j'.root /\ j'.root # PAGE_NONE /\ j'.root \in UPages
      BY <2>4, <2>5, <2>6, <3>1 DEF PointOK, UPagesOrNone
    <3>3. Upto(j'.tail, p, j'.root) /\ Before(j'.tail, j'.root, j'.head)
      BY <2>4, <2>5, <2>6, <3>2 DEF Held
    <3> QED BY <2>2, <3>2, <3>3, InQueue
  <2>7. LastInv'
    BY <2>6 DEF LastInv, RootIsLast
  <2>8. ~call'.dumping
    BY <1>1
  <2> QED BY <2>3, <2>7, <2>8, OwedEnds
<1> QED BY <1>2, <1>3

\* A power failure leaves nothing but the restart.
LEMMA CrashOwed ==
  ASSUME Crash
  PROVE  OwedInv'
<1>1. pc' = "resume"
  BY DEF Crash
<1> QED BY <1>1 DEF OwedInv, Running, Resuming

-----------------------------------------------------------------------------
(* The theorems                                                            *)

\* Every step keeps the invariant.
LEMMA NextOwed ==
  ASSUME num_blocks >= 2, Inv, OrderInv, OwedInv, [HNext]_hvars
  PROVE  Inv' /\ OrderInv' /\ OwedInv'
<1>1. Inv' /\ OrderInv'
  BY NextOrder
<1>2. CASE UNCHANGED hvars
  <2>1. UNCHANGED <<j, call, pc, accepted, owed>>
    BY <1>2 DEF hvars, vars
  <2>2. Running' = Running /\ LastInv' = LastInv /\ LeftInv' = LeftInv
    BY <2>1 DEF Running, LastInv, LeftInv
  <2>3. StartInv' = StartInv /\ OwedByWalk' = OwedByWalk
    BY <2>1 DEF StartInv, OwedByWalk
  <2> QED BY <1>1, <2>1, <2>2, <2>3 DEF OwedInv
<1>3. CASE HNext
  <2>1. CASE (SkipBad \/ CopyUnreadable) /\ Observe
    BY <1>1, <2>1, PassOwed
  <2>2. CASE EraseOk /\ Observe
    BY <1>1, <2>2, EraseOkOwed
  <2>3. CASE (EraseFails \/ ProgramFails \/ CheckpointFails) /\ Observe
    <3>1. BadBlock /\ pc \in {"scan", "prog", "cp"}
      BY <2>3 DEF EraseFails, ProgramFails, CheckpointFails, erasing
    <3> QED BY <1>1, <2>3, <3>1, FailureOwed
  <2>4. CASE PushMeta /\ Observe
    BY <1>1, <2>4, PushMetaOwed
  <2>5. CASE DumpMeta /\ Observe
    BY <1>1, <2>5, DumpMetaOwed
  <2>6. CASE Checkpoint /\ Observe
    BY <1>1, <2>6, CheckpointOwed
  <2>7. CASE (FindFirst \/ FindLast \/ FindGroup \/ FindHead) /\ Observe
    BY <1>1, <2>7, ResumeOwed DEF ResumeStep
  <2>8. CASE (Enqueue \/ Copy \/ Pad \/ Clear) /\ Observe
    BY <1>1, <2>8, WritesOwed
  <2>9. CASE Gc /\ Observe
    BY <1>1, <2>9, GcOwed
  <2>10. CASE Recover /\ Observe
    BY <1>1, <2>10, RecoverOwed
  <2>11. CASE Crash /\ Observe
    BY <1>1, <2>11, CrashOwed
  <2> QED
    BY <1>3, <2>1, <2>2, <2>3, <2>4, <2>5, <2>6, <2>7, <2>8, <2>9, <2>10, <2>11
    DEF HNext
<1> QED BY <1>1, <1>2, <1>3

\* Outside recovery no accepted page lies behind the root, and what a recovery
\* owes its client is still ahead of its walk, whatever fails and whenever power
\* is lost, on every chip of two blocks or more.
THEOREM OwedInvariant ==
  ASSUME num_blocks >= 2 PROVE HSpec => [](Inv /\ OrderInv /\ OwedInv)
<1>1. HInit => Inv /\ OrderInv /\ OwedInv
  BY InitInv, InitOrder DEF HInit, Init, OwedInv, Running, Resuming
<1>2. Inv /\ OrderInv /\ OwedInv /\ [HNext]_hvars => (Inv /\ OrderInv /\ OwedInv)'
  BY NextOwed
<1> QED BY <1>1, <1>2, PTL DEF HSpec

\* A recovery finishes only after every accepted page of the failed block has
\* been handed to the client since the last restart of the recovery.
THEOREM RecoveriesAreComplete ==
  ASSUME num_blocks >= 2 PROVE HSpec => RecoveryIsComplete
<1>1. Inv /\ OrderInv /\ OwedInv /\ [HNext]_hvars => [Commits /\ j.enum_done => owed = {}]_hvars
  <2> SUFFICES ASSUME Inv, OwedInv, Commits, j.enum_done PROVE owed = {}
    OBVIOUS
  <2>1. Running
    BY DEF Commits, Running, Resuming
  <2>2. j.recovery
    BY <2>1 DEF Inv, RecoveryState, RecoveryFields
  <2> QED BY <2>1, <2>2 DEF OwedInv, OwedByWalk
<1> QED BY <1>1, OwedInvariant, PTL DEF RecoveryIsComplete, HSpec

-----------------------------------------------------------------------------
(* The blocks of the head and of the root                                  *)

\* Block b can be programmed and read: it is not marked, and its first page,
\* which has the marker, can be read.
Usable(m, pg, b) == b \notin m /\ pg[first_page(b)].kind # "torn"

\* The block of the head is usable from its erase on.
GoodHead == Entered => Usable(marked, page, block_of(j.head))

\* The dumped metadata lies behind the head, and is no longer in its block once
\* that block has failed; a dump begins in a new block.
DumpPlace ==
  /\ call.dumping => is_aligned(j.head, ppb)
  /\ j.recover_meta # PAGE_NONE => Before(j.tail_sync, j.recover_meta, j.head)
  /\ j.bad_meta => block_of(j.recover_meta) # block_of(j.head)

\* The first page of a block is programmed right after its erase.
BlankStart ==
  pc = "prog" /\ is_aligned(j.head, ppb) => is_erased(page, j.head)

\* The search of a restart stays in blocks that are usable.
GoodSearch ==
  /\ pc \in {"r_last", "r_group"} => Usable(marked, page, search.at)
  /\ pc = "r_head" => Usable(marked, page, block_of(j.root))

BlockInv == (Running => GoodHead /\ DumpPlace /\ BlankStart) /\ GoodSearch

\* What the command of a step may change on the flash.
TouchesHead ==
  \A q \in Pages : page'[q] # page[q] =>
    \/ pc = "scan" /\ block_of(q) = block_of(j.head)
    \/ pc = "prog" /\ q = j.head
    \/ pc = "cp" /\ q = j.head + 1

\* A block that prepare_head or a restart finds good is usable.
LEMMA UsableIsGood ==
  ASSUME NEW b \in Blocks
  PROVE  Usable(marked, page, b) <=> ~dhara_nand_is_bad(b)
<1>1. first_page(b) \in Pages
  BY FirstPage DEF UPages
<1> QED BY <1>1 DEF Usable, dhara_nand_is_bad, readable

\* The command of a step is carried out at the head.
LEMMA CommandTouches ==
  ASSUME Inv, OrderInv,
         \/ EraseOk \/ EraseFails \/ ProgramFails \/ CheckpointFails \/ PushMeta
         \/ DumpMeta \/ Checkpoint \/ SkipBad \/ CopyUnreadable
  PROVE  TouchesHead /\ pc \in {"scan", "prog", "cp"}
<1>1. CASE EraseOk \/ EraseFails
  BY <1>1 DEF EraseOk, EraseFails, erasing, erase_done, erase_torn, TouchesHead
<1>2. CASE ProgramFails
  <2>1. pc = "prog" /\ page' = program_torn(j.head)
    BY <1>2 DEF ProgramFails
  <2> QED BY <2>1, CallFacts, ProgramWrites DEF Written, TouchesHead
<1>3. CASE CheckpointFails
  <2>1. pc = "cp" /\ page' = program_torn(j.head + 1)
    BY <1>3 DEF CheckpointFails
  <2> QED BY <2>1, CallFacts, CheckpointPage, ProgramWrites DEF Written, TouchesHead
<1>4. CASE PushMeta \/ DumpMeta
  <2>1. ProgramOk /\ pc = "prog"
    BY <1>4 DEF PushMeta, DumpMeta, ProgramOk
  <2>2. CASE programs
    <3>1. \E c \in contents : page' \in programmed(j.head, c)
      BY <2>1, <2>2 DEF ProgramOk
    <3> QED BY <2>1, <3>1, CallFacts, ProgramWrites DEF Written, TouchesHead
  <2>3. CASE ~programs
    BY <2>1, <2>3 DEF ProgramOk, TouchesHead
  <2> QED BY <2>2, <2>3
<1>5. CASE Checkpoint
  <2>1. pc = "cp" /\ page' \in programmed(j.head + 1, checkpoint)
    BY <1>5 DEF Checkpoint
  <2> QED BY <2>1, CallFacts, CheckpointPage, ProgramWrites DEF Written, TouchesHead
<1>6. CASE SkipBad \/ CopyUnreadable
  BY <1>6 DEF SkipBad, CopyUnreadable, TouchesHead
<1> QED BY <1>1, <1>2, <1>3, <1>4, <1>5, <1>6

\* It leaves the first page of a block alone, unless the head is there.
LEMMA FirstPageStays ==
  ASSUME Inv, OrderInv, TouchesHead, pc \in {"scan", "prog", "cp"}, NEW b \in Blocks,
         b # block_of(j.head) \/ ~is_aligned(j.head, ppb)
  PROVE  page'[first_page(b)] = page[first_page(b)]
<1>1. /\ first_page(b) \in Pages /\ first_page(b) \in UPages
      /\ block_of(first_page(b)) = b /\ first_page(b) = block_start(first_page(b))
  <2>1. 0 \in 0 .. (ppb - 1)
    BY Sizes
  <2>2. first_page(b) + 0 \in Pages /\ block_of(first_page(b) + 0) = b
    BY <2>1, BlockPage
  <2>3. first_page(b) + 0 = first_page(b)
    BY BlocksApart
  <2> QED BY <2>2, <2>3, FirstPage DEF block_start
<1>2. /\ j.head \in Pages /\ j.head \in UPages /\ (pc = "scan" => is_aligned(j.head, ppb))
  BY CallFacts
<1>3. pc = "cp" => /\ j.head + 1 = cp_page(j.head) /\ j.head + 1 \in CpPages
                   /\ block_of(j.head + 1) = block_of(j.head)
  BY CheckpointPage
<1>4. pc = "cp" => first_page(b) # j.head + 1
  BY <1>1, <1>3, GroupOrder
<1>5. is_aligned(first_page(b), ppb)
  BY <1>1, AlignedBlock
<1> QED BY <1>1, <1>2, <1>3, <1>4, <1>5 DEF TouchesHead

\* A page of the chip that is in order before an aligned head is in another block.
LEMMA SparedBlock ==
  ASSUME NEW k \in Journals, ClearOf(k.tail_sync, k.head), is_aligned(k.head, ppb),
         NEW x \in UPagesOrNone, x # PAGE_NONE, Before(k.tail_sync, x, k.head)
  PROVE  block_of(x) # block_of(k.head)
<1>1. k.tail_sync \in Pages /\ k.head \in Pages /\ x \in Pages
  BY DEF Journals, UPages, UPagesOrNone
<1> QED BY <1>1, BlockIsSpared

\* What a failed command marks, and what it keeps of the dumped metadata.
FailureMarks ==
  /\ marked' \subseteq marked \cup {block_of(j.head)}
  /\ marked' # marked =>
       /\ is_aligned(j'.head, ppb)
       /\ \/ is_aligned(j.head, ppb)
          \/ j.recovery /\ j'.recovery /\ j'.root = j.recover_root
             /\ j'.recover_root = j.recover_root
  /\ j'.recover_meta = j.recover_meta
  /\ j'.bad_meta => j.bad_meta \/ is_aligned(j'.head, ppb)
  /\ call'.dumping => is_aligned(j'.head, ppb)
  /\ j'.recovery => j.recovery \/ call' = NoCall

\* A failed command does no more than that.
LEMMA BadBlockMarks ==
  ASSUME Inv, BadBlock, call.dumping => is_aligned(j.head, ppb)
  PROVE  FailureMarks /\ (can_skip(j) => is_aligned(j'.head, ppb))
<1>1. /\ j \in Journals /\ call \in CallRecords /\ j.head \in UPages
      /\ call.dumping => ~j.recovery
  BY DEF Inv, TypeOK, RecoveryState, Journals
<1> DEFINE sk == skip_block(counted)
           start == [sk EXCEPT !.recover_root = j.root,
                               !.recover_next = recover_start(j.root)]
           only == \A m : m \in mark_bad({block_of(j.head)}) =>
                     m \subseteq marked \cup {block_of(j.head)}
<1>2. /\ counted \in Journals /\ SameRecovery(j, counted) /\ counted.root = j.root
      /\ counted.head = j.head /\ counted.tail_sync = j.tail_sync
  BY <1>1, CountedType DEF counted, Journals
<1>3. /\ sk \in Journals /\ SameRecovery(j, sk) /\ sk.root = j.root
  BY <1>2, SkipBlockType DEF SameRecovery
<1>4. is_aligned(sk.head, ppb)
  BY <1>1, SkippedPointers
<1>5. can_skip(counted) <=> can_skip(j)
  BY <1>2 DEF can_skip
<1> HIDE DEF sk
<1>6. /\ start \in Journals /\ start.head = sk.head /\ start.recovery = j.recovery
      /\ start.recover_meta = j.recover_meta /\ start.bad_meta = j.bad_meta
  BY <1>1, <1>3, RecoverStart DEF Journals, SameRecovery
<1> HIDE DEF start
<1>7. ~NoCall.dumping
  BY DEF NoCall
<1>8. only
  BY DEF mark_bad
<1>9. ASSUME NEW k \in Journals, NEW c \in CallRecords, prepare_head(k, c)
      PROVE  /\ j'.recover_meta = k.recover_meta /\ j'.bad_meta = k.bad_meta
             /\ j'.head = k.head /\ j'.recovery = k.recovery
  <2>1. CASE Return(k, "JOURNAL_FULL")
    BY <2>1 DEF Return
  <2>2. CASE j' = [k EXCEPT !.dirty = TRUE]
    BY <2>2 DEF Journals
  <2> QED BY <1>9, <2>1, <2>2 DEF prepare_head
<1>10. CASE call.dumping /\ dump_failed
  <2>1. marked' \in mark_bad({block_of(j.head)}) /\ is_aligned(j.head, ppb)
    BY <1>10 DEF dump_failed
  <2>2. [call EXCEPT !.dumps = @ + 1] \in CallRecords
    BY <1>1 DEF CallRecords
  <2>3. CASE ~can_skip(counted) /\ Return(counted, "JOURNAL_FULL")
    <3>1. j' = counted /\ call' = NoCall
      BY <2>3, ReturnError
    <3> QED BY <1>2, <1>5, <1>7, <1>8, <2>1, <2>3, <3>1 DEF FailureMarks, SameRecovery
  <2>4. CASE Return(sk, "TOO_BAD")
    <3>1. j' = sk /\ call' = NoCall
      BY <2>4, ReturnError
    <3> QED BY <1>3, <1>4, <1>7, <1>8, <2>1, <3>1 DEF FailureMarks, SameRecovery
  <2>5. CASE prepare_head(sk, [call EXCEPT !.dumps = @ + 1])
    <3>1. /\ j'.recover_meta = sk.recover_meta /\ j'.bad_meta = sk.bad_meta
          /\ j'.head = sk.head /\ j'.recovery = sk.recovery
      BY <1>3, <1>9, <2>2, <2>5
    <3> QED BY <1>3, <1>4, <1>8, <2>1, <3>1 DEF FailureMarks, SameRecovery
  <2> QED BY <1>10, <2>3, <2>4, <2>5 DEF dump_failed, sk
<1>11. CASE ~call.dumping /\ recover_from
  <2>1. CASE ~can_skip(counted) /\ Return(counted, "JOURNAL_FULL") /\ UNCHANGED marked
    <3>1. j' = counted /\ call' = NoCall
      BY <2>1, ReturnError
    <3> QED BY <1>2, <1>5, <1>7, <2>1, <3>1 DEF FailureMarks, SameRecovery
  <2>2. CASE j.recovery /\ restart_recovery(sk, j.head)
    <3> DEFINE hm == /\ sk.recover_meta # PAGE_NONE
                     /\ align_eq(sk.recover_meta, j.head, ppb)
               k == [sk EXCEPT !.bad_meta = @ \/ hm,
                               !.enum_done = FALSE,
                               !.recover_next = recover_start(sk.recover_root),
                               !.root = sk.recover_root]
    <3>1. Return(k, "RECOVER") /\ (UNCHANGED marked \/ marked' \in mark_bad({block_of(j.head)}))
      BY <2>2 DEF restart_recovery
    <3>2. j' = k /\ call' = NoCall
      BY <3>1, ReturnError
    <3>3. /\ k.recovery = j.recovery /\ k.recover_root = j.recover_root
          /\ k.recover_meta = j.recover_meta /\ k.head = sk.head /\ k.root = j.recover_root
      BY <1>3 DEF Journals, SameRecovery
    <3> HIDE DEF k
    <3> QED BY <1>4, <1>7, <1>8, <2>2, <3>1, <3>2, <3>3 DEF FailureMarks
  <2>3. CASE is_aligned(j.head, ppb) /\ ~j.recovery
             /\ marked' \in mark_bad({block_of(j.head)})
             /\ (Return(sk, "TOO_BAD") \/ prepare_head(sk, [call EXCEPT !.tries = @ + 1]))
    <3>1. [call EXCEPT !.tries = @ + 1] \in CallRecords
      BY <1>1 DEF CallRecords
    <3>2. /\ j'.recover_meta = sk.recover_meta /\ j'.bad_meta = sk.bad_meta
          /\ j'.head = sk.head /\ j'.recovery = sk.recovery
      <4>1. CASE Return(sk, "TOO_BAD")
        BY <4>1, ReturnError
      <4>2. CASE prepare_head(sk, [call EXCEPT !.tries = @ + 1])
        BY <1>3, <1>9, <3>1, <4>2
      <4> QED BY <2>3, <4>1, <4>2
    <3> QED BY <1>3, <1>4, <1>8, <2>3, <3>2 DEF FailureMarks, SameRecovery
  <2>4. CASE UNCHANGED marked /\ Return([start EXCEPT !.recovery = TRUE], "RECOVER")
    <3>1. j' = [start EXCEPT !.recovery = TRUE] /\ call' = NoCall
      BY <2>4, ReturnError
    <3>2. /\ j'.head = start.head /\ j'.recover_meta = start.recover_meta
          /\ j'.bad_meta = start.bad_meta
      BY <1>6, <3>1 DEF Journals
    <3> QED BY <1>4, <1>6, <1>7, <2>4, <3>1, <3>2 DEF FailureMarks
  <2>5. CASE UNCHANGED marked /\ prepare_head(start, [call EXCEPT !.dumping = TRUE])
    <3>1. [call EXCEPT !.dumping = TRUE] \in CallRecords
      BY <1>1 DEF CallRecords
    <3>2. /\ j'.recover_meta = start.recover_meta /\ j'.bad_meta = start.bad_meta
          /\ j'.head = start.head /\ j'.recovery = start.recovery
      BY <1>6, <1>9, <2>5, <3>1
    <3> QED BY <1>4, <1>6, <2>5, <3>2 DEF FailureMarks
  <2>6. \/ ~can_skip(counted) /\ Return(counted, "JOURNAL_FULL") /\ UNCHANGED marked
        \/ j.recovery /\ restart_recovery(sk, j.head)
        \/ /\ is_aligned(j.head, ppb) /\ ~j.recovery
           /\ marked' \in mark_bad({block_of(j.head)})
           /\ (Return(sk, "TOO_BAD") \/ prepare_head(sk, [call EXCEPT !.tries = @ + 1]))
        \/ UNCHANGED marked /\ Return([start EXCEPT !.recovery = TRUE], "RECOVER")
        \/ UNCHANGED marked /\ prepare_head(start, [call EXCEPT !.dumping = TRUE])
    BY <1>11 DEF recover_from, sk, start
  <2> QED BY <2>1, <2>2, <2>3, <2>4, <2>5, <2>6
<1> QED BY <1>10, <1>11 DEF BadBlock

\* Neither does a block that is passed as bad, nor a copy without a source.
LEMMA PassMarks ==
  ASSUME Inv, SkipBad \/ CopyUnreadable, call.dumping => is_aligned(j.head, ppb)
  PROVE  FailureMarks
<1>1. /\ j \in Journals /\ call \in CallRecords
  BY DEF Inv, TypeOK
<1>2. CASE SkipBad
  <2>1. /\ SameRecovery(j, counted) /\ counted \in Journals /\ counted.head = j.head
        /\ can_skip(counted) <=> can_skip(j)
    BY <1>1, CountedType DEF counted, can_skip, Journals
  <2>2. /\ SameRecovery(j, skip_block(counted)) /\ is_aligned(skip_block(counted).head, ppb)
    BY <1>1, <2>1, SkipBlockType, SkippedPointers DEF SameRecovery
  <2>3. /\ \/ j' = counted /\ call' = NoCall
           \/ j' = skip_block(counted)
        /\ call'.dumping => call.dumping
        /\ marked' = marked /\ is_aligned(j.head, ppb) = is_aligned(j.head, ppb)
    BY <1>1, <1>2 DEF SkipBad, Return, NoCall, CallRecords
  <2>4. ~NoCall.dumping
    BY DEF NoCall
  <2> QED BY <2>1, <2>2, <2>3, <2>4 DEF FailureMarks, SameRecovery
<1>3. CASE CopyUnreadable
  <2>1. j' = j /\ call' = NoCall /\ marked' = marked
    BY <1>3, ReturnError DEF CopyUnreadable
  <2> QED BY <2>1 DEF FailureMarks, NoCall
<1> QED BY <1>2, <1>3

\* A journal that retreats keeps the block of its head usable or leaves it.
LEMMA RetreatBlock ==
  ASSUME Inv, Inv', OrderInv, OrderInv', BlockInv, pc \in {"scan", "prog", "cp"},
         TouchesHead, Retreats, FailureMarks
  PROVE  BlockInv'
<1>1. /\ j \in Journals /\ j.head \in UPages /\ j.tail_sync \in Pages
      /\ j.head \in Pages /\ block_of(j.head) \in Blocks /\ Running
      /\ GoodHead /\ DumpPlace
  BY CallFacts DEF BlockInv
<1>2. /\ pc' \in {"idle", "scan"} /\ j'.tail_sync = j.tail_sync
      /\ j'.head = j.head \/ is_aligned(j'.head, ppb)
      /\ Onward(j.tail_sync, j.head, j'.head)
  BY RetreatRing DEF Retreats
<1>3. /\ j' \in Journals /\ j'.head \in Pages /\ Running'
      /\ RingOK(j', call'.dumping) /\ RecoveryFields(j')
  BY <1>2 DEF Inv, TypeOK, RecoveryState, Journals, UPages, Running, Resuming, OrderInv, RingInv
<1>4. GoodHead'
  <2>1. SUFFICES ASSUME ~is_aligned(j'.head, ppb)
                 PROVE  Usable(marked', page', block_of(j'.head))
    BY <1>2 DEF GoodHead, Entered
  <2>2. j'.head = j.head /\ ~is_aligned(j.head, ppb) /\ marked' = marked
    BY <1>2, <2>1 DEF FailureMarks
  <2>3. Usable(marked, page, block_of(j.head))
    BY <1>1, <2>2 DEF GoodHead, Entered
  <2>4. page'[first_page(block_of(j.head))] = page[first_page(block_of(j.head))]
    BY <1>1, <2>2, FirstPageStays
  <2> QED BY <2>2, <2>3, <2>4 DEF Usable
<1>5. DumpPlace'
  <2> DEFINE x == j.recover_meta
  <2>1. j'.recover_meta = x
    BY DEF FailureMarks
  <2>2. ASSUME x # PAGE_NONE
        PROVE  x \in UPagesOrNone /\ x \in Pages /\ Before(j'.tail_sync, x, j'.head)
    <3>1. x \in Pages /\ x \in UPagesOrNone /\ Before(j.tail_sync, x, j.head)
      BY <1>1, <2>2 DEF DumpPlace, Journals, UPages, UPagesOrNone
    <3> QED BY <1>1, <1>2, <1>3, <3>1, OnwardBefore
  <2>3. ASSUME j'.bad_meta PROVE block_of(x) # block_of(j'.head)
    <3>1. x # PAGE_NONE
      BY <1>3, <2>1, <2>3 DEF RecoveryFields
    <3>2. CASE is_aligned(j'.head, ppb)
      BY <1>3, <2>2, <3>1, <3>2, SparedBlock DEF RingOK
    <3>3. CASE ~is_aligned(j'.head, ppb)
      BY <1>1, <1>2, <2>3, <3>3 DEF FailureMarks, DumpPlace
    <3> QED BY <3>2, <3>3
  <2> QED BY <2>1, <2>2, <2>3 DEF DumpPlace, FailureMarks
<1> QED BY <1>2, <1>4, <1>5 DEF BlockInv, BlankStart, GoodSearch

\* A block has been erased: the head enters it.
LEMMA EraseOkBlock ==
  ASSUME Inv, Inv', OrderInv, BlockInv, EraseOk
  PROVE  BlockInv'
<1>1. /\ pc = "scan" /\ pc' = "prog" /\ UNCHANGED <<marked, j>>
      /\ call'.dumping = call.dumping /\ page' = erase_done(block_of(j.head))
      /\ ~dhara_nand_is_bad(block_of(j.head))
  BY DEF EraseOk, erasing, Inv, TypeOK, CallRecords
<1>2. /\ j.head \in Pages /\ block_of(j.head) \in Blocks /\ Running /\ DumpPlace
      /\ is_aligned(j.head, ppb)
  BY <1>1, CallFacts DEF BlockInv
<1>3. \A p \in Pages : block_of(p) = block_of(j.head) => page'[p] = Erased
  BY <1>1 DEF erase_done
<1>4. j.head = first_page(block_of(j.head))
  BY <1>2, AlignedBlock DEF block_start
<1>5. GoodHead' /\ BlankStart'
  BY <1>1, <1>2, <1>3, <1>4, UsableIsGood DEF GoodHead, BlankStart, Usable, Erased, is_erased
<1>6. DumpPlace'
  BY <1>1, <1>2 DEF DumpPlace
<1> QED BY <1>1, <1>5, <1>6 DEF BlockInv, GoodSearch

\* What has been programmed at the head leaves its block usable.
LEMMA HeadProgrammed ==
  ASSUME Inv, OrderInv, BlockInv, ProgramOk, marked' = marked, TouchesHead
  PROVE  Usable(marked', page', block_of(j.head))
<1>1. pc = "prog" /\ source_readable
  BY DEF ProgramOk
<1>2. /\ j.head \in Pages /\ block_of(j.head) \in Blocks /\ Running /\ GoodHead
      /\ page \in [Pages -> Contents] /\ BlankStart
  BY <1>1, CallFacts DEF BlockInv
<1>3. Usable(marked, page, block_of(j.head))
  BY <1>1, <1>2 DEF GoodHead, Entered
<1>4. CASE ~is_aligned(j.head, ppb)
  <2>1. page'[first_page(block_of(j.head))] = page[first_page(block_of(j.head))]
    BY <1>1, <1>2, <1>4, FirstPageStays
  <2> QED BY <1>3, <2>1 DEF Usable
<1>5. CASE is_aligned(j.head, ppb)
  <2>1. j.head = first_page(block_of(j.head)) /\ page[j.head].kind = "erased"
    BY <1>1, <1>2, <1>5, AlignedBlock DEF block_start, BlankStart, is_erased
  <2>2. CASE ~programs
    BY <1>3, <2>2 DEF ProgramOk, Usable
  <2>3. CASE programs
    <3>1. PICK c \in contents : page' \in programmed(j.head, c)
      BY <2>3 DEF ProgramOk
    <3>2. page' = [page EXCEPT ![j.head] = c]
      BY <2>1, <3>1 DEF programmed
    <3>3. c.kind # "torn"
      <4>1. CASE call.dumping
        BY <3>1, <4>1 DEF contents
      <4>2. CASE ~call.dumping /\ call.op = "copy"
        BY <1>1, <3>1, <4>2 DEF contents, source_readable, readable
      <4>3. CASE ~call.dumping /\ call.op # "copy"
        BY <3>1, <4>3 DEF contents, UserPages
      <4> QED BY <4>1, <4>2, <4>3
    <3> QED BY <1>2, <1>3, <2>1, <3>2, <3>3 DEF Usable
  <2> QED BY <2>2, <2>3
<1> QED BY <1>4, <1>5

\* The call returns with the head farther on: in the same block, which is still
\* usable, or at the start of another.
LEMMA MovesOn ==
  ASSUME Inv, Inv', OrderInv, OrderInv', BlockInv, pc \in {"prog", "cp"},
         pc' = "idle", call' = NoCall,
         Usable(marked', page', block_of(j.head)), HeadGoes(j, j'),
         Onward(j.tail_sync, j.head, j'.head), j'.head # j.head,
         j'.recover_meta # PAGE_NONE =>
           /\ j'.tail_sync = j.tail_sync
           /\ j'.recover_meta = j.recover_meta \/ j'.recover_meta = j.head,
         j'.bad_meta => j.bad_meta /\ j'.recover_meta = j.recover_meta
  PROVE  BlockInv'
<1>1. /\ j \in Journals /\ j.tail_sync \in Pages /\ j.head \in Pages /\ Running
      /\ DumpPlace
  BY CallFacts DEF BlockInv
<1>2. /\ j' \in Journals /\ j'.head \in Pages /\ Running' /\ ~call'.dumping
      /\ RingOK(j', call'.dumping) /\ RecoveryFields(j')
  BY DEF Inv, TypeOK, RecoveryState, Journals, UPages, Running, Resuming, OrderInv, RingInv,
         NoCall
<1>3. GoodHead'
  BY DEF GoodHead, Entered, HeadGoes
<1> DEFINE x == j'.recover_meta
<1>4. ASSUME x # PAGE_NONE
      PROVE  x \in UPagesOrNone /\ x \in Pages /\ Before(j'.tail_sync, x, j'.head)
  <2>1. x \in UPagesOrNone /\ x \in Pages
    BY <1>2, <1>4 DEF Journals, UPages, UPagesOrNone
  <2>2. Upto(j.tail_sync, j.head, j.head)
    BY <1>1, OrderTrans
  <2>3. Before(j.tail_sync, j.head, j'.head)
    BY <1>1, <2>2 DEF Onward
  <2>4. CASE x = j.recover_meta
    <3>1. Before(j.tail_sync, x, j.head)
      BY <1>1, <1>4, <2>4 DEF DumpPlace
    <3> QED BY <1>1, <1>2, <1>4, <2>1, <3>1, OnwardBefore
  <2> QED BY <1>4, <2>1, <2>3, <2>4
<1>5. ASSUME j'.bad_meta PROVE block_of(x) # block_of(j'.head)
  <2>1. x # PAGE_NONE
    BY <1>2, <1>5 DEF RecoveryFields
  <2>2. CASE is_aligned(j'.head, ppb)
    BY <1>2, <1>4, <2>1, <2>2, SparedBlock DEF RingOK
  <2>3. CASE block_of(j'.head) = block_of(j.head)
    BY <1>1, <1>5, <2>3 DEF DumpPlace
  <2> QED BY <2>2, <2>3 DEF HeadGoes
<1>6. DumpPlace'
  BY <1>2, <1>4, <1>5 DEF DumpPlace
<1> QED BY <1>3, <1>6 DEF BlockInv, BlankStart, GoodSearch

\* The user page of an enqueue or copy is on the flash.
LEMMA PushMetaBlock ==
  ASSUME Inv, Inv', OrderInv, OrderInv', BlockInv, PushMeta
  PROVE  BlockInv'
<1>1. /\ pc = "prog" /\ marked' = marked /\ ProgramOk /\ ~call.dumping
  BY DEF PushMeta, ProgramOk
<1>2. TouchesHead
  BY CommandTouches
<1>3. Usable(marked', page', block_of(j.head))
  BY <1>1, <1>2, HeadProgrammed
<1>4. /\ j \in Journals /\ j.head \in UPages /\ j.head \in Pages
      /\ j.tail_sync \in Pages /\ RingOK(j, call.dumping) /\ Running /\ DumpPlace
  BY <1>1, CallFacts DEF BlockInv
<1>5. CASE pc' = "cp" /\ UNCHANGED <<j, call, client>>
  <2>1. GoodHead' /\ DumpPlace'
    BY <1>3, <1>4, <1>5 DEF GoodHead, DumpPlace
  <2> QED BY <1>5, <2>1 DEF BlockInv, BlankStart, GoodSearch
<1>6. CASE /\ ~is_aligned(j.head + 2, ppc)
           /\ Return([j EXCEPT !.root = j.head, !.head = j.head + 1], "OK")
  <2> DEFINE k == [j EXCEPT !.root = j.head, !.head = j.head + 1]
  <2>1. j.head + 1 \in UPages /\ block_of(j.head + 1) = block_of(j.head)
    BY <1>4, <1>6, NextOffset
  <2>2. /\ k \in Journals /\ k.head = j.head + 1 /\ k.tail_sync = j.tail_sync
        /\ SameRecovery(j, k)
    BY <1>4, <2>1 DEF Journals, UPagesOrNone, SameRecovery
  <2>3. Return(k, "OK")
    BY <1>6
  <2> HIDE DEF k
  <2>4. j.head + 1 \in Pages /\ j.head <= j.head + 1 /\ j.head # j.head + 1
    BY <1>4, <2>1 DEF UPages, Pages
  <2>5. Onward(j.tail_sync, j.head, k.head)
    BY <1>4, <2>1, <2>2, <2>4, OnwardInBlock DEF RingOK
  <2>6. TailAdvances(k, j') /\ pc' = "idle" /\ call' = NoCall
    BY <2>2, <2>3, ReturnOk
  <2>7. SameRecovery(j, j') /\ j'.head = k.head /\ RecoveryFields(j')
    BY <2>2, <2>3, <2>6, ReturnRecovery
    DEF SameRecovery, TailAdvances, Inv, RecoveryState
  <2>8. j'.recovery => j'.tail_sync = j.tail_sync
    BY <2>2, <2>6, <2>7 DEF TailAdvances, SameRecovery
  <2>9. HeadGoes(j, j')
    BY <2>1, <2>2, <2>7 DEF HeadGoes
  <2> QED
    BY <1>1, <1>3, <2>2, <2>4, <2>5, <2>6, <2>7, <2>8, <2>9, MovesOn
    DEF SameRecovery, RecoveryFields
<1> QED BY <1>5, <1>6 DEF PushMeta

\* The metadata is dumped: the recovery begins.
LEMMA DumpMetaBlock ==
  ASSUME num_blocks >= 2, Inv, Inv', OrderInv, OrderInv', BlockInv, DumpMeta
  PROVE  BlockInv'
<1>1. /\ pc = "prog" /\ marked' = marked /\ ProgramOk /\ call.dumping
  BY DEF DumpMeta, ProgramOk
<1>2. TouchesHead
  BY CommandTouches
<1>3. Usable(marked', page', block_of(j.head))
  BY <1>1, <1>2, HeadProgrammed
<1>4. /\ j \in Journals /\ j.head \in UPages /\ j.head \in Pages
      /\ j.tail_sync \in Pages /\ ClearOf(j.tail_sync, j.head) /\ RecoveryFields(j)
      /\ ~j.recovery /\ ~RollsOnto(j.tail_sync, j.head)
  BY <1>1, CallFacts DEF Inv, RecoveryState
<1> DEFINE n == next_upage(j.head)
           m == move_head(j, n)
           k == [m EXCEPT !.recover_meta = j.head, !.recovery = TRUE]
<1>5. n \in UPages /\ n # j.head /\ Onward(j.tail_sync, j.head, n)
  BY <1>4, NextUPage, OnwardNext DEF RollsOnto
<1> HIDE DEF n
<1>6. /\ m \in Journals /\ SameRecovery(j, m) /\ m.head = n /\ m.tail_sync = j.tail_sync
  BY <1>4, <1>5, MoveHeadType, MoveHeadPointers DEF SamePointers
<1> HIDE DEF m
<1>7. /\ k.head = n /\ k.recover_meta = j.head /\ k.tail_sync = j.tail_sync
      /\ k.bad_meta = j.bad_meta
  BY <1>6 DEF Journals, SameRecovery
<1>8. Return(k, "RECOVER")
  BY DEF DumpMeta, m, n
<1> HIDE DEF k
<1>9. j' = k /\ pc' = "idle" /\ call' = NoCall
  BY <1>8, ReturnError
<1>10. HeadGoes(j, j')
  BY <1>4, <1>7, <1>9, NextGoes DEF HeadGoes, n
<1>11. ~j.bad_meta
  BY <1>4 DEF RecoveryFields
<1> QED BY <1>1, <1>3, <1>5, <1>7, <1>9, <1>10, <1>11, MovesOn

\* A checkpoint leaves the head's block usable. What the end of a recovery marks is
\* the block that has been recovered and that of the dumped metadata, which the
\* head has left.
LEMMA CheckpointUsable ==
  ASSUME Inv, OrderInv, OwedInv, BlockInv, Checkpoint
  PROVE  Usable(marked', page', block_of(j.head))
<1> DEFINE b == block_of(j.head)
<1>1. pc = "cp" /\ TouchesHead
  BY CommandTouches DEF Checkpoint
<1>2. /\ j \in Journals /\ j.head \in UPages /\ j.head \in Pages /\ b \in Blocks
      /\ Running /\ GoodHead /\ DumpPlace /\ RecoveryFields(j) /\ page \in [Pages -> Contents]
  BY <1>1, CallFacts DEF BlockInv, Inv, RecoveryState
<1>3. Usable(marked, page, b)
  BY <1>1, <1>2 DEF GoodHead, Entered
<1>4. page'[first_page(b)] = page[first_page(b)]
  <2>1. /\ j.head + 1 = cp_page(j.head) /\ j.head + 1 \in CpPages
        /\ first_page(b) \in UPages /\ first_page(b) \in Pages
    BY <1>1, <1>2, CheckpointPage, FirstPage DEF UPages
  <2>2. first_page(b) # j.head + 1
    BY <2>1, GroupOrder
  <2> QED BY <1>1, <2>1, <2>2 DEF TouchesHead
<1>5. b \notin marked'
  <2>1. CASE ~j.enum_done
    BY <1>3, <2>1 DEF Checkpoint, Usable
  <2>2. CASE j.enum_done
    <3> DEFINE new == {block_of(j.recover_root)} \cup
                        (IF j.bad_meta THEN {block_of(j.recover_meta)} ELSE {})
    <3>1. marked' \in mark_bad(new)
      BY <2>2 DEF Checkpoint
    <3>2. j.recovery
      BY <1>2, <2>2 DEF RecoveryFields
    <3>3. b # block_of(j.recover_root)
      <4>1. CASE j.recover_root = PAGE_NONE
        BY <1>2, <4>1, OutsideBlocks
      <4>2. CASE j.recover_root # PAGE_NONE
        BY <1>2, <3>2, <4>2 DEF OwedInv, LeftInv
      <4> QED BY <4>1, <4>2
    <3>4. b \notin new
      BY <1>2, <3>3 DEF DumpPlace
    <3> HIDE DEF new
    <3> QED BY <1>3, <3>1, <3>4 DEF mark_bad, Usable
  <2> QED BY <2>1, <2>2
<1> QED BY <1>3, <1>4, <1>5 DEF Usable

\* A checkpoint completes its group.
LEMMA CheckpointBlock ==
  ASSUME num_blocks >= 2, Inv, Inv', OrderInv, OrderInv', OwedInv, BlockInv, Checkpoint
  PROVE  BlockInv'
<1>1. pc = "cp"
  BY DEF Checkpoint
<1>2. Usable(marked', page', block_of(j.head))
  BY CheckpointUsable
<1>3. PICK k \in Journals :
        /\ Return(k, "OK") /\ SameRecovery(k, j')
        /\ Onward(j.tail_sync, j.head, k.head) /\ k.head # j.head
        /\ HeadGoes(j, k)
        /\ j'.recovery => SameRecovery(j, j') /\ k.tail_sync = j.tail_sync
  BY CheckpointReturns
<1>4. TailAdvances(k, j') /\ pc' = "idle" /\ call' = NoCall
  BY <1>3, ReturnOk
<1>5. j'.head = k.head /\ HeadGoes(j, j') /\ RecoveryFields(j')
  BY <1>3, <1>4 DEF TailAdvances, HeadGoes, Inv, RecoveryState
<1>6. j'.recovery => j'.tail_sync = j.tail_sync
  BY <1>3, <1>4 DEF TailAdvances, SameRecovery
<1> QED
  BY <1>1, <1>2, <1>3, <1>4, <1>5, <1>6, MovesOn DEF SameRecovery, RecoveryFields

-----------------------------------------------------------------------------
(* Between calls                                                           *)

\* What a call of the client does before its first command: the queue's tail may
\* move on, with the root if the tail passes it.
LEMMA IdleStep ==
  ASSUME Inv, OrderInv, ClientStep \/ Recover
  PROVE  /\ pc = "idle" /\ pc' \in {"idle", "scan", "prog"} /\ ~call'.dumping
         /\ pc' = "prog" => ~is_aligned(j'.head, ppb)
         /\ UNCHANGED <<page, marked, search, fails, crashes>>
         /\ TailAdvances(j, j')
         /\ j'.recover_meta = j.recover_meta /\ j'.bad_meta = j.bad_meta
<1>1. j \in Journals /\ pc = "idle" /\ ~call.dumping /\ RecoveryFields(j)
  BY BetweenCalls
  DEF Inv, TypeOK, RecoveryState, ClientStep, Enqueue, Copy, Pad, Gc, Clear, Recover
<1>2. TailAdvances(j, j)
  BY <1>1, TailStays DEF SamePointers
<1>3. ASSUME NEW k \in Journals, TailAdvances(j, k), k.recover_meta = j.recover_meta,
             k.bad_meta = j.bad_meta, NEW op, NEW src, NEW m, NEW deq,
             Begin(k, op, src, m, deq)
      PROVE  /\ pc' \in {"idle", "scan", "prog"} /\ ~call'.dumping
             /\ pc' = "prog" => ~is_aligned(j'.head, ppb)
             /\ UNCHANGED <<page, marked, search, fails, crashes>>
             /\ TailAdvances(j, j')
             /\ j'.recover_meta = j.recover_meta /\ j'.bad_meta = j.bad_meta
  <2>1. /\ SamePointers(k, j') /\ j'.head = k.head /\ SameRecovery(k, j')
        /\ ~call'.dumping /\ pc' \in {"idle", "scan", "prog"}
        /\ UNCHANGED <<fails, crashes, page, marked, search>>
    BY <1>3, BeginStep DEF Begin
  <2>2. pc' = "prog" => ~is_aligned(k.head, ppb)
    <3>1. prepare_head(k, [NoCall EXCEPT !.op = op, !.src = src, !.meta = m,
                                         !.dequeue = deq])
      BY <1>3 DEF Begin
    <3> QED BY <3>1 DEF prepare_head, Return
  <2>3. TailAdvances(j, j')
    BY <1>3, <2>1 DEF TailAdvances, SamePointers
  <2> QED BY <1>3, <2>1, <2>2, <2>3 DEF SameRecovery
<1>4. ASSUME TailAdvances(j, j'), Quiet,
             j'.recover_meta = j.recover_meta, j'.bad_meta = j.bad_meta
      PROVE  /\ pc' \in {"idle", "scan", "prog"} /\ ~call'.dumping
             /\ pc' = "prog" => ~is_aligned(j'.head, ppb)
             /\ UNCHANGED <<page, marked, search, fails, crashes>>
             /\ TailAdvances(j, j')
             /\ j'.recover_meta = j.recover_meta /\ j'.bad_meta = j.bad_meta
  BY <1>1, <1>4 DEF Quiet
<1>5. ASSUME NEW jj \in Journals, jj = j, pad_queue(jj)
      PROVE  \/ \E op, src, m, deq : Begin(j, op, src, m, deq)
             \/ j' = j /\ UNCHANGED <<page, marked, pc, call, search, fails, crashes>>
  BY <1>5 DEF pad_queue
<1>6. CASE Enqueue \/ Copy
  BY <1>1, <1>2, <1>3, <1>6 DEF Enqueue, Copy
<1>7. CASE pad_queue(j)
  <2>1. CASE \E op, src, m, deq : Begin(j, op, src, m, deq)
    BY <1>1, <1>2, <1>3, <2>1
  <2>2. CASE j' = j /\ UNCHANGED <<page, marked, pc, call, search, fails, crashes>>
    BY <1>1, <1>2, <2>2
  <2> QED BY <1>1, <1>5, <1>7, <2>1, <2>2
<1>8. CASE Clear
  <2>1. /\ j' = [j EXCEPT !.tail = j.head, !.root = PAGE_NONE, !.dirty = TRUE]
        /\ UNCHANGED <<page, marked, pc, call, search, fails, crashes>>
    BY <1>8 DEF Clear
  <2>2. Upto(j.tail, j.head, j.head)
    BY <1>1, OrderTrans DEF Journals, UPages
  <2>3. TailAdvances(j, j')
    BY <1>1, <2>1, <2>2 DEF TailAdvances, Journals
  <2> QED BY <1>1, <2>1, <2>3 DEF Journals
<1>9. CASE Gc
  <2>1. PICK t \in UPages, r \in {j.root, PAGE_NONE} :
        LET k == [j EXCEPT !.tail = t, !.root = r]
        IN  /\ peeked(k)
            /\ \/ j' = k /\ Quiet
               \/ j' = dequeue(k) /\ Quiet
               \/ \E m \in Meta : Begin(k, "copy", t, m, TRUE)
    BY <1>9 DEF Gc
  <2> DEFINE k == [j EXCEPT !.tail = t, !.root = r]
  <2>2. /\ k \in Journals /\ TailAdvances(j, k)
        /\ k.dirty = j.dirty /\ k.tail_sync = j.tail_sync
    BY <1>1, <2>1, PeekAdvances
  <2>3. SameRecovery(j, k) /\ k.recover_meta = j.recover_meta /\ k.bad_meta = j.bad_meta
    BY <1>1 DEF SameRecovery, Journals
  <2>4. \/ j' = k /\ Quiet
        \/ j' = dequeue(k) /\ Quiet
        \/ \E m \in Meta : Begin(k, "copy", t, m, TRUE)
    BY <2>1
  <2> HIDE DEF k
  <2>5. CASE j' = k /\ Quiet
    BY <1>1, <1>4, <2>2, <2>3, <2>5
  <2>6. CASE j' = dequeue(k) /\ Quiet
    <3>1. /\ j' \in Journals /\ TailAdvances(k, j') /\ SameRecovery(k, j')
      BY <2>2, <2>6, DequeueAdvances, DequeueType
    <3>2. /\ j.tail \in Pages /\ k.tail \in Pages /\ j'.tail \in Pages
          /\ j.head \in Pages /\ k.head = j.head
      BY <1>1, <2>2, <3>1 DEF Journals, UPages, TailAdvances
    <3>3. Upto(j.tail, j'.tail, j.head)
      BY <2>2, <3>1, <3>2, TailMoves DEF TailAdvances
    <3>4. TailAdvances(j, j')
      BY <2>2, <3>1, <3>3 DEF TailAdvances
    <3>5. j'.recover_meta = j.recover_meta /\ j'.bad_meta = j.bad_meta
      BY <2>3, <3>1 DEF SameRecovery
    <3> QED BY <1>1, <1>4, <2>6, <3>4, <3>5
  <2>7. CASE \E m \in Meta : Begin(k, "copy", t, m, TRUE)
    BY <1>1, <1>3, <2>2, <2>3, <2>7
  <2> QED BY <1>1, <2>4, <2>5, <2>6, <2>7
<1>10. CASE Recover
  <2> DEFINE k == next_recoverable
  <2>1. j.recover_next # PAGE_NONE
    BY <1>1, <1>10 DEF Recover, Inv, RecoveryState, RecoveryFields
  <2>2. k \in Journals /\ SamePointers(j, k) /\ k.head = j.head
        /\ k.recover_meta = j.recover_meta /\ k.bad_meta = j.bad_meta
    <3>1. next_upage(j.recover_next) \in RecoverPages
      <4>1. \/ j.recover_next \in UPages
            \/ (j.recover_next \in Nat /\ j.recover_next >= chip_size)
        BY <1>1, <2>1, PageNone, GeometryAssumption DEF Journals, RecoverPages, UPagesOrNone
      <4> QED BY <4>1, NextUPage, NextUPageOutside DEF RecoverPages, UPagesOrNone
    <3> QED BY <1>1, <3>1 DEF next_recoverable, Journals, SamePointers
  <2> HIDE DEF k
  <2>3. TailAdvances(j, k)
    BY <1>1, <2>2, TailStays
  <2>4. CASE pad_queue(j)
    BY <1>1, <1>7, <2>4
  <2>5. CASE j' = k /\ Quiet
    BY <1>1, <1>4, <2>2, <2>3, <2>5
  <2>6. CASE \E m \in Meta : Begin(k, "copy", j.recover_next, m, FALSE)
    BY <1>1, <1>3, <2>2, <2>3, <2>6
  <2> QED BY <1>10, <2>4, <2>5, <2>6 DEF Recover, k
<1> QED BY <1>1, <1>6, <1>7, <1>8, <1>9, <1>10 DEF ClientStep, Pad

\* A step between calls leaves the head and the flash.
LEMMA IdleBlock ==
  ASSUME Inv, Inv', OrderInv, BlockInv, ClientStep \/ Recover
  PROVE  BlockInv'
<1>1. /\ pc = "idle" /\ pc' \in {"idle", "scan", "prog"} /\ ~call'.dumping
      /\ pc' = "prog" => ~is_aligned(j'.head, ppb)
      /\ UNCHANGED <<page, marked>> /\ TailAdvances(j, j')
      /\ j'.recover_meta = j.recover_meta /\ j'.bad_meta = j.bad_meta
  BY IdleStep
<1>2. Running /\ Running' /\ GoodHead /\ DumpPlace /\ RecoveryFields(j)
  BY <1>1 DEF Running, Resuming, BlockInv, Inv, RecoveryState
<1>3. j'.head = j.head /\ (j.recovery => j'.tail_sync = j.tail_sync)
  BY <1>1 DEF TailAdvances
<1>4. GoodHead'
  BY <1>1, <1>2, <1>3 DEF GoodHead, Entered
<1>5. DumpPlace'
  BY <1>1, <1>2, <1>3 DEF DumpPlace, RecoveryFields
<1> QED BY <1>1, <1>4, <1>5 DEF BlockInv, BlankStart, GoodSearch

\* A journal after a restart: no recovery, and a head where nothing has been
\* programmed or in a usable block.
LEMMA RestartEnds ==
  ASSUME Inv, Inv', pc \in Resuming, pc' = "idle", ~j'.recovery, call' = call,
         UNCHANGED <<page, marked>>,
         is_aligned(j'.head, ppb) \/ Usable(marked, page, block_of(j'.head))
  PROVE  BlockInv'
<1>1. RecoveryFields(j') /\ ~call'.dumping
  BY DEF Inv, RecoveryState, Resuming
<1>2. j'.recover_meta = PAGE_NONE /\ ~j'.bad_meta
  BY <1>1 DEF RecoveryFields
<1>3. GoodHead'
  BY DEF GoodHead, Entered
<1> QED BY <1>1, <1>2, <1>3 DEF BlockInv, DumpPlace, BlankStart, GoodSearch

\* A user page in the same group.
LEMMA SameGroup ==
  ASSUME NEW u \in UPages, NEW h \in UPages, cp_page(u) - ppc < h, h <= cp_page(u)
  PROVE  cp_page(h) = cp_page(u)
<1>1. /\ cp_page(u) \in CpPages /\ cp_page(h) \in CpPages
      /\ h < cp_page(h) /\ cp_page(h) - ppc < h /\ u < cp_page(u) /\ cp_page(u) - ppc < u
      /\ cp_page(u) \in Nat /\ cp_page(h) \in Nat /\ u \in Nat /\ h \in Nat
  BY GroupBounds, CpPage DEF UPages, Pages
<1>2. ppc \in Nat /\ h # cp_page(u) /\ u # cp_page(h)
  BY <1>1, Sizes, GroupOrder
<1>3. cp_page(u) >= cp_page(h)
  BY <1>1, <1>2, GroupsApart
<1>4. cp_page(h) >= cp_page(u)
  <2>1. CASE cp_page(h) > u
    BY <1>1, <2>1, GroupsApart
  <2>2. CASE cp_page(h) < u
    <3>1. cp_page(h) <= cp_page(u) - ppc
      BY <1>1, <2>2, GroupsApart
    <3> QED BY <1>1, <1>2, <3>1
  <2> QED BY <1>1, <1>2, <2>1, <2>2
<1> QED BY <1>1, <1>3, <1>4

\* find_head has stopped at a page in the group of the head: from there on the
\* group is erased.
HeadFound ==
  /\ j'.head \in UPages /\ cp_page(j'.head) = cp_page(j.head)
  /\ block_of(j'.head) = block_of(j.head)
  /\ \A q \in Pages : j'.head <= q /\ q <= cp_page(j.head) => is_erased(page, q)

\* find_head goes on, or stops in the head's group or at the start of a block.
LEMMA FindHeadLands ==
  ASSUME Inv, Inv', OrderInv, FindHead
  PROVE  \/ pc' = "r_head" /\ j'.root = j.root
         \/ /\ pc' = "idle" /\ ~j'.recovery
            /\ is_aligned(j'.head, ppb) \/ HeadFound
<1> DEFINE first == align_down(j.head, ppc)
           after == IF first + ppc >= chip_size THEN 0 ELSE first + ppc
           m == move_head(j, after)
           chased == [m EXCEPT !.tail = first_page(next_block(block_of(@)))]
<1>1. /\ pc = "r_head" /\ j.head \in UPages /\ j.head \in Pages /\ j \in Journals
      /\ j' \in Journals
  BY RootFacts DEF FindHead, Inv, TypeOK
<1>2. PICK n \in 0 .. ppc :
        /\ trailing_free(first, n)
        /\ \/ n > 1 /\ Resumed([j EXCEPT !.head = first + ppc - n])
           \/ /\ n <= 1 /\ is_aligned(after, ppb)
              /\ Resumed(IF align_eq(after, m.tail, ppb) THEN chased ELSE m)
           \/ n <= 1 /\ ~is_aligned(after, ppb) /\ j' = m /\ UNCHANGED pc
  BY DEF FindHead
<1>3. /\ first \in Nat /\ first + ppc = cp_page(j.head) + 1 /\ ppc \in Nat
      /\ block_start(j.head) <= first /\ cp_page(j.head) \in Nat
      /\ cp_page(j.head) < block_start(j.head) + ppb
      /\ is_aligned(after, ppb) => after = first_page(next_block(block_of(j.head)))
      /\ ~is_aligned(after, ppb) => after \in Pages
  BY <1>1, HeadGroup
<1>4. after \in Pages /\ m.head = after /\ m.root = j.root /\ m.head \in Pages
  <2>1. after \in Pages /\ after \in UPages
    <3>1. CASE is_aligned(after, ppb)
      BY <1>1, <1>3, <3>1, BlockBounds
    <3>2. CASE ~is_aligned(after, ppb)
      <4>1. after = cp_page(j.head) + 1 /\ after = first + ppc
        BY <1>1, <1>3, <3>2, HeadGroup
      <4>2. after \in UPages
        <5>1. first \in UPages /\ first = (j.head \div ppc) * ppc /\ j.head \div ppc \in Nat
          BY <1>1, AlignDownGroup, UPageOffset
        <5>2. /\ ((j.head \div ppc) + 1) * ppc = first + ppc /\ (j.head \div ppc) + 1 \in Nat
          BY <1>3, <5>1
        <5>3. 0 \in 0 .. (ppc - 2) /\ after < chip_size
          BY <1>3, <3>2, Sizes DEF Pages
        <5>4. (((j.head \div ppc) + 1) * ppc) + 0 = after
          BY <1>3, <4>1, <5>1, <5>2
        <5> QED BY <5>2, <5>3, <5>4, GroupPage
      <4> QED BY <1>3, <3>2, <4>2
    <3> QED BY <3>1, <3>2
  <2> HIDE DEF after
  <2> QED BY <1>1, <2>1, MoveHeadPointers DEF SamePointers
<1> HIDE DEF after, m
<1>5. CASE n > 1 /\ Resumed([j EXCEPT !.head = first + ppc - n])
  <2> DEFINE h == first + ppc - n
             k == [j EXCEPT !.head = h]
  <2>1. pc' = "idle" /\ ~j'.recovery /\ j'.head = h
    <3>1. pc' = "idle" /\ ~j'.recovery
      BY <1>1, <1>5, ResumedEnds DEF Resumed
    <3>2. j'.head = h
      BY <1>1, <1>5 DEF Resumed, clear_recovery, Journals
    <3> QED BY <3>1, <3>2
  <2>2. h \in Nat /\ block_start(j.head) <= h /\ h < block_start(j.head) + ppb
    <3>1. block_start(j.head) \in Nat /\ ppb \in Nat /\ n \in Nat /\ n <= ppc
      BY <1>1, <1>3, BlockBounds, Sizes
    <3> HIDE DEF first
    <3> QED BY <1>3, <1>5, <3>1
  <2>3. block_of(h) = block_of(j.head) /\ h \in UPages
    BY <1>1, <2>1, <2>2, InBlock DEF Journals
  <2>4. h \in Nat /\ n \in Nat /\ n <= ppc /\ h = cp_page(j.head) + 1 - n
        /\ cp_page(j.head) - ppc < h /\ h <= cp_page(j.head)
    <3>1. n \in Nat /\ n <= ppc
      BY <1>3
    <3> HIDE DEF first
    <3> QED BY <1>3, <1>5, <2>2, <3>1
  <2>5. cp_page(h) = cp_page(j.head)
    BY <1>1, <2>3, <2>4, SameGroup
  <2>6. ASSUME NEW q \in Pages, h <= q, q <= cp_page(j.head) PROVE is_erased(page, q)
    <3> DEFINE i == cp_page(j.head) - q
    <3>1. i \in 0 .. (n - 1) /\ first + ppc - i - 1 = q
      <4>1. q \in Nat
        BY DEF Pages
      <4> HIDE DEF first, h
      <4> QED BY <1>3, <2>4, <2>6, <4>1
    <3>2. dhara_nand_is_free(q)
      <4> HIDE DEF i, first, h
      <4>1. \A x \in 0 .. (n - 1) : dhara_nand_is_free(first + ppc - x - 1)
        BY <1>2 DEF trailing_free
      <4> QED BY <3>1, <4>1
    <3> QED BY <3>2 DEF dhara_nand_is_free, is_erased
  <2> QED BY <2>1, <2>3, <2>5, <2>6 DEF HeadFound
<1>6. CASE /\ n <= 1 /\ is_aligned(after, ppb)
           /\ Resumed(IF align_eq(after, m.tail, ppb) THEN chased ELSE m)
  <2> DEFINE k == IF align_eq(after, m.tail, ppb) THEN chased ELSE m
  <2>1. pc' = "idle" /\ ~j'.recovery
    BY <1>1, <1>6, ResumedEnds DEF Resumed
  <2>2. m \in Journals
    <3>1. after \in UPages
      BY <1>1, <1>3, <1>6, BlockBounds
    <3> QED BY <1>1, <3>1, MoveHeadType DEF m
  <2>3. j'.head = after
    BY <1>4, <1>6, <2>2 DEF Resumed, clear_recovery, Journals
  <2> QED BY <1>6, <2>1, <2>3
<1>7. CASE n <= 1 /\ ~is_aligned(after, ppb) /\ j' = m /\ UNCHANGED pc
  BY <1>1, <1>4, <1>7
<1> QED BY <1>2, <1>5, <1>6, <1>7

\* A restart searches blocks it has found good.
LEMMA ResumeBlock ==
  ASSUME num_blocks >= 2, Inv, Inv', OrderInv, BlockInv, ResumeStep
  PROVE  BlockInv'
<1>1. /\ pc \in Resuming /\ UNCHANGED <<page, marked, call>> /\ j' \in Journals
  BY DEF ResumeStep, FindFirst, FindLast, FindGroup, FindHead, Resuming, Inv, TypeOK
<1>2. \A b \in Blocks : has_checkpoint(b) => Usable(marked, page, b)
  BY UsableIsGood DEF has_checkpoint
<1>3. CASE ResumeFailed
  <2>1. j'.head = 0 /\ ~j'.recovery /\ pc' = "idle"
    BY <1>3 DEF ResumeFailed, EmptyJournal
  <2>2. is_aligned(j'.head, ppb)
    BY <2>1, Sizes DEF is_aligned
  <2> QED BY <1>1, <2>1, <2>2, RestartEnds
<1>4. CASE FindFirst /\ ~ResumeFailed
  <2>1. PICK b \in Blocks : find_checkblock(0, b) /\ search'.at = b /\ pc' = "r_last"
    BY <1>4 DEF FindFirst
  <2>2. Usable(marked, page, b)
    BY <1>2, <2>1 DEF find_checkblock
  <2> QED BY <1>1, <2>1, <2>2 DEF BlockInv, Running, Resuming, GoodSearch
<1>5. CASE FindLast
  <2>1. /\ pc' \in {"r_last", "r_group"}
        /\ search'.at = search.at \/ \E b \in Blocks : search'.at = b /\ has_checkpoint(b)
    <3>1. search \in [low : Nat, high : Int, at : Blocks]
      BY DEF Inv, TypeOK
    <3> QED BY <1>5, <3>1 DEF FindLast, of_epoch, find_checkblock, search_above
  <2>2. Usable(marked, page, search.at)
    BY <1>5 DEF BlockInv, GoodSearch, FindLast
  <2> QED BY <1>1, <1>2, <2>1, <2>2 DEF BlockInv, Running, Resuming, GoodSearch
<1>6. CASE FindGroup /\ ~ResumeFailed
  <2>1. /\ pc = "r_group" /\ search \in [low : Nat, high : Int, at : Blocks]
        /\ search.high < cpb
    BY <1>6 DEF FindGroup, Inv, TypeOK
  <2>2. Usable(marked, page, search.at)
    BY <2>1 DEF BlockInv, GoodSearch
  <2>3. CASE pc' = "r_group" /\ search'.at = search.at
    BY <1>1, <2>2, <2>3 DEF BlockInv, Running, Resuming, GoodSearch
  <2>4. ASSUME NEW g \in 0 .. (cpb - 1), restore(search.at, g) PROVE BlockInv'
    <3>1. CASE ResumeFailed
      BY <1>6, <3>1
    <3>2. PICK i \in 0 .. g :
            LET p == first_page(search.at) + (i + 1) * ppc - 1
            IN  /\ j' = [j EXCEPT !.root = p - 1, !.tail = page[p].tail,
                                  !.bb_current = page[p].bb_current,
                                  !.bb_last = page[p].bb_last,
                                  !.head = next_upage(first_page(search.at) + g * ppc)]
                /\ pc' = "r_head"
      <4>1. \E i \in 0 .. g :
               LET p == first_page(search.at) + (i + 1) * ppc - 1
               IN  /\ j' = [j EXCEPT !.root = p - 1, !.tail = page[p].tail,
                                  !.bb_current = page[p].bb_current,
                                  !.bb_last = page[p].bb_last,
                                  !.head = next_upage(first_page(search.at) + g * ppc)]
                   /\ pc' = "r_head"
        BY <1>6, <2>4, Zenon DEF restore
      <4> QED BY <4>1
    <3>3. i \in 0 .. (cpb - 1) /\ search.at \in Blocks /\ i \in Nat /\ j \in Journals
      <4>1. search.at \in Blocks
        BY <2>1
      <4> QED BY <4>1, GeometryAssumption DEF Inv, TypeOK
    <3> DEFINE q == first_page(search.at) + i * ppc
    <3>4. /\ q \in Nat /\ \A d \in 0 .. (ppc - 1) : block_of(q + d) = search.at
      BY <3>3, BlockGroup
    <3>5. j'.root = q + (ppc - 2)
      <4>1. /\ first_page(search.at) \in Nat /\ ppc \in Nat
            /\ (i + 1) * ppc = (i * ppc) + ppc /\ i * ppc \in Nat
        BY <3>3, BlocksApart, Sizes
      <4> DEFINE p == first_page(search.at) + (i + 1) * ppc - 1
      <4>2. j' = [j EXCEPT !.root = p - 1, !.tail = page[p].tail,
                           !.bb_current = page[p].bb_current,
                           !.bb_last = page[p].bb_last,
                           !.head = next_upage(first_page(search.at) + g * ppc)]
        BY <3>2
      <4>3. p - 1 = q + (ppc - 2)
        BY <4>1
      <4> HIDE DEF p, q
      <4>4. j'.root = p - 1
        BY <3>3, <4>2 DEF Journals
      <4> QED BY <4>3, <4>4
    <3>6. ppc - 2 \in 0 .. (ppc - 1)
      BY Sizes
    <3>7. block_of(j'.root) = search.at
      BY <3>4, <3>5, <3>6
    <3> QED BY <1>1, <2>2, <3>2, <3>7 DEF BlockInv, Running, Resuming, GoodSearch
  <2>5. \/ pc' = "r_group" /\ search'.at = search.at
        \/ restore(search.at, 0)
        \/ \E g \in 0 .. (cpb - 1) : restore(search.at, g)
    <3> DEFINE mid == (search.low + search.high) \div 2
    <3>1. search.low <= search.high => mid \in 0 .. (cpb - 1)
      BY <2>1, GeometryAssumption
    <3>2. \/ search.low > search.high /\ restore(search.at, 0)
          \/ pc' = "r_group" /\ search'.at = search.at
          \/ search.low <= search.high /\ restore(search.at, mid)
      BY <1>6, <2>1 DEF FindGroup
    <3> QED BY <3>1, <3>2
  <2>6. 0 \in 0 .. (cpb - 1)
    BY GeometryAssumption
  <2> QED BY <2>3, <2>4, <2>5, <2>6
<1>7. CASE FindHead
  <2>1. /\ pc = "r_head" /\ block_of(j.head) = block_of(j.root)
        /\ Usable(marked, page, block_of(j.head))
    BY <1>7, RootFacts DEF FindHead, BlockInv, GoodSearch
  <2>2. CASE pc' = "r_head" /\ j'.root = j.root
    BY <1>1, <2>1, <2>2 DEF BlockInv, Running, Resuming, GoodSearch
  <2>3. CASE pc' = "idle" /\ ~j'.recovery
    BY <1>1, <1>7, <2>1, <2>3, FindHeadLands, RestartEnds DEF HeadFound
  <2> QED BY <1>7, <2>2, <2>3, FindHeadLands
<1> QED BY <1>3, <1>4, <1>5, <1>6, <1>7 DEF ResumeStep

-----------------------------------------------------------------------------
(* The invariant of the head's block                                       *)

\* Every step keeps the head in a usable block.
LEMMA NextBlockInv ==
  ASSUME num_blocks >= 2, Inv, OrderInv, OwedInv, BlockInv, [HNext]_hvars
  PROVE  Inv' /\ OrderInv' /\ OwedInv' /\ BlockInv'
<1>1. Inv' /\ OrderInv' /\ OwedInv'
  BY NextOwed
<1>2. CASE UNCHANGED hvars
  <2>1. UNCHANGED <<j, call, pc, page, marked, search>>
    BY <1>2 DEF hvars, vars
  <2> QED
    BY <1>1, <2>1
    DEF BlockInv, GoodHead, Entered, Running, DumpPlace, BlankStart, GoodSearch, Usable
<1>3. CASE SkipBad \/ CopyUnreadable
  <2>2. TouchesHead /\ pc \in {"scan", "prog", "cp"}
    BY <1>3, CommandTouches
  <2>3. DumpPlace /\ j.dirty
    BY <2>2, CallFacts DEF BlockInv
  <2>4. FailureMarks
    BY <1>3, <2>3, PassMarks DEF DumpPlace
  <2>5. Retreats
    BY <1>3, <2>3, SkipBadRetreats, ReturnError, RetreatReturns DEF CopyUnreadable
  <2> QED BY <1>1, <2>2, <2>4, <2>5, RetreatBlock
<1>4. CASE EraseFails \/ ProgramFails \/ CheckpointFails
  <2>1. BadBlock
    BY <1>4 DEF EraseFails, ProgramFails, CheckpointFails
  <2>2. TouchesHead /\ pc \in {"scan", "prog", "cp"}
    BY <1>4, CommandTouches
  <2>3. DumpPlace
    BY <2>2, CallFacts DEF BlockInv
  <2>4. FailureMarks /\ Retreats
    BY <2>1, <2>3, BadBlockMarks, BadBlockRetreats DEF DumpPlace
  <2> QED BY <1>1, <2>2, <2>4, RetreatBlock
<1>5. CASE EraseOk
  BY <1>1, <1>5, EraseOkBlock
<1>6. CASE PushMeta
  BY <1>1, <1>6, PushMetaBlock
<1>7. CASE DumpMeta
  BY <1>1, <1>7, DumpMetaBlock
<1>8. CASE Checkpoint
  BY <1>1, <1>8, CheckpointBlock
<1>9. CASE ResumeStep
  BY <1>1, <1>9, ResumeBlock
<1>10. CASE ClientStep \/ Recover
  BY <1>1, <1>10, IdleBlock
<1>11. CASE Crash
  BY <1>1, <1>11 DEF Crash, BlockInv, Running, Resuming, GoodSearch
<1> QED
  BY <1>1, <1>2, <1>3, <1>4, <1>5, <1>6, <1>7, <1>8, <1>9, <1>10, <1>11
  DEF HNext, ResumeStep, ClientStep

\* A restart begins with nothing to go by.
LEMMA InitBlock == HInit => Inv /\ OrderInv /\ OwedInv /\ BlockInv
BY InitInv, InitOrder DEF HInit, Init, OwedInv, BlockInv, GoodSearch, Running, Resuming

\* The head's block is usable, and a recovery marks none of the journal's own
\* blocks but those it has left.
THEOREM BlockInvariant ==
  ASSUME num_blocks >= 2 PROVE HSpec => [](Inv /\ OrderInv /\ OwedInv /\ BlockInv)
<1>1. Inv /\ OrderInv /\ OwedInv /\ BlockInv /\ [HNext]_hvars =>
        (Inv /\ OrderInv /\ OwedInv /\ BlockInv)'
  BY NextBlockInv
<1> QED BY <1>1, InitBlock, PTL DEF HSpec

-----------------------------------------------------------------------------
(* The pages from the head on                                              *)

\* The group of the head is erased from the head on, or from the page behind it
\* once the last user page of the group has been written.
BlankInv ==
  Entered =>
    \A q \in Pages : /\ j.head <= q /\ q <= cp_page(j.head)
                     /\ pc = "cp" => q # j.head
                     => is_erased(page, q)

\* No command fails while the last-synced tail lies in the next block. (When
\* one does, the call ends in JOURNAL_FULL with the head on the torn page, and
\* the next call programs that page again.)
FailuresSkip == [][fails' # fails => can_skip(j)]_hvars

\* The pages of a group lie in the block of its user pages.
LEMMA GroupInBlock ==
  ASSUME NEW u \in UPages, NEW q \in Pages, u <= q, q <= cp_page(u)
  PROVE  block_of(q) = block_of(u)
<1>1. /\ u \in Pages /\ cp_page(u) \in Pages /\ block_of(cp_page(u)) = block_of(u)
  BY GroupBounds
<1>2. /\ block_start(u) <= u /\ block_start(u) \in Nat /\ q \in Nat /\ u \in Nat
      /\ cp_page(u) < block_start(cp_page(u)) + ppb /\ cp_page(u) \in Nat
      /\ block_start(cp_page(u)) = block_start(u)
  BY <1>1, BlockBounds, SameBlock
<1>3. block_start(u) <= q /\ q < block_start(u) + ppb
  BY <1>2, Sizes
<1> QED BY <1>1, <1>2, <1>3, InBlock

\* The head moves behind the page that has been written, to the next user page:
\* what is there has been erased with the block and not been touched since.
LEMMA BlankMoves ==
  ASSUME Inv, OrderInv, BlankInv, TouchesHead, pc \in {"prog", "cp"},
         pc' = "idle", j'.head = next_upage(j.head)
  PROVE  BlankInv'
<1> DEFINE u == j.head
           n == next_upage(j.head)
<1>1. /\ u \in UPages /\ u \in Pages /\ Ahead(page, u) /\ Running
  BY CallFacts DEF Fresh
<1>2. SUFFICES ASSUME ~is_aligned(n, ppb), NEW q \in Pages, n <= q, q <= cp_page(n)
               PROVE  is_erased(page', q)
  BY DEF BlankInv, Entered
<1>3. /\ n \in UPages /\ n \in Pages /\ block_of(n) = block_of(u) /\ u < n
  BY <1>1, <1>2, NextGroup
<1>4. block_of(q) = block_of(u)
  BY <1>2, <1>3, GroupInBlock
<1>5. /\ cp_page(u) \in CpPages /\ cp_page(u) \in Nat /\ u < cp_page(u)
      /\ u \in Nat /\ n \in Nat /\ q \in Nat
  BY <1>1, <1>3, GroupBounds, CpPage DEF Pages
<1>6. pc = "cp" => u + 1 = cp_page(u)
  BY CheckpointPage
<1>7. q # u /\ (pc = "cp" => q # u + 1)
  <2>1. q # u
    BY <1>2, <1>3, <1>5
  <2>2. CASE pc = "cp"
    <3>1. n # cp_page(u) /\ n > u
      BY <1>3, <1>5, GroupOrder
    <3> QED BY <1>2, <1>5, <1>6, <2>1, <3>1
  <2> QED BY <2>1, <2>2
<1>8. page'[q] = page[q]
  BY <1>7 DEF TouchesHead
<1>9. is_erased(page, q)
  <2>1. CASE q > cp_page(u)
    BY <1>1, <1>4, <2>1 DEF Ahead
  <2>2. CASE q <= cp_page(u)
    <3>1. Entered /\ u <= q
      BY <1>1, <1>2, <1>3, <1>5 DEF Entered
    <3> QED BY <1>7, <2>2, <3>1 DEF BlankInv
  <2> QED BY <1>5, <2>1, <2>2
<1> QED BY <1>8, <1>9 DEF is_erased

\* A journal that has left its block has entered no other.
LEMMA BlankLeft ==
  ASSUME pc' \in {"idle", "scan"}, is_aligned(j'.head, ppb)
  PROVE  BlankInv'
BY DEF BlankInv, Entered

\* Every step keeps the group of the head erased from the head on.
LEMMA NextBlank ==
  ASSUME num_blocks >= 2, Inv, OrderInv, OwedInv, BlockInv, BlankInv, [HNext]_hvars,
         fails' # fails => can_skip(j)
  PROVE  BlankInv'
<1>1. Inv' /\ OrderInv'
  BY NextOwed
<1>2. CASE UNCHANGED hvars
  BY <1>2 DEF hvars, vars, BlankInv, Entered, Running
<1>3. CASE SkipBad
  <2>1. /\ pc = "scan" /\ is_aligned(j.head, ppb) /\ j.dirty /\ j \in Journals
    BY <1>3, CallFacts DEF SkipBad
  <2>2. /\ is_aligned(skip_block(counted).head, ppb) /\ counted.head = j.head
    BY <2>1, SkippedPointers
  <2>3. j' = counted \/ j' = skip_block(counted)
    BY <1>3 DEF SkipBad, Return
  <2>4. pc' \in {"idle", "scan"}
    BY <1>3 DEF SkipBad, Return
  <2> QED BY <2>1, <2>2, <2>3, <2>4, BlankLeft
<1>4. CASE CopyUnreadable
  <2>1. pc = "prog" /\ j' = j /\ pc' = "idle" /\ page' = page
    BY <1>4, ReturnError DEF CopyUnreadable
  <2> QED BY <2>1 DEF BlankInv, Entered, Running, Resuming
<1>5. CASE EraseFails \/ ProgramFails \/ CheckpointFails
  <2>1. BadBlock /\ fails' # fails
    BY <1>5 DEF EraseFails, ProgramFails, CheckpointFails, BadBlock, Inv, TypeOK
  <2>2. pc \in {"scan", "prog", "cp"}
    BY <1>5, CommandTouches
  <2>3. DumpPlace
    BY <2>2, CallFacts DEF BlockInv
  <2>4. is_aligned(j'.head, ppb) /\ pc' \in {"idle", "scan"}
    BY <2>1, <2>3, BadBlockMarks, BadBlockRetreats DEF DumpPlace, Retreats
  <2> QED BY <2>4, BlankLeft
<1>6. CASE EraseOk
  <2>1. /\ pc' = "prog" /\ j' = j /\ page' = erase_done(block_of(j.head)) /\ pc = "scan"
    BY <1>6 DEF EraseOk, erasing
  <2>2. j.head \in UPages
    BY <2>1, CallFacts
  <2>3. \A q \in Pages : j.head <= q /\ q <= cp_page(j.head) => page'[q] = Erased
    BY <2>1, <2>2, GroupInBlock DEF erase_done
  <2> QED BY <2>1, <2>3 DEF BlankInv, is_erased, Erased
<1>7. CASE PushMeta
  <2>1. TouchesHead /\ pc = "prog" /\ Running
    BY <1>7, CommandTouches DEF PushMeta, ProgramOk, Running, Resuming
  <2>2. CASE pc' = "cp" /\ j' = j
    BY <2>1, <2>2 DEF BlankInv, Entered, TouchesHead, is_erased
  <2>3. CASE /\ ~is_aligned(j.head + 2, ppc)
             /\ Return([j EXCEPT !.root = j.head, !.head = j.head + 1], "OK")
    <3>1. j \in Journals /\ j.head \in UPages /\ j.head + 1 \in UPages
      BY <2>1, <2>3, CallFacts, NextOffset
    <3>2. [j EXCEPT !.root = j.head, !.head = j.head + 1] \in Journals
      BY <3>1 DEF Journals, UPagesOrNone
    <3>3. pc' = "idle" /\ j'.head = j.head + 1
      BY <2>3, <3>1, <3>2, ReturnOk DEF TailAdvances, Journals
    <3>4. next_upage(j.head) = j.head + 1
      BY <2>3, <3>1, GroupBounds
    <3> QED BY <2>1, <3>3, <3>4, BlankMoves
  <2> QED BY <1>7, <2>2, <2>3 DEF PushMeta
<1>8. CASE DumpMeta
  <2>1. TouchesHead /\ pc = "prog" /\ j \in Journals /\ j.head \in UPages
    BY <1>8, CommandTouches, CallFacts DEF DumpMeta, ProgramOk
  <2> DEFINE n == next_upage(j.head)
             m == move_head(j, n)
             k == [m EXCEPT !.recover_meta = j.head, !.recovery = TRUE]
  <2>2. m \in Journals /\ m.head = n
    BY <2>1, NextUPage, MoveHeadType, MoveHeadPointers
  <2>3. Return(k, "RECOVER")
    BY <1>8 DEF DumpMeta
  <2> HIDE DEF m, n
  <2>4. k.head = n
    BY <2>2 DEF Journals
  <2> HIDE DEF k
  <2>5. j'.head = n /\ pc' = "idle"
    BY <2>3, <2>4, ReturnError
  <2> QED BY <2>1, <2>5, BlankMoves DEF n
<1>9. CASE Checkpoint
  <2>1. TouchesHead /\ pc = "cp"
    BY <1>9, CommandTouches DEF Checkpoint
  <2>2. PICK k \in Journals : Return(k, "OK") /\ k.head = next_upage(j.head)
    BY <1>9, CheckpointReturns
  <2>3. pc' = "idle" /\ j'.head = next_upage(j.head)
    BY <2>2, ReturnOk DEF TailAdvances
  <2> QED BY <2>1, <2>3, BlankMoves
<1>10. CASE ClientStep \/ Recover
  <2>1. /\ pc = "idle" /\ pc' \in {"idle", "scan", "prog"}
        /\ pc' = "prog" => ~is_aligned(j'.head, ppb)
        /\ page' = page /\ j'.head = j.head
    BY <1>10, IdleStep DEF TailAdvances
  <2> QED BY <2>1 DEF BlankInv, Entered, Running, Resuming
<1>11. CASE ResumeStep
  <2>1. page' = page
    BY <1>11 DEF ResumeStep, FindFirst, FindLast, FindGroup, FindHead
  <2>2. CASE ResumeFailed
    <3>1. j'.head = 0 /\ pc' = "idle"
      BY <2>2 DEF ResumeFailed, EmptyJournal
    <3>2. is_aligned(j'.head, ppb)
      BY <3>1, Sizes DEF is_aligned
    <3> QED BY <3>1, <3>2, BlankLeft
  <2>3. CASE FindHead
    <3>1. CASE HeadFound /\ pc' = "idle"
      BY <2>1, <3>1 DEF HeadFound, BlankInv
    <3>2. CASE pc' = "r_head"
      BY <3>2 DEF BlankInv, Entered, Running, Resuming
    <3> QED BY <1>1, <2>3, <3>1, <3>2, FindHeadLands, BlankLeft
  <2>4. CASE ~FindHead /\ ~ResumeFailed
    <3>1. pc' \in Resuming
      BY <1>11, <2>4
      DEF ResumeStep, FindFirst, FindLast, FindGroup, restore, Resuming
    <3> QED BY <3>1 DEF BlankInv, Entered, Running
  <2> QED BY <2>2, <2>3, <2>4
<1>12. CASE Crash
  BY <1>12 DEF Crash, BlankInv, Entered, Running, Resuming
<1> QED
  BY <1>2, <1>3, <1>4, <1>5, <1>6, <1>7, <1>8, <1>9, <1>10, <1>11, <1>12
  DEF HNext, ResumeStep, ClientStep

\* What is about to be programmed is erased, as is the rest of the block behind
\* it, and the block is not marked.
LEMMA BlankIsInOrder ==
  ASSUME Inv, OrderInv, BlockInv, BlankInv
  PROVE  ProgramsInOrder
<1> DEFINE u == j.head
           t == IF pc = "cp" THEN u + 1 ELSE u
<1>1. SUFFICES ASSUME pc \in {"prog", "cp"}
               PROVE  /\ block_of(t) \notin marked
                      /\ \A q \in Pages : align_eq(q, t, ppb) /\ q >= t =>
                                            page[q].kind = "erased"
  BY DEF ProgramsInOrder
<1>2. /\ u \in UPages /\ u \in Pages /\ Ahead(page, u) /\ Running /\ GoodHead
  BY <1>1, CallFacts DEF Fresh, BlockInv
<1>3. t \in Pages /\ block_of(t) = block_of(u)
  BY <1>2, CheckpointPage
<1>4. Entered /\ block_of(u) \notin marked
  BY <1>1, <1>2 DEF Entered, GoodHead, Usable
<1>5. ASSUME NEW q \in Pages, align_eq(q, t, ppb), q >= t
      PROVE  is_erased(page, q)
  <2>1. block_of(q) = block_of(u)
    BY <1>3, <1>5, SameBlock
  <2>2. q \in Nat /\ u \in Nat /\ cp_page(u) \in Nat
    BY <1>2, GroupOrder, GroupBounds DEF Pages, CpPages
  <2>3. CASE q > cp_page(u)
    BY <1>2, <2>1, <2>3 DEF Ahead
  <2>4. CASE q <= cp_page(u)
    <3>1. u <= q /\ (pc = "cp" => q # u)
      BY <1>5, <2>2
    <3> QED BY <1>4, <2>4, <3>1 DEF BlankInv
  <2> QED BY <2>2, <2>3, <2>4
<1> QED BY <1>3, <1>4, <1>5 DEF is_erased

\* Pages are programmed in order within their block, once between two erases,
\* and never in a block that is marked, as long as no command fails while the
\* last-synced tail is in the next block.
THEOREM ProgramsAreInOrder ==
  ASSUME num_blocks >= 2 PROVE HSpec /\ FailuresSkip => []ProgramsInOrder
<1> DEFINE I == Inv /\ OrderInv /\ OwedInv /\ BlockInv /\ BlankInv
<1>1. HInit => I
  BY InitBlock DEF HInit, Init, BlankInv, Entered, Running, Resuming
<1>2. I /\ [HNext]_hvars /\ [fails' # fails => can_skip(j)]_hvars => I'
  <2> SUFFICES ASSUME I, [HNext]_hvars, [fails' # fails => can_skip(j)]_hvars
               PROVE  I'
    OBVIOUS
  <2>1. fails' # fails => can_skip(j)
    BY DEF hvars, vars
  <2> QED BY <2>1, NextBlockInv, NextBlank
<1>3. I => ProgramsInOrder
  BY BlankIsInOrder
<1> QED BY <1>1, <1>2, <1>3, PTL DEF HSpec, FailuresSkip

-----------------------------------------------------------------------------
(* Accepted pages keep their contents: AcceptedIntact                      *)

\* No block is being recovered.
NoRecovery == ~j.recovery /\ ~call.dumping

\* Page p can be read, and the checkpoint of its group has its metadata m.
Stored(pg, p, m) ==
  /\ pg[p].kind # "torn"
  /\ pg[cp_page(p)].kind = "cp" /\ pg[cp_page(p)].meta[p % ppc] = m

\* Page p can be read, and its metadata m is in the buffer b if its group is that
\* of the head h.
Kept(pg, h, b, p, m) ==
  IF cp_page(p) = cp_page(h) THEN pg[p].kind # "torn" /\ b[p % ppc] = m
                             ELSE Stored(pg, p, m)

\* So it is with every accepted page; what the last synchronization point needs is
\* on the flash, and so is the page whose group a checkpoint is about to complete.
IntactInv ==
  /\ mids = {}
  /\ \A p \in DOMAIN saved.live : Stored(page, p, saved.live[p])
  /\ Running => \A p \in DOMAIN accepted : Kept(page, j.head, buf.meta, p, accepted[p])
  /\ pc = "cp" => page[j.head].kind # "torn" /\ buf.meta[j.head % ppc] = call.meta

\* Two user pages are in the same group when they have the same checkpoint page;
\* they then differ in their offsets.
LEMMA GroupSlots ==
  ASSUME NEW p \in UPages, NEW h \in UPages
  PROVE  /\ align_eq(p, h, ppc) <=> cp_page(p) = cp_page(h)
         /\ p % ppc \in Slots
         /\ cp_page(p) = cp_page(h) /\ p # h => p % ppc # h % ppc
         /\ block_of(p) # block_of(h) => cp_page(p) # cp_page(h)
<1> DEFINE P == p \div ppc
           H == h \div ppc
<1>1. /\ p % ppc \in 0 .. (ppc - 2) /\ p = (P * ppc) + (p % ppc) /\ P \in Nat
      /\ h % ppc \in 0 .. (ppc - 2) /\ h = (H * ppc) + (h % ppc) /\ H \in Nat
      /\ ppc \in Nat \ {0}
  BY UPageOffset, Sizes
<1>2. align_down(p, ppc) = P * ppc /\ align_down(h, ppc) = H * ppc
  BY AlignDownGroup
<1> HIDE DEF P, H
<1>3. P * ppc \in Nat /\ H * ppc \in Nat
  BY <1>1
<1>4. P * ppc = H * ppc => P = H
  <2>1. 0 \in 0 .. (ppc - 1) /\ (P * ppc) + 0 = P * ppc /\ (H * ppc) + 0 = H * ppc
    BY <1>1, <1>3
  <2>2. ((P * ppc) + 0) \div ppc = P /\ ((H * ppc) + 0) \div ppc = H
    BY <1>1, <2>1, ModUnique
  <2> QED BY <2>1, <2>2
<1>5. cp_page(p) = cp_page(h) <=> P * ppc = H * ppc
  BY <1>1, <1>2, <1>3 DEF cp_page
<1>6. block_of(cp_page(p)) = block_of(p) /\ block_of(cp_page(h)) = block_of(h)
  BY GroupBounds
<1> QED BY <1>1, <1>4, <1>5, <1>6 DEF align_eq, Slots, P, H

\* The page of the checkpoint that is about to be programmed is erased.
LEMMA CheckpointBlank ==
  ASSUME Inv, OrderInv, BlankInv, pc = "cp"
  PROVE  is_erased(page, j.head + 1)
<1>1. /\ j.head + 1 = cp_page(j.head) /\ j.head + 1 \in Pages /\ j.head \in UPages
      /\ Running
  BY CallFacts, CheckpointPage
<1>2. /\ j.head <= j.head + 1 /\ j.head + 1 <= cp_page(j.head) /\ j.head + 1 # j.head
  BY <1>1 DEF UPages, Pages
<1> QED BY <1>1, <1>2 DEF BlankInv, Entered

\* A command at the head leaves the pages behind it alone, and the checkpoint of
\* every group but that of the head.
LEMMA BehindStays ==
  ASSUME Inv, OrderInv, BlankInv, TouchesHead, pc \in {"scan", "prog", "cp"},
         NEW p \in UPages, Before(j.tail_sync, p, j.head)
  PROVE  /\ page'[p] = page[p] /\ p # j.head
         /\ page'[cp_page(p)] # page[cp_page(p)] =>
              pc = "cp" /\ cp_page(p) = cp_page(j.head) /\ is_erased(page, cp_page(p))
<1>1. /\ j.head \in UPages /\ j.head \in Pages /\ j.tail_sync \in Pages
      /\ ClearOf(j.tail_sync, j.head) /\ (pc = "scan" => is_aligned(j.head, ppb))
      /\ Running
  BY CallFacts
<1>2. p \in Pages /\ cp_page(p) \in Pages /\ block_of(cp_page(p)) = block_of(p)
      /\ cp_page(p) \in CpPages
  BY GroupBounds
<1>3. p # j.head
  BY <1>1, <1>2, OrderTrans
<1>4. pc = "scan" => block_of(p) # block_of(j.head)
  BY <1>1, <1>2, BlockIsSpared
<1>5. pc = "cp" => /\ j.head + 1 = cp_page(j.head) /\ j.head + 1 \in CpPages
                   /\ j.head + 1 \in Pages
  BY CheckpointPage
<1>6. p # j.head + 1 \/ pc # "cp"
  BY <1>5, GroupOrder
<1>7. cp_page(p) # j.head
  BY <1>1, <1>2, GroupOrder
<1>8. pc = "cp" => is_erased(page, j.head + 1)
  BY CheckpointBlank
<1> QED BY <1>2, <1>3, <1>4, <1>5, <1>6, <1>7, <1>8 DEF TouchesHead

\* The client's pages, and those of the last synchronization point, are behind the
\* head.
LEMMA LiveBehind ==
  ASSUME Inv, OrderInv, Running
  PROVE  \A p \in DOMAIN accepted \cup DOMAIN saved.live :
           p \in UPages /\ Before(j.tail_sync, p, j.head)
<1>1. /\ DOMAIN accepted \subseteq queue(j.tail, j.head)
      /\ j.tail \in Pages /\ j.tail_sync \in Pages /\ j.head \in Pages
      /\ Upto(j.tail_sync, j.tail, j.head)
  BY RunningFacts DEF RingOK
<1>2. PointOK(page, saved) /\ Held(saved, j.tail_sync, j.head)
  BY DEF OrderInv, FlashInv, ListsInv, Points
<1>3. ASSUME NEW p \in DOMAIN accepted
      PROVE  p \in UPages /\ Before(j.tail_sync, p, j.head)
  <2>1. p \in UPages /\ p \in Pages /\ Before(j.tail, p, j.head)
    BY <1>1, <1>3, InQueue DEF UPages
  <2> QED BY <1>1, <2>1, TailMoves
<1>4. ASSUME NEW p \in DOMAIN saved.live
      PROVE  p \in UPages /\ Before(j.tail_sync, p, j.head)
  <2>1. p \in Pages /\ p \in UPages /\ saved.root \in Pages
    BY <1>2, PointPages
  <2>2. Upto(j.tail_sync, p, saved.root) /\ Before(j.tail_sync, saved.root, j.head)
    BY <1>2 DEF Held
  <2> QED BY <1>1, <2>1, <2>2, OrderTrans
<1> QED BY <1>3, <1>4

\* A command at the head spares what the last synchronization point needs.
LEMMA SavedStays ==
  ASSUME Inv, OrderInv, BlankInv, IntactInv, TouchesHead, pc \in {"scan", "prog", "cp"}
  PROVE  \A p \in DOMAIN saved.live : Stored(page', p, saved.live[p])
<1> SUFFICES ASSUME NEW p \in DOMAIN saved.live
             PROVE  Stored(page', p, saved.live[p])
  OBVIOUS
<1>1. p \in UPages /\ Before(j.tail_sync, p, j.head)
  BY CallFacts, LiveBehind
<1>2. Stored(page, p, saved.live[p])
  BY DEF IntactInv
<1>3. page'[p] = page[p] /\ page'[cp_page(p)] = page[cp_page(p)]
  BY <1>1, <1>2, BehindStays DEF Stored, is_erased
<1> QED BY <1>2, <1>3 DEF Stored

\* The history after a step in which no block is recovered.
LEMMA CalmHistory ==
  ASSUME Inv, OrderInv, Observe, Running, ~Crashes, ~j.recovery, ~j'.recovery
  PROVE  /\ mids = {} => mids' = {}
         /\ \A p \in DOMAIN accepted' :
              IF Accepts /\ p = j.head
                THEN accepted'[p] = call.meta
                ELSE p \in DOMAIN accepted /\ accepted'[p] = accepted[p]
         /\ IF Commits THEN saved'.live = accepted'
            ELSE \A p \in DOMAIN saved'.live :
                   p \in DOMAIN saved.live /\ saved'.live[p] = saved.live[p]
<1>1. ~Resumes /\ pc \notin Resuming
  BY DEF Running, Resuming, Resumes
<1>2. /\ accepted' = AcceptedNow
      /\ saved' = IF Commits THEN Snapshot
                  ELSE IF j.dirty THEN saved
                  ELSE [saved EXCEPT !.live =
                          Past(@, j.tail_sync, j'.tail_sync)]
      /\ mids' = IF ~Commits THEN mids ELSE {}
  BY <1>1 DEF Observe
<1>3. \A p \in DOMAIN accepted' :
        IF Accepts /\ p = j.head
          THEN accepted'[p] = call.meta
          ELSE p \in DOMAIN accepted /\ accepted'[p] = accepted[p]
  BY <1>2 DEF AcceptedNow
<1>4. Commits => saved'.live = accepted'
  BY <1>2 DEF Snapshot
<1>5. ~Commits => \A p \in DOMAIN saved'.live :
                    p \in DOMAIN saved.live /\ saved'.live[p] = saved.live[p]
  <2> DEFINE f == Past(saved.live, j.tail_sync, j'.tail_sync)
  <2>1. \A p \in DOMAIN f : p \in DOMAIN saved.live /\ f[p] = saved.live[p]
    BY DEF Past, Restrict
  <2>2. "live" \in DOMAIN saved
    BY DEF OrderInv, FlashInv, Points, PointOK
  <2> HIDE DEF f
  <2>3. [saved EXCEPT !.live = f].live = f
    BY <2>2
  <2> QED BY <1>2, <2>1, <2>3 DEF f
<1> QED BY <1>2, <1>3, <1>4, <1>5

\* A head at the start of a block has none of the client's pages in its group.
LEMMA LiveApart ==
  ASSUME Inv', OrderInv', Running', is_aligned(j'.head, ppb)
  PROVE  \A p \in DOMAIN accepted' : p \in UPages /\ cp_page(p) # cp_page(j'.head)
<1> SUFFICES ASSUME NEW p \in DOMAIN accepted'
             PROVE  p \in UPages /\ cp_page(p) # cp_page(j'.head)
  OBVIOUS
<1>1. /\ j' \in Journals /\ RingOK(j', call'.dumping)
      /\ p \in queue(j'.tail, j'.head)
  BY DEF OrderInv, RingInv, ListsInv, Inv, TypeOK
<1>2. /\ j'.tail_sync \in Pages /\ j'.head \in Pages /\ j'.tail \in Pages
      /\ j'.head \in UPages
  BY <1>1 DEF Journals, UPages
<1>3. p \in UPages /\ p \in Pages /\ Before(j'.tail, p, j'.head)
  BY <1>1, InQueue DEF UPages
<1>4. Before(j'.tail_sync, p, j'.head)
  BY <1>1, <1>2, <1>3, TailMoves DEF RingOK
<1>5. block_of(p) # block_of(j'.head)
  BY <1>1, <1>2, <1>3, <1>4, BlockIsSpared DEF RingOK
<1> QED BY <1>2, <1>3, <1>5, GroupSlots

\* A step of a call that accepts nothing, with the head where it was or between
\* the starts of two blocks.
LEMMA WaitsIntact ==
  ASSUME Inv, OrderInv, OrderInv', Observe, TouchesHead, BlankInv, IntactInv,
         pc \in {"scan", "prog", "cp"}, pc' \in {"idle", "scan", "prog"}, Inv',
         ~Crashes, ~Accepts, ~j.recovery, ~j'.recovery, buf' = buf,
         \/ j'.head = j.head
         \/ is_aligned(j.head, ppb) /\ is_aligned(j'.head, ppb)
  PROVE  IntactInv'
<1>1. Running /\ Running' /\ ~Commits
  BY DEF Running, Resuming, Commits
<1>2. /\ mids' = {}
      /\ \A p \in DOMAIN accepted' :
           p \in DOMAIN accepted /\ accepted'[p] = accepted[p]
      /\ \A p \in DOMAIN saved'.live :
           p \in DOMAIN saved.live /\ saved'.live[p] = saved.live[p]
  BY <1>1, CalmHistory DEF IntactInv
<1>3. \A p \in DOMAIN saved.live : Stored(page', p, saved.live[p])
  BY SavedStays
<1>4. ASSUME NEW p \in DOMAIN accepted'
      PROVE  Kept(page', j'.head, buf'.meta, p, accepted'[p])
  <2>1. /\ p \in DOMAIN accepted /\ accepted'[p] = accepted[p]
        /\ Kept(page, j.head, buf.meta, p, accepted[p])
    BY <1>1, <1>2, <1>4 DEF IntactInv
  <2>2. p \in UPages /\ p \in Pages /\ Before(j.tail_sync, p, j.head)
    BY <1>1, <2>1, LiveBehind DEF UPages
  <2>3. page'[p] = page[p] /\ (cp_page(p) # cp_page(j.head) =>
                                 page'[cp_page(p)] = page[cp_page(p)])
    BY <2>2, BehindStays
  <2>4. CASE j'.head = j.head
    BY <2>1, <2>3, <2>4 DEF Kept, Stored
  <2>5. CASE is_aligned(j.head, ppb) /\ is_aligned(j'.head, ppb)
    <3>1. block_of(p) # block_of(j.head) /\ j.head \in UPages
      BY <1>1, <2>2, <2>5, RunningFacts, BlockIsSpared DEF RingOK
    <3>2. cp_page(p) # cp_page(j'.head)
      BY <1>1, <1>4, <2>5, LiveApart
    <3>3. cp_page(p) # cp_page(j.head)
      BY <2>2, <3>1, GroupSlots
    <3> QED BY <2>1, <2>3, <3>2, <3>3 DEF Kept, Stored
  <2> QED BY <2>4, <2>5
<1> QED BY <1>1, <1>2, <1>3, <1>4 DEF IntactInv

\* A command that fails in the middle of a block makes the journal recover it.
LEMMA FailsAtStart ==
  ASSUME Inv, BadBlock, can_skip(j), ~call.dumping, ~j.recovery, ~j'.recovery,
         ~call'.dumping
  PROVE  is_aligned(j.head, ppb) /\ is_aligned(j'.head, ppb)
<1>1. j \in Journals /\ call \in CallRecords
  BY DEF Inv, TypeOK
<1>2. is_aligned(j'.head, ppb)
  BY BadBlockMarks
<1> DEFINE sk == skip_block(counted)
           start == [sk EXCEPT !.recover_root = j.root,
                               !.recover_next = recover_start(j.root)]
<1>3. /\ sk \in Journals /\ sk.head \in UPages /\ is_aligned(sk.head, ppb)
      /\ sk.tail_sync \in Pages
  BY <1>1, SkippedPointers, CountedType, SkipBlockType DEF counted, Journals, UPages
<1>4. can_skip(counted)
  BY <1>1, SkippedPointers DEF counted, can_skip, Journals
<1> HIDE DEF sk
<1>5. start \in Journals /\ start.head = sk.head /\ start.tail_sync = sk.tail_sync
  BY <1>1, <1>3, RecoverStart DEF Journals
<1>6. ASSUME ~is_aligned(j.head, ppb)
      PROVE  FALSE
  <2>1. \/ Return([start EXCEPT !.recovery = TRUE], "RECOVER")
        \/ prepare_head(start, [call EXCEPT !.dumping = TRUE])
    BY <1>4, <1>6 DEF BadBlock, recover_from, sk
  <2> HIDE DEF start
  <2>2. CASE Return([start EXCEPT !.recovery = TRUE], "RECOVER")
    BY <1>5, <2>2, ReturnError DEF Journals
  <2>3. CASE prepare_head(start, [call EXCEPT !.dumping = TRUE])
    <3>1. ~rolls_onto_tail(start)
      BY <1>3, <1>5, AlignedHead DEF rolls_onto_tail, RollsOnto
    <3>2. call' = [[call EXCEPT !.dumping = TRUE] EXCEPT !.scans = 0]
      BY <2>3, <3>1 DEF prepare_head
    <3> QED BY <1>1, <3>2 DEF CallRecords
  <2> QED BY <2>1, <2>2, <2>3
<1> QED BY <1>2, <1>6

\* The steps of a call that program nothing, or fail to.
LEMMA WaitIntact ==
  ASSUME Inv, Inv', OrderInv, OrderInv', BlockInv, BlankInv, IntactInv, Observe,
         \/ SkipBad \/ CopyUnreadable \/ EraseOk
         \/ EraseFails \/ ProgramFails \/ CheckpointFails,
         NoRecovery, NoRecovery', fails' # fails => can_skip(j)
  PROVE  IntactInv'
<1>1. TouchesHead /\ pc \in {"scan", "prog", "cp"}
  BY CommandTouches
<1>2. j \in Journals /\ j.dirty /\ j.head \in UPages
  BY <1>1, CallFacts
<1>3. ~j.recovery /\ ~j'.recovery /\ ~call.dumping /\ ~call'.dumping
  BY DEF NoRecovery
<1>4. buf' = buf /\ crashes' = crashes
  BY DEF SkipBad, CopyUnreadable, EraseOk, EraseFails, ProgramFails, CheckpointFails,
         BadBlock
<1>5. CASE SkipBad
  <2>1. Retreats /\ pc = "scan"
    BY <1>2, <1>5, SkipBadRetreats DEF SkipBad
  <2>2. is_aligned(j.head, ppb)
    BY <2>1, CallFacts
  <2>3. j'.head = j.head \/ is_aligned(j'.head, ppb)
    BY <1>1, <2>1, RetreatRing
  <2>4. pc' \in {"idle", "scan"} /\ ~Accepts
    BY <2>1 DEF Retreats, Accepts
  <2> QED BY <1>1, <1>3, <1>4, <2>2, <2>3, <2>4, WaitsIntact DEF Crashes
<1>6. CASE CopyUnreadable
  <2>1. j' = j /\ pc' = "idle" /\ pc = "prog"
    BY <1>6, ReturnError DEF CopyUnreadable
  <2>2. ~Accepts
    <3>1. j.root # PAGE_NONE => j.root # j.head
      BY <1>1, <1>2, CallFacts, OrderTrans
      DEF RingOK, Behind, Journals, UPagesOrNone, UPages
    <3> QED BY <1>2, <2>1, <3>1, PageNone DEF Accepts, UPages, Pages
  <2> QED BY <1>1, <1>3, <1>4, <2>1, <2>2, WaitsIntact DEF Crashes
<1>7. CASE EraseOk
  BY <1>1, <1>3, <1>4, <1>7, WaitsIntact DEF EraseOk, Accepts, Crashes
<1>8. CASE EraseFails \/ ProgramFails \/ CheckpointFails
  <2>1. BadBlock /\ fails' # fails
    BY <1>8 DEF EraseFails, ProgramFails, CheckpointFails, BadBlock, Inv, TypeOK
  <2>2. is_aligned(j.head, ppb) /\ is_aligned(j'.head, ppb)
    BY <1>3, <2>1, FailsAtStart
  <2>3. Retreats
    BY <2>1, BadBlockRetreats
  <2>4. pc' \in {"idle", "scan"} /\ ~Accepts
    BY <1>1, <2>3, RetreatRing
  <2> QED BY <1>1, <1>3, <1>4, <2>2, <2>4, WaitsIntact DEF Crashes
<1> QED BY <1>5, <1>6, <1>7, <1>8

\* What is programmed at the head can be read: the page there was erased.
LEMMA HeadReadable ==
  ASSUME Inv, OrderInv, BlankInv, pc = "prog", ProgramOk, ~call.dumping
  PROVE  page'[j.head].kind # "torn"
<1>1. /\ j.head \in UPages /\ j.head \in Pages /\ page \in [Pages -> Contents]
      /\ Running
  BY CallFacts
<1>2. j.head <= j.head /\ j.head <= cp_page(j.head)
  BY <1>1, GroupBounds DEF UPages, Pages, CpPages
<1>3. page[j.head].kind = "erased"
  BY <1>1, <1>2 DEF BlankInv, Entered, is_erased
<1>4. CASE programs
  <2>1. PICK c \in contents : page' \in programmed(j.head, c)
    BY <1>4 DEF ProgramOk
  <2>2. page'[j.head] = c
    BY <1>1, <1>3, <2>1 DEF programmed
  <2>3. c.kind # "torn"
    <3>1. CASE call.op = "copy"
      BY <2>1, <3>1 DEF contents, ProgramOk, source_readable, readable
    <3>2. CASE call.op # "copy"
      BY <2>1, <3>2 DEF contents, UserPages
    <3> QED BY <3>1, <3>2
  <2> QED BY <2>2, <2>3
<1>5. CASE ~programs
  BY <1>3, <1>5 DEF ProgramOk
<1> QED BY <1>4, <1>5

\* The user page of an enqueue or copy is on the flash, its metadata in the buffer.
LEMMA PushMetaIntact ==
  ASSUME Inv, Inv', OrderInv, OrderInv', BlankInv, IntactInv, Observe, PushMeta,
         NoRecovery, NoRecovery'
  PROVE  IntactInv'
<1>1. /\ TouchesHead /\ pc = "prog" /\ ProgramOk /\ ~call.dumping
      /\ buf' = [buf EXCEPT !.meta[j.head % ppc] = call.meta]
      /\ Running /\ ~Crashes /\ ~Commits
  BY CommandTouches DEF PushMeta, ProgramOk, Running, Resuming, Crashes, Commits
<1>2. /\ j \in Journals /\ j.head \in UPages /\ buf.meta \in [Slots -> Meta \cup {NO_META}]
  BY <1>1, CallFacts DEF Inv, TypeOK, Slices
<1>3. page'[j.head].kind # "torn"
  BY <1>1, HeadReadable
<1>4. /\ \A s \in Slots : buf'.meta[s] = IF s = j.head % ppc THEN call.meta
                                                            ELSE buf.meta[s]
      /\ j.head % ppc \in Slots
  <2>1. j.head % ppc \in Slots
    BY <1>2, GroupSlots
  <2>2. buf' = [buf EXCEPT !.meta = [buf.meta EXCEPT ![j.head % ppc] = call.meta]]
    BY <1>1
  <2>3. buf'.meta = [buf.meta EXCEPT ![j.head % ppc] = call.meta]
    BY <2>2 DEF Inv, TypeOK
  <2> QED BY <1>2, <2>1, <2>3
<1>5. \/ pc' = "cp" /\ j' = j /\ call' = call
      \/ /\ pc' = "idle" /\ j'.head \in UPages /\ cp_page(j'.head) = cp_page(j.head)
  <2>1. CASE pc' = "cp" /\ j' = j /\ call' = call
    BY <2>1
  <2>2. CASE /\ ~is_aligned(j.head + 2, ppc)
             /\ Return([j EXCEPT !.root = j.head, !.head = j.head + 1], "OK")
    <3>1. j.head + 1 \in UPages /\ cp_page(j.head + 1) = cp_page(j.head)
      BY <1>2, <2>2, NextOffset
    <3>2. [j EXCEPT !.root = j.head, !.head = j.head + 1] \in Journals
      BY <1>2, <3>1 DEF Journals, UPagesOrNone
    <3>3. pc' = "idle" /\ j'.head = j.head + 1
      BY <1>2, <2>2, <3>2, ReturnOk DEF TailAdvances, Journals
    <3> QED BY <3>1, <3>3
  <2> QED BY <2>1, <2>2 DEF PushMeta
<1>6. Running' /\ ~j.recovery /\ ~j'.recovery
  BY <1>5 DEF Running, Resuming, NoRecovery
<1>7. /\ mids' = {}
      /\ \A p \in DOMAIN accepted' :
           IF Accepts /\ p = j.head
             THEN accepted'[p] = call.meta
             ELSE p \in DOMAIN accepted /\ accepted'[p] = accepted[p]
      /\ \A p \in DOMAIN saved'.live :
           p \in DOMAIN saved.live /\ saved'.live[p] = saved.live[p]
  BY <1>1, <1>6, CalmHistory DEF IntactInv
<1>8. \A p \in DOMAIN saved.live : Stored(page', p, saved.live[p])
  BY <1>1, SavedStays
<1>9. ASSUME NEW p \in DOMAIN accepted'
      PROVE  Kept(page', j'.head, buf'.meta, p, accepted'[p])
  <2>0. cp_page(j'.head) = cp_page(j.head)
    BY <1>5
  <2>1. CASE Accepts /\ p = j.head
    BY <1>3, <1>4, <1>7, <2>0, <2>1 DEF Kept
  <2>2. CASE ~(Accepts /\ p = j.head)
    <3>1. /\ p \in DOMAIN accepted /\ accepted'[p] = accepted[p]
          /\ Kept(page, j.head, buf.meta, p, accepted[p])
      BY <1>1, <1>7, <1>9, <2>2 DEF IntactInv
    <3>2. p \in UPages /\ Before(j.tail_sync, p, j.head)
      BY <1>1, <3>1, LiveBehind
    <3>3. /\ page'[p] = page[p] /\ p # j.head /\ page'[cp_page(p)] = page[cp_page(p)]
      BY <1>1, <3>2, BehindStays
    <3>4. cp_page(p) = cp_page(j.head) => buf'.meta[p % ppc] = buf.meta[p % ppc]
      BY <1>2, <1>4, <3>2, <3>3, GroupSlots
    <3> QED BY <2>0, <3>1, <3>3, <3>4 DEF Kept, Stored
  <2> QED BY <2>1, <2>2
<1>10. pc' = "cp" => page'[j'.head].kind # "torn" /\ buf'.meta[j'.head % ppc] = call'.meta
  BY <1>3, <1>4, <1>5
<1> QED BY <1>6, <1>7, <1>8, <1>9, <1>10 DEF IntactInv

\* A checkpoint completes the group of the head: its metadata is on the flash.
LEMMA CheckpointIntact ==
  ASSUME num_blocks >= 2, Inv, Inv', OrderInv, OrderInv', BlankInv, IntactInv, Observe,
         Checkpoint, NoRecovery, NoRecovery'
  PROVE  IntactInv'
<1>1. /\ TouchesHead /\ pc = "cp" /\ page' \in programmed(j.head + 1, checkpoint)
      /\ Running /\ ~Crashes /\ ~j.recovery /\ ~j'.recovery
  BY CommandTouches DEF Checkpoint, Running, Resuming, Crashes, NoRecovery
<1>2. /\ j \in Journals /\ j.head \in UPages /\ page \in [Pages -> Contents]
      /\ j.head \in Pages /\ Ahead(page, j.head)
  BY <1>1, CallFacts DEF Fresh
<1>3. /\ j.head + 1 = cp_page(j.head) /\ j.head + 1 \in Pages
  BY <1>1, CheckpointPage
<1>4. /\ page'[j.head + 1].kind = "cp" /\ page'[j.head + 1].meta = buf.meta
  <2>1. page' = [page EXCEPT ![j.head + 1] = checkpoint]
    BY <1>1, CheckpointBlank DEF programmed, is_erased
  <2> QED BY <1>2, <1>3, <2>1 DEF checkpoint
<1>5. page'[j.head] = page[j.head]
  BY <1>1, <1>2 DEF TouchesHead, Pages
<1>6. pc' = "idle" /\ j'.head = next_upage(j.head)
  <2>1. PICK k \in Journals : Return(k, "OK") /\ k.head = next_upage(j.head)
    BY CheckpointReturns
  <2> QED BY <2>1, ReturnOk DEF TailAdvances
<1>7. Running'
  BY <1>6 DEF Running, Resuming
<1>8. /\ mids' = {}
      /\ \A p \in DOMAIN accepted' :
           IF Accepts /\ p = j.head
             THEN accepted'[p] = call.meta
             ELSE p \in DOMAIN accepted /\ accepted'[p] = accepted[p]
      /\ IF Commits THEN saved'.live = accepted'
         ELSE \A p \in DOMAIN saved'.live :
                p \in DOMAIN saved.live /\ saved'.live[p] = saved.live[p]
  BY <1>1, CalmHistory DEF IntactInv
<1>9. ASSUME NEW p \in DOMAIN accepted'
      PROVE  /\ Stored(page', p, accepted'[p])
             /\ cp_page(p) = cp_page(j.head)
                \/ page[cp_page(p)].kind = "cp"
  <2>1. CASE Accepts /\ p = j.head
    <3>1. accepted'[p] = call.meta
      BY <1>8, <1>9, <2>1
    <3>2. page[j.head].kind # "torn" /\ buf.meta[j.head % ppc] = call.meta
      BY <1>1 DEF IntactInv
    <3>3. Stored(page', j.head, call.meta)
      BY <1>3, <1>4, <1>5, <3>2 DEF Stored
    <3> QED BY <2>1, <3>1, <3>3
  <2>2. CASE ~(Accepts /\ p = j.head)
    <3>1. /\ p \in DOMAIN accepted /\ accepted'[p] = accepted[p]
          /\ Kept(page, j.head, buf.meta, p, accepted[p])
      BY <1>1, <1>8, <1>9, <2>2 DEF IntactInv
    <3>2. p \in UPages /\ Before(j.tail_sync, p, j.head)
      BY <1>1, <3>1, LiveBehind
    <3>3. page'[p] = page[p] /\ (cp_page(p) # cp_page(j.head) =>
                                   page'[cp_page(p)] = page[cp_page(p)])
      BY <1>1, <3>2, BehindStays
    <3> QED BY <1>3, <1>4, <3>1, <3>2, <3>3 DEF Kept, Stored
  <2> QED BY <2>1, <2>2
<1>10. ASSUME NEW p \in DOMAIN accepted'
       PROVE  cp_page(p) # cp_page(j'.head)
  <2>1. CASE is_aligned(j'.head, ppb)
    BY <1>7, <2>1, LiveApart
  <2>2. CASE ~is_aligned(j'.head, ppb)
    <3>1. /\ j'.head \in UPages /\ block_of(j'.head) = block_of(j.head)
          /\ j.head < j'.head
      BY <1>2, <1>6, <2>2, NextGroup
    <3>2. /\ cp_page(j'.head) \in Pages /\ j'.head < cp_page(j'.head)
          /\ block_of(cp_page(j'.head)) = block_of(j.head)
      BY <3>1, GroupBounds
    <3>3. cp_page(j'.head) > cp_page(j.head)
      BY <1>2, <1>3, <3>1, <3>2 DEF Pages, UPages
    <3>4. is_erased(page, cp_page(j'.head))
      BY <1>2, <3>2, <3>3 DEF Ahead
    <3>5. cp_page(j'.head) # cp_page(j.head)
      BY <1>2, <1>3, <3>2, <3>3 DEF Pages
    <3> QED BY <1>9, <3>4, <3>5 DEF is_erased
  <2> QED BY <2>1, <2>2
<1>11. \A p \in DOMAIN saved'.live : Stored(page', p, saved'.live[p])
  BY <1>1, <1>8, <1>9, SavedStays
<1> QED BY <1>6, <1>7, <1>8, <1>9, <1>10, <1>11 DEF IntactInv, Kept

\* Power fails: what the last synchronization point needs is still there.
LEMMA CrashIntact ==
  ASSUME Inv, OrderInv, BlankInv, IntactInv, Observe, Crash
  PROVE  IntactInv'
<1>1. /\ Crashes /\ page' \in {page} \cup torn_pages /\ pc' = "resume"
  BY DEF Crash, Crashes, Inv, TypeOK
<1>2. mids' = mids /\ saved' = saved
  <2>1. ~Resumes
    BY <1>1 DEF Resumes
  <2> QED BY <1>1, <2>1 DEF Observe
<1>3. CASE page' = page
  BY <1>1, <1>2, <1>3 DEF IntactInv, Running, Resuming
<1>4. CASE page' \in torn_pages
  <2>1. TouchesHead /\ pc \in {"scan", "prog", "cp"}
    <3>1. CASE pc = "scan" /\ page' = erase_torn(block_of(j.head))
      BY <3>1 DEF erase_torn, TouchesHead
    <3>2. CASE pc = "prog" /\ page' = program_torn(j.head)
      BY <3>2, CallFacts, ProgramWrites DEF Written, TouchesHead
    <3>3. CASE pc = "cp" /\ page' = program_torn(j.head + 1)
      BY <3>3, CallFacts, CheckpointPage, ProgramWrites DEF Written, TouchesHead
    <3> QED BY <1>4, <3>1, <3>2, <3>3 DEF torn_pages, erasing
  <2> QED BY <1>1, <1>2, <2>1, SavedStays DEF IntactInv, Running, Resuming
<1> QED BY <1>1, <1>3, <1>4

\* Between calls the metadata in the buffer stays, unless the queue is cleared.
LEMMA IdleBuffer ==
  ASSUME Inv, ClientStep
  PROVE  buf'.meta = buf.meta \/ j'.tail = j.head
<1>1. buf \in [cookie : Cookies, meta : Slices] /\ j \in Journals
  BY DEF Inv, TypeOK
<1>2. ASSUME \E c \in Cookies : buf' = [buf EXCEPT !.cookie = c]
      PROVE  buf'.meta = buf.meta
  BY <1>1, <1>2
<1>3. CASE Enqueue \/ Copy
  BY <1>2, <1>3 DEF Enqueue, Copy, Begin
<1>4. CASE Pad
  BY <1>2, <1>4 DEF Pad, pad_queue, Begin
<1>5. CASE Gc
  BY <1>2, <1>5 DEF Gc, Begin, Quiet
<1>6. CASE Clear
  BY <1>1, <1>6 DEF Clear, Journals
<1> QED BY <1>3, <1>4, <1>5, <1>6 DEF ClientStep

\* A call of the client begins, or drops pages from the queue.
LEMMA IdleIntact ==
  ASSUME Inv, Inv', OrderInv, OrderInv', IntactInv, Observe, ClientStep \/ Recover,
         NoRecovery, NoRecovery'
  PROVE  IntactInv'
<1>1. /\ pc = "idle" /\ pc' \in {"idle", "scan", "prog"} /\ page' = page
      /\ j'.head = j.head /\ crashes' = crashes
  BY IdleStep DEF TailAdvances
<1>2. /\ Running /\ Running' /\ ~Crashes /\ ~Accepts /\ ~Commits
      /\ ~j.recovery /\ ~j'.recovery
  BY <1>1 DEF Running, Resuming, Crashes, Accepts, Commits, NoRecovery
<1>3. ClientStep
  BY <1>2 DEF Recover, Inv, RecoveryState
<1>4. /\ mids' = {}
      /\ \A p \in DOMAIN accepted' :
           p \in DOMAIN accepted /\ accepted'[p] = accepted[p]
      /\ \A p \in DOMAIN saved'.live :
           p \in DOMAIN saved.live /\ saved'.live[p] = saved.live[p]
  BY <1>2, CalmHistory DEF IntactInv
<1>5. buf'.meta = buf.meta \/ DOMAIN accepted' = {}
  <2>1. CASE j'.tail = j.head
    BY <1>2, <2>1, AcceptedAfter, RunningFacts
  <2> QED BY <1>3, <2>1, IdleBuffer
<1> QED BY <1>1, <1>2, <1>4, <1>5 DEF IntactInv

\* A restart comes back to pages that are on the flash, and to a head in a group
\* that has none of them.
LEMMA ResumeIntact ==
  ASSUME Inv, Inv', OrderInv, OrderInv', IntactInv, Observe, ResumeStep
  PROVE  IntactInv'
<1>1. /\ pc \in Resuming /\ page' = page /\ ~Crashes
      /\ pc' \in Resuming \/ pc' = "idle"
  BY DEF ResumeStep, FindFirst, FindLast, FindGroup, FindHead, ResumeFailed, Resuming,
         restore, Resumed, Crashes
<1>2. CASE pc' \in Resuming
  <2>1. ~Resumes
    BY <1>2 DEF Resumes, Resuming
  <2>2. UNCHANGED <<saved, mids>>
    BY <1>1, <2>1 DEF Observe
  <2> QED BY <1>1, <1>2, <2>2 DEF IntactInv, Running, Resuming
<1>3. CASE pc' = "idle"
  <2>1. pc # "r_last"
    BY <1>3 DEF ResumeStep, FindFirst, FindLast, FindGroup, FindHead
  <2>2. Resumes /\ Running'
    BY <1>1, <1>3, <2>1 DEF Resumes, Running, Resuming
  <2>3. /\ accepted' = saved'.live /\ mids' = {}
        /\ saved' = saved \/ saved' = NothingSaved
    BY <1>1, <2>2, ResumeObserved DEF Points, IntactInv
  <2>4. \A p \in DOMAIN accepted' : Stored(page', p, accepted'[p])
    BY <1>1, <2>3, NothingSavedOK DEF IntactInv
  <2>5. is_aligned(j'.head, ppb) \/ HeadFound
    <3>1. CASE ResumeFailed
      <4>1. j'.head = 0
        BY <3>1 DEF ResumeFailed, EmptyJournal
      <4> QED BY <4>1, Sizes DEF is_aligned
    <3>2. CASE FindHead
      BY <1>3, <3>2, FindHeadLands
    <3> QED BY <1>3, <3>1, <3>2
      DEF ResumeStep, FindFirst, FindLast, FindGroup, restore
  <2>6. \A p \in DOMAIN accepted' : cp_page(p) # cp_page(j'.head)
    <3>1. CASE is_aligned(j'.head, ppb)
      BY <2>2, <3>1, LiveApart
    <3>2. CASE HeadFound
      <4>1. j'.head \in UPages /\ cp_page(j'.head) = cp_page(j.head)
        BY <3>2 DEF HeadFound
      <4>2. /\ cp_page(j'.head) \in Pages /\ j'.head <= cp_page(j'.head)
            /\ cp_page(j'.head) <= cp_page(j.head)
        BY <4>1, GroupBounds DEF Pages, UPages
      <4>3. is_erased(page, cp_page(j'.head))
        BY <3>2, <4>2 DEF HeadFound
      <4> QED BY <1>1, <2>4, <4>3 DEF Stored, is_erased
    <3> QED BY <2>5, <3>1, <3>2
  <2> QED BY <1>3, <2>3, <2>4, <2>6 DEF IntactInv, Kept
<1> QED BY <1>1, <1>2, <1>3

\* Every step keeps the accepted pages intact.
LEMMA NextIntact ==
  ASSUME num_blocks >= 2, Inv, OrderInv, OwedInv, BlockInv, BlankInv, IntactInv,
         [HNext]_hvars, fails' # fails => can_skip(j), NoRecovery, NoRecovery'
  PROVE  IntactInv'
<1>1. Inv' /\ OrderInv'
  BY NextOwed
<1>2. CASE UNCHANGED hvars
  <2>1. UNCHANGED <<j, call, pc, page, buf, accepted, saved, mids>>
    BY <1>2 DEF hvars, vars
  <2> QED BY <2>1 DEF IntactInv, Running
<1>3. CASE /\ \/ SkipBad \/ CopyUnreadable \/ EraseOk
              \/ EraseFails \/ ProgramFails \/ CheckpointFails
           /\ Observe
  BY <1>1, <1>3, WaitIntact
<1>4. CASE PushMeta /\ Observe
  BY <1>1, <1>4, PushMetaIntact
<1>5. ~DumpMeta
  BY DEF DumpMeta, NoRecovery
<1>6. CASE Checkpoint /\ Observe
  BY <1>1, <1>6, CheckpointIntact
<1>7. CASE (ClientStep \/ Recover) /\ Observe
  BY <1>1, <1>7, IdleIntact
<1>8. CASE ResumeStep /\ Observe
  BY <1>1, <1>8, ResumeIntact
<1>9. CASE Crash /\ Observe
  BY <1>9, CrashIntact
<1> QED
  BY <1>2, <1>3, <1>4, <1>5, <1>6, <1>7, <1>8, <1>9
  DEF HNext, ResumeStep, ClientStep

\* Pages that are kept are read with the metadata they were accepted with.
LEMMA IntactIsRead ==
  ASSUME Inv, OrderInv, IntactInv, NoRecovery
  PROVE  AcceptedIntact
<1> SUFFICES ASSUME pc = "idle", NEW p \in DOMAIN accepted
             PROVE  meta_readable(p) /\ read_meta(p) = accepted[p] /\ readable(p)
  BY DEF AcceptedIntact
<1>1. Running
  BY DEF Running, Resuming
<1>2. /\ p \in UPages /\ p \in Pages /\ j.head \in UPages
  BY <1>1, LiveBehind, RunningFacts DEF UPages
<1>3. cp_page(p) \in Pages /\ (align_eq(p, j.head, ppc) <=> cp_page(p) = cp_page(j.head))
  BY <1>2, GroupBounds, GroupSlots
<1>4. j.recover_meta = PAGE_NONE
  BY DEF Inv, RecoveryState, RecoveryFields, NoRecovery
<1>5. meta_page(p) = cp_page(p)
  BY <1>4 DEF meta_page
<1>6. Kept(page, j.head, buf.meta, p, accepted[p])
  BY <1>1 DEF IntactInv
<1>7. page[p].kind # "torn"
  BY <1>6 DEF Kept, Stored
<1>8. CASE cp_page(p) = cp_page(j.head)
  <2>1. buffered(p) /\ buf.meta[p % ppc] = accepted[p]
    BY <1>3, <1>6, <1>8 DEF buffered, Kept
  <2> QED BY <1>2, <1>7, <2>1 DEF meta_readable, read_meta, readable
<1>9. CASE cp_page(p) # cp_page(j.head)
  <2>1. ~buffered(p) /\ Stored(page, p, accepted[p])
    BY <1>3, <1>6, <1>9 DEF buffered, Kept
  <2> QED BY <1>2, <1>3, <1>5, <1>7, <2>1 DEF meta_readable, read_meta, readable, Stored
<1> QED BY <1>8, <1>9

\* Between calls every accepted page can be read and has the metadata it was
\* accepted with, however often power is lost, as long as no block has to be
\* recovered.
THEOREM AcceptedPagesAreIntact ==
  ASSUME num_blocks >= 2
  PROVE  HSpec /\ FailuresSkip /\ []NoRecovery => []AcceptedIntact
<1> DEFINE I == Inv /\ OrderInv /\ OwedInv /\ BlockInv /\ BlankInv /\ IntactInv
<1>1. HInit => I
  BY InitBlock
  DEF HInit, Init, BlankInv, Entered, Running, Resuming, IntactInv, NothingSaved, NoPages
<1>2. /\ I /\ NoRecovery /\ NoRecovery' /\ [HNext]_hvars
      /\ [fails' # fails => can_skip(j)]_hvars
      => I'
  <2> SUFFICES ASSUME I, NoRecovery, NoRecovery', [HNext]_hvars,
                      [fails' # fails => can_skip(j)]_hvars
               PROVE  I'
    OBVIOUS
  <2>1. fails' # fails => can_skip(j)
    BY DEF hvars, vars
  <2> QED BY <2>1, NextBlockInv, NextBlank, NextIntact
<1>3. I /\ NoRecovery => AcceptedIntact
  BY IntactIsRead
<1> HIDE DEF I
<1> QED BY <1>1, <1>2, <1>3, PTL DEF HSpec, FailuresSkip

\* The pages of the checkpoint that a restart comes back to have their metadata,
\* as long as no block has to be recovered (with a recovery the run
\* resume_is_intact shows that they may lose it).
THEOREM RestartsAreIntact ==
  ASSUME num_blocks >= 2
  PROVE  HSpec /\ FailuresSkip /\ []NoRecovery => ResumeIsIntact
<1>1. AcceptedIntact' =>
        [Resumes => \A p \in DOMAIN accepted' :
           meta_readable(p)' /\ (read_meta(p) = accepted[p])']_hvars
  BY DEF AcceptedIntact, Resumes
<1> QED BY <1>1, AcceptedPagesAreIntact, PTL DEF ResumeIsIntact

-----------------------------------------------------------------------------
(* The root stays in the queue: RootInQueue                                *)

\* Between calls the map is busy with the recovery if there is one: it has not
\* given one up.
NoneGivenUp == pc = "idle" /\ j.recovery => client = "recovering"

\* Page p of journal k is in the queue, in a block that peek does not pass.
Placed(k, m, pg, p) ==
  p # PAGE_NONE => p \in queue(k.tail, k.head) /\ Usable(m, pg, block_of(p))

\* The root is such a page, and so is the one a recovery would return to; the
\* garbage collector dequeues nothing in a recovery.
RootedInv ==
  Running =>
    /\ Placed(j, marked, page, j.root)
    /\ j.recovery \/ call.dumping => Placed(j, marked, page, j.recover_root)
    /\ call.dequeue => ~j.recovery

\* What is in the queue is before the head, in a block a command at the head spares.
LEMMA QueueBehind ==
  ASSUME Inv, OrderInv, pc \in {"scan", "prog", "cp"}, NEW x \in queue(j.tail, j.head)
  PROVE  /\ x \in UPages /\ x \in Pages /\ Before(j.tail_sync, x, j.head)
         /\ is_aligned(j.head, ppb) => block_of(x) # block_of(j.head)
<1>1. /\ j.tail_sync \in Pages /\ j.tail \in Pages /\ j.head \in Pages
      /\ RingOK(j, call.dumping) /\ ClearOf(j.tail_sync, j.head)
  BY CallFacts
<1>2. x \in UPages /\ x \in Pages /\ Before(j.tail, x, j.head)
  BY InQueue DEF UPages
<1>3. Before(j.tail_sync, x, j.head)
  BY <1>1, <1>2, TailMoves DEF RingOK
<1> QED BY <1>1, <1>2, <1>3, BlockIsSpared

\* A usable block with a page of the queue stays usable unless it is marked.
LEMMA PlacedStays ==
  ASSUME Inv, OrderInv, TouchesHead, pc \in {"scan", "prog", "cp"},
         NEW x \in queue(j.tail, j.head), Usable(marked, page, block_of(x)),
         block_of(x) \notin marked'
  PROVE  Usable(marked', page', block_of(x))
<1>1. x \in Pages /\ (is_aligned(j.head, ppb) => block_of(x) # block_of(j.head))
  BY QueueBehind
<1>2. block_of(x) \in Blocks
  BY <1>1, BlockOf
<1>3. page'[first_page(block_of(x))] = page[first_page(block_of(x))]
  BY <1>1, <1>2, FirstPageStays
<1> QED BY <1>3 DEF Usable

\* A journal that retreats marks no block with its root.
LEMMA RetreatRooted ==
  ASSUME Inv, Inv', OrderInv, OwedInv, RootedInv, pc \in {"scan", "prog", "cp"},
         TouchesHead, Retreats, FailureMarks
  PROVE  RootedInv'
<1>1. /\ queue(j.tail, j.head) \subseteq queue(j'.tail, j'.head)
      /\ Running /\ LeftInv
  BY RetreatRing DEF Running, Resuming, OwedInv
<1>2. ASSUME NEW x, Placed(j, marked, page, x),
             marked' # marked /\ ~is_aligned(j.head, ppb) => x = j.recover_root
      PROVE  Placed(j', marked', page', x)
  <2>1. SUFFICES ASSUME x # PAGE_NONE
                 PROVE  /\ x \in queue(j'.tail, j'.head)
                        /\ Usable(marked', page', block_of(x))
    BY DEF Placed
  <2>2. x \in queue(j.tail, j.head) /\ Usable(marked, page, block_of(x))
    BY <1>2, <2>1 DEF Placed
  <2>3. block_of(x) \notin marked'
    <3>1. CASE marked' = marked
      BY <2>2, <3>1 DEF Usable
    <3>2. CASE is_aligned(j.head, ppb)
      BY <2>2, <3>2, QueueBehind DEF Usable, FailureMarks
    <3>3. CASE marked' # marked /\ ~is_aligned(j.head, ppb)
      <4>1. block_of(j.head) # block_of(x)
        BY <1>1, <1>2, <2>1, <3>3 DEF FailureMarks, LeftInv
      <4> QED BY <2>2, <4>1 DEF Usable, FailureMarks
    <3> QED BY <3>1, <3>2, <3>3
  <2> QED BY <1>1, <2>2, <2>3, PlacedStays
<1>3. Placed(j', marked', page', j'.root)
  <2>1. /\ Placed(j, marked, page, j'.root)
        /\ marked' # marked /\ ~is_aligned(j.head, ppb) => j'.root = j.recover_root
    BY <1>1 DEF Retreats, RootedInv, FailureMarks
  <2> QED BY <1>2, <2>1
<1>4. j'.recovery \/ call'.dumping => Placed(j', marked', page', j'.recover_root)
  <2>1. SUFFICES ASSUME j'.recovery \/ call'.dumping
                 PROVE  Placed(j', marked', page', j'.recover_root)
    OBVIOUS
  <2>2. /\ Placed(j, marked, page, j'.recover_root)
        /\ marked' # marked /\ ~is_aligned(j.head, ppb) =>
             j'.recover_root = j.recover_root
    BY <1>1, <2>1 DEF Retreats, RootedInv, FailureMarks
  <2> QED BY <1>2, <2>2
<1>5. call'.dequeue => ~j'.recovery
  BY <1>1 DEF Retreats, RootedInv, FailureMarks, NoCall
<1> QED BY <1>3, <1>4, <1>5 DEF RootedInv

\* A step of a call that moves no pointer and marks nothing.
LEMMA SameRooted ==
  ASSUME Inv, OrderInv, RootedInv, pc \in {"scan", "prog", "cp"}, TouchesHead,
         UNCHANGED <<j, marked>>, call'.dequeue => call.dequeue,
         call'.dumping => call.dumping
  PROVE  RootedInv'
<1>1. Running
  BY DEF Running, Resuming
<1>2. ASSUME NEW x, Placed(j, marked, page, x)
      PROVE  Placed(j', marked', page', x)
  BY <1>2, PlacedStays DEF Placed, Usable
<1> QED BY <1>1, <1>2 DEF RootedInv

\* The page at the head is accepted as the root, and the call returns with
\* journal k, or with what dequeueing has made of it.
LEMMA AcceptRooted ==
  ASSUME Inv, OrderInv, RootedInv, pc \in {"prog", "cp"}, TouchesHead,
         NEW k \in Journals, Return(k, "OK"), k.root = j.head, k.tail = j.tail,
         Onward(j.tail_sync, j.head, k.head), k.head # j.head,
         Usable(marked', page', block_of(j.head)),
         j'.recovery => marked' = marked /\ SameRecovery(j, j')
  PROVE  RootedInv'
<1>1. /\ Running /\ j \in Journals /\ RingOK(j, call.dumping)
      /\ j.tail \in UPages /\ j.tail \in Pages /\ j.head \in UPages /\ j.head \in Pages
      /\ k.head \in Pages
  BY CallFacts DEF Running, Resuming, Journals, UPages
<1>2. /\ j.head \in queue(j.tail, k.head)
      /\ queue(j.tail, j.head) \subseteq queue(j.tail, k.head)
  BY <1>1, HeadQueued
<1>3. /\ j'.head = k.head /\ j'.root \in {j.head, PAGE_NONE} /\ call' = NoCall
      /\ j'.tail = j.tail \/ (call.dequeue /\ j'.tail = next_upage(j.tail))
  BY ReturnOk DEF TailAdvances
<1>4. j.head \in queue(j'.tail, j'.head)
  <2>1. CASE j'.tail = j.tail
    BY <1>2, <1>3, <2>1
  <2>2. CASE call.dequeue /\ j'.tail = next_upage(j.tail)
    <3> DEFINE n == next_upage(j.tail)
    <3>1. j.tail # j.head /\ n \in Pages /\ Upto(j.tail, j.tail, j.head)
      BY <1>1, <2>2, NextUPage, OrderTrans DEF OrderInv, PlaceInv, UPages
    <3>2. Upto(j.tail, n, j.head)
      BY <1>1, <3>1, NextUser
    <3>3. Before(j.tail, j.head, k.head)
      BY <1>2, InQueue
    <3> HIDE DEF n
    <3>4. Before(n, j.head, k.head)
      BY <1>1, <3>1, <3>2, <3>3, TailMoves
    <3> QED BY <1>1, <1>3, <2>2, <3>4, InQueue DEF n
  <2> QED BY <1>3, <2>1, <2>2
<1>5. Placed(j', marked', page', j'.root)
  BY <1>3, <1>4 DEF Placed
<1>6. ASSUME j'.recovery PROVE Placed(j', marked', page', j'.recover_root)
  <2>1. j.recovery /\ j'.recover_root = j.recover_root /\ marked' = marked
    BY <1>6 DEF SameRecovery
  <2>2. Placed(j, marked, page, j.recover_root) /\ j'.tail = j.tail
    BY <1>1, <1>3, <2>1 DEF RootedInv
  <2> QED BY <1>2, <1>3, <2>1, <2>2, PlacedStays DEF Placed, Usable
<1> QED BY <1>3, <1>5, <1>6 DEF RootedInv, NoCall

\* The user page of an enqueue or copy is on the flash.
LEMMA PushMetaRooted ==
  ASSUME Inv, OrderInv, BlockInv, RootedInv, PushMeta
  PROVE  RootedInv'
<1>1. pc = "prog" /\ marked' = marked /\ ProgramOk /\ TouchesHead
  BY CommandTouches DEF PushMeta, ProgramOk
<1>2. Usable(marked', page', block_of(j.head))
  BY <1>1, HeadProgrammed
<1>3. /\ j \in Journals /\ j.head \in UPages /\ j.head \in Pages
      /\ j.tail_sync \in Pages /\ ClearOf(j.tail_sync, j.head)
  BY <1>1, CallFacts
<1>4. CASE pc' = "cp" /\ UNCHANGED <<j, call, client>>
  BY <1>1, <1>4, SameRooted
<1>5. CASE /\ ~is_aligned(j.head + 2, ppc)
           /\ Return([j EXCEPT !.root = j.head, !.head = j.head + 1], "OK")
  <2> DEFINE k == [j EXCEPT !.root = j.head, !.head = j.head + 1]
  <2>1. /\ j.head + 1 \in UPages /\ block_of(j.head + 1) = block_of(j.head)
        /\ j.head + 1 \in Pages /\ j.head <= j.head + 1 /\ j.head # j.head + 1
    BY <1>3, <1>5, NextOffset DEF UPages, Pages
  <2>2. /\ k \in Journals /\ k.head = j.head + 1 /\ k.root = j.head
        /\ k.tail = j.tail /\ SameRecovery(j, k)
    BY <1>3, <2>1 DEF Journals, UPagesOrNone, SameRecovery
  <2>3. Return(k, "OK")
    BY <1>5
  <2> HIDE DEF k
  <2>4. Onward(j.tail_sync, j.head, k.head)
    BY <1>3, <2>1, <2>2, OnwardInBlock
  <2>5. SameRecovery(j, j')
    BY <2>2, <2>3, ReturnRecovery DEF SameRecovery
  <2> QED BY <1>1, <1>2, <2>1, <2>2, <2>3, <2>4, <2>5, AcceptRooted
<1> QED BY <1>4, <1>5 DEF PushMeta

\* A checkpoint completes its group. A recovery that goes on marks nothing.
LEMMA CheckpointRooted ==
  ASSUME num_blocks >= 2, Inv, OrderInv, RootedInv, Checkpoint,
         Usable(marked', page', block_of(j.head))
  PROVE  RootedInv'
<1>1. pc = "cp" /\ TouchesHead
  BY CommandTouches DEF Checkpoint
<1>2. PICK k \in Journals :
        /\ Return(k, "OK") /\ k.root = j.head /\ k.tail = j.tail
        /\ Onward(j.tail_sync, j.head, k.head) /\ k.head # j.head
        /\ j'.recovery => SameRecovery(j, j')
  BY CheckpointReturns
<1>3. j'.recovery => marked' = marked
  <2>1. SUFFICES ASSUME j.enum_done PROVE ~j'.recovery
    BY DEF Checkpoint
  <2>2. j \in Journals
    BY <1>1, CallFacts
  <2> DEFINE clean == move_head([j EXCEPT !.dirty = FALSE, !.root = j.head],
                                next_upage(j.head))
             k2 == [clear_recovery(clean) EXCEPT !.tail_sync =
                      IF clear_recovery(clean).recovery THEN @
                      ELSE clear_recovery(clean).tail]
  <2>3. Return(k2, "OK")
    BY <2>1 DEF Checkpoint
  <2>4. k2 \in Journals /\ ~k2.recovery
    <3>1. checkpointed \in Journals /\ checkpointed = clear_recovery(clean)
      BY <2>1, <2>2, CheckpointedPointers DEF checkpointed
    <3> HIDE DEF clean
    <3>2. ~clear_recovery(clean).recovery
      BY <3>1 DEF Journals, clear_recovery
    <3> QED BY <3>1, <3>2 DEF Journals
  <2> HIDE DEF k2
  <2> QED BY <2>3, <2>4, ReturnOk DEF TailAdvances
<1> QED BY <1>1, <1>2, <1>3, AcceptRooted

\* The metadata is dumped: the recovery begins.
LEMMA DumpMetaRooted ==
  ASSUME num_blocks >= 2, Inv, OrderInv, RootedInv, DumpMeta
  PROVE  RootedInv'
<1>1. pc = "prog" /\ marked' = marked /\ call.dumping /\ TouchesHead
  BY CommandTouches DEF DumpMeta, ProgramOk
<1>2. /\ j \in Journals /\ j.head \in UPages /\ j.head \in Pages /\ Running
      /\ j.tail_sync \in Pages /\ ClearOf(j.tail_sync, j.head)
      /\ RingOK(j, call.dumping) /\ ~RollsOnto(j.tail_sync, j.head)
  BY <1>1, CallFacts
<1> DEFINE n == next_upage(j.head)
           m == move_head(j, n)
           k == [m EXCEPT !.recover_meta = j.head, !.recovery = TRUE]
<1>3. n \in UPages /\ n # j.head /\ Onward(j.tail_sync, j.head, n)
  BY <1>2, NextUPage, OnwardNext DEF RollsOnto
<1> HIDE DEF n
<1>4. m \in Journals /\ SamePointers(j, m) /\ m.head = n
  BY <1>2, <1>3, MoveHeadPointers, MoveHeadType
<1> HIDE DEF m
<1>5. /\ k \in Journals /\ k.head = n /\ k.tail = j.tail /\ k.root = j.root
      /\ k.recover_root = j.recover_root
  BY <1>2, <1>4 DEF Journals, SamePointers, UPagesOrNone
<1>6. Return(k, "RECOVER")
  BY DEF DumpMeta, m, n
<1> HIDE DEF k
<1>7. j' = k /\ call' = NoCall
  BY <1>6, ReturnError
<1>8. queue(j.tail, j.head) \subseteq queue(j'.tail, j'.head)
  BY <1>2, <1>3, <1>5, <1>7, HeadQueued
<1>9. ASSUME NEW x, Placed(j, marked, page, x)
      PROVE  Placed(j', marked', page', x)
  BY <1>1, <1>8, <1>9, PlacedStays DEF Placed, Usable
<1> QED BY <1>1, <1>2, <1>5, <1>7, <1>9 DEF RootedInv, NoCall

\* peek moves the tail past bad blocks, none of which has the root.
LEMMA PeekRooted ==
  ASSUME j \in Journals, j.root \in queue(j.tail, j.head),
         Usable(marked, page, block_of(j.root)),
         NEW t \in UPages, peeked([j EXCEPT !.tail = t])
  PROVE  j.root \in queue(t, j.head)
<1> DEFINE k == [j EXCEPT !.tail = t]
<1>1. /\ k \in Journals /\ k.tail = t /\ k.root = j.root
      /\ j.tail \in Pages /\ j.head \in Pages /\ t \in Pages
      /\ j.root \in UPages /\ j.root \in Pages /\ Before(j.tail, j.root, j.head)
  BY InQueue DEF Journals, UPages
<1>2. peeked(k)
  OBVIOUS
<1> HIDE DEF k
<1>3. CASE k = j
  BY <1>1, <1>3
<1>4. CASE /\ is_aligned(j.tail, ppb)
           /\ \E b \in Blocks :
                /\ at_tail(b)
                /\ k = [j EXCEPT !.tail = first_page(b),
                          !.root = IF first_page(b) = j.head THEN PAGE_NONE ELSE @]
  <2>1. PICK b \in Blocks :
             /\ at_tail(b)
             /\ k = [j EXCEPT !.tail = first_page(b),
                       !.root = IF first_page(b) = j.head THEN PAGE_NONE ELSE @]
    BY <1>4
  <2>2. t = first_page(b)
    BY <1>1, <2>1 DEF Journals
  <2>3. PICK n \in 0 .. (MAX_RETRIES - 1) :
             /\ b = (block_of(j.tail) + n) % num_blocks
             /\ \A i \in 0 .. (n - 1) :
                  LET c == (block_of(j.tail) + i) % num_blocks
                  IN  c # block_of(j.head) /\ dhara_nand_is_bad(c)
    BY <2>1 DEF at_tail
  <2>4. n \in Nat
    BY <2>3, GeometryAssumption
  <2>5. Upto(j.tail, t, j.head)
    BY <1>1, <1>4, <2>2, <2>3, <2>4, PeekedTail
  <2>6. ~dhara_nand_is_bad(block_of(j.root))
    BY <1>1, BlockOf, UsableIsGood
  <2>7. \A i \in 0 .. (n - 1) : (block_of(j.tail) + i) % num_blocks # block_of(j.root)
    BY <2>3, <2>6
  <2>8. Upto(j.tail, t, j.root)
    BY <1>1, <1>4, <2>2, <2>3, <2>4, <2>7, PeekedTail
  <2>9. Before(t, j.root, j.head)
    BY <1>1, <2>8, TailMoves
  <2> QED BY <1>1, <2>9, InQueue
<1> QED BY <1>2, <1>3, <1>4 DEF peeked

\* dequeue keeps the root as long as it is in the queue.
LEMMA DequeueRooted ==
  ASSUME NEW k \in Journals, k.root # PAGE_NONE => k.root \in queue(k.tail, k.head)
  PROVE  LET e == dequeue(k)
         IN  e.root # PAGE_NONE => e.root = k.root /\ e.root \in queue(e.tail, e.head)
<1> DEFINE e == dequeue(k)
           n == next_upage(k.tail)
<1>1. SUFFICES ASSUME e.root # PAGE_NONE
               PROVE  e.root = k.root /\ e.root \in queue(e.tail, e.head)
  OBVIOUS
<1>2. /\ k.tail \in UPages /\ k.head \in UPages /\ k.tail \in Pages
      /\ k.head \in Pages /\ n \in UPages /\ n \in Pages
  BY NextUPage DEF Journals, UPages
<1>3. e.head = k.head
  BY DequeueType
<1>4. CASE k.head = k.tail
  BY <1>1, <1>4 DEF dequeue
<1>5. CASE k.head # k.tail
  <2>1. e = [k EXCEPT
                 !.tail = n,
                 !.tail_sync = IF k.dirty \/ k.recovery THEN @ ELSE n,
                 !.root = IF @ # PAGE_NONE
                             /\ ring_distance(@, k.head) > ring_distance(n, k.head)
                          THEN PAGE_NONE ELSE @]
    BY <1>5 DEF dequeue
  <2> HIDE DEF e, n
  <2>2. /\ e.tail = n /\ e.root = k.root
        /\ ~(ring_distance(k.root, k.head) > ring_distance(n, k.head))
    BY <1>1, <2>1 DEF Journals
  <2>3. k.root \in UPages /\ k.root \in Pages /\ Before(k.tail, k.root, k.head)
    BY <1>1, <2>2, InQueue DEF UPages
  <2>4. ring_distance(k.root, k.head) <= ring_distance(n, k.head)
    <3>1. ring_distance(k.root, k.head) \in Nat /\ ring_distance(n, k.head) \in Nat
      BY <1>2, <2>3, Distance
    <3> QED BY <2>2, <3>1
  <2>5. Upto(n, k.root, k.head)
    BY <1>2, <2>3, <2>4, DistanceToHead
  <2>6. k.root # k.head
    BY <1>2, <2>3, OrderTrans
  <2>7. Before(n, k.root, k.head)
    BY <1>2, <2>3, <2>5, <2>6, OrderTrans
  <2> QED BY <1>3, <2>2, <2>3, <2>7, InQueue
<1> QED BY <1>4, <1>5

\* Of the calls of the client only the garbage collector and clear move the tail,
\* and only the former dequeues.
LEMMA TailWaits ==
  ASSUME Inv, OrderInv, Enqueue \/ Copy \/ Pad \/ Recover
  PROVE  j'.tail = j.tail /\ ~call'.dequeue
<1>1. j \in Journals /\ pc = "idle" /\ ~call.dequeue
  BY BetweenCalls DEF Inv, TypeOK, Enqueue, Copy, Pad, Recover
<1>2. ASSUME NEW k \in Journals, k.tail = j.tail,
             \E op, src, m : Begin(k, op, src, m, FALSE)
      PROVE  j'.tail = j.tail /\ ~call'.dequeue
  <2>1. PICK op, src, m : Begin(k, op, src, m, FALSE)
    BY <1>2
  <2>2. SamePointers(k, j')
    BY <2>1, BeginStep
  <2>3. ~call'.dequeue
    <3> DEFINE c == [NoCall EXCEPT !.op = op, !.src = src, !.meta = m,
                                   !.dequeue = FALSE]
    <3>1. prepare_head(k, c)
      BY <2>1 DEF Begin
    <3>2. c.dequeue = FALSE /\ DOMAIN c = DOMAIN NoCall
      BY DEF NoCall
    <3> HIDE DEF c
    <3>3. call' = NoCall \/ call' = [c EXCEPT !.scans = 0]
      BY <3>1 DEF prepare_head, Return
    <3> QED BY <3>2, <3>3 DEF NoCall
  <2> QED BY <1>2, <2>2, <2>3 DEF SamePointers
<1>3. ASSUME pad_queue(j) PROVE j'.tail = j.tail /\ ~call'.dequeue
  <2>1. \/ \E op, src, m : Begin(j, op, src, m, FALSE)
        \/ j' = j /\ call' = call
    BY <1>3 DEF pad_queue
  <2> QED BY <1>1, <1>2, <2>1
<1>4. CASE Enqueue \/ Copy
  BY <1>1, <1>2, <1>4 DEF Enqueue, Copy
<1>5. CASE Pad
  BY <1>3, <1>5 DEF Pad
<1>6. CASE Recover
  <2> DEFINE k == next_recoverable
  <2>1. j.recover_next # PAGE_NONE
    BY <1>6 DEF Recover, Inv, RecoveryState, RecoveryFields
  <2>2. k \in Journals /\ k.tail = j.tail
    <3>1. next_upage(j.recover_next) \in RecoverPages
      <4>1. \/ j.recover_next \in UPages
            \/ (j.recover_next \in Nat /\ j.recover_next >= chip_size)
        BY <1>1, <2>1, PageNone, GeometryAssumption DEF Journals, RecoverPages, UPagesOrNone
      <4> QED BY <4>1, NextUPage, NextUPageOutside DEF RecoverPages, UPagesOrNone
    <3> QED BY <1>1, <3>1 DEF next_recoverable, Journals
  <2> HIDE DEF k
  <2>3. \/ pad_queue(j)
        \/ j' = k /\ call' = call
        \/ \E op, src, m : Begin(k, op, src, m, FALSE)
    BY <1>6 DEF Recover, Quiet, k
  <2> QED BY <1>1, <1>2, <1>3, <2>2, <2>3
<1> QED BY <1>4, <1>5, <1>6

\* The garbage collector moves the tail past no page that stays the root.
LEMMA GcRooted ==
  ASSUME Inv, OrderInv, Placed(j, marked, page, j.root), Gc
  PROVE  j'.root # PAGE_NONE => j'.root \in queue(j'.tail, j'.head)
<1>1. j \in Journals
  BY DEF Inv, TypeOK
<1>2. PICK t \in UPages, r \in {j.root, PAGE_NONE} :
        LET k == [j EXCEPT !.tail = t, !.root = r]
        IN  /\ peeked(k)
            /\ \/ j' = k
               \/ j' = dequeue(k)
               \/ \E m \in Meta : Begin(k, "copy", t, m, TRUE)
  BY DEF Gc
<1> DEFINE k == [j EXCEPT !.tail = t, !.root = r]
<1>3. k \in Journals /\ k.tail = t /\ k.root = r /\ k.head = j.head
  BY <1>1 DEF Journals, UPagesOrNone
<1>4. ASSUME r # PAGE_NONE PROVE r \in queue(t, j.head)
  <2>1. /\ r = j.root /\ k = [j EXCEPT !.tail = t] /\ peeked(k)
    BY <1>1, <1>2, <1>4 DEF Journals
  <2>2. /\ j.root \in queue(j.tail, j.head) /\ Usable(marked, page, block_of(j.root))
    BY <1>4, <2>1 DEF Placed
  <2> HIDE DEF k
  <2> QED BY <1>1, <2>1, <2>2, PeekRooted
<1>5. \/ j' = k
      \/ j' = dequeue(k)
      \/ \E m \in Meta : Begin(k, "copy", t, m, TRUE)
  BY <1>2
<1> HIDE DEF k
<1>6. CASE j' = k
  BY <1>3, <1>4, <1>6
<1>7. CASE j' = dequeue(k)
  BY <1>3, <1>4, <1>7, DequeueRooted
<1>8. CASE \E m \in Meta : Begin(k, "copy", t, m, TRUE)
  BY <1>3, <1>4, <1>8, BeginStep DEF SamePointers
<1> QED BY <1>5, <1>6, <1>7, <1>8

\* Between calls the root stays in the queue or is given up. The tail moves only
\* outside a recovery: the client is busy with one that has begun.
LEMMA IdleRooted ==
  ASSUME Inv, OrderInv, RootedInv, NoneGivenUp, ClientStep \/ Recover
  PROVE  RootedInv'
<1>1. /\ pc = "idle" /\ Running /\ ~call.dumping /\ ~call'.dumping
      /\ UNCHANGED <<page, marked>> /\ TailAdvances(j, j') /\ j \in Journals
  BY IdleStep, BetweenCalls DEF Running, Resuming, Inv, TypeOK
<1>2. /\ Placed(j, marked, page, j.root)
      /\ j.recovery => Placed(j, marked, page, j.recover_root)
  BY <1>1 DEF RootedInv
<1>3. /\ j'.head = j.head /\ j'.recovery = j.recovery
      /\ j'.recover_root = j.recover_root
      /\ j'.root = j.root \/ j'.root = PAGE_NONE
  BY <1>1 DEF TailAdvances
<1>4. CASE Enqueue \/ Copy \/ Pad \/ Recover
  <2>1. j'.tail = j.tail /\ ~call'.dequeue
    BY <1>4, TailWaits
  <2> QED BY <1>1, <1>2, <1>3, <2>1 DEF RootedInv, Placed
<1>5. CASE Gc \/ Clear
  <2>1. ~j'.recovery
    BY <1>1, <1>3, <1>5 DEF Gc, Clear, NoneGivenUp
  <2>2. j'.root # PAGE_NONE => j'.root \in queue(j'.tail, j'.head)
    <3>1. CASE Gc
      BY <1>2, <3>1, GcRooted
    <3>2. CASE Clear
      <4>1. j' = [j EXCEPT !.tail = j.head, !.root = PAGE_NONE, !.dirty = TRUE]
        BY <3>2 DEF Clear
      <4> QED BY <1>1, <4>1 DEF Journals
    <3> QED BY <1>5, <3>1, <3>2
  <2>3. Placed(j', marked', page', j'.root)
    BY <1>1, <1>2, <1>3, <2>2 DEF Placed
  <2> QED BY <1>1, <2>1, <2>3 DEF RootedInv
<1> QED BY <1>4, <1>5 DEF ClientStep

\* A restart that ends has found its root in a block it takes for good.
LEMMA ResumeRooted ==
  ASSUME Inv, Inv', OrderInv, OrderInv', BlockInv, ResumeStep
  PROVE  RootedInv'
<1>1. /\ pc \in Resuming /\ UNCHANGED <<page, marked, call>> /\ j' \in Journals
  BY DEF ResumeStep, FindFirst, FindLast, FindGroup, FindHead, Resuming, Inv, TypeOK
<1>2. SUFFICES ASSUME Running' PROVE RootedInv'
  BY DEF RootedInv
<1>3. pc' = "idle"
  BY <1>2 DEF ResumeStep, FindFirst, FindLast, FindGroup, FindHead, ResumeFailed,
              restore, Resumed, Running, Resuming
<1>4. ~call'.dumping /\ ~call'.dequeue
  BY <1>3 DEF Inv, RecoveryState, OrderInv, PlaceInv
<1>5. CASE ResumeFailed
  BY <1>4, <1>5 DEF ResumeFailed, EmptyJournal, RootedInv, Placed
<1>6. CASE ~ResumeFailed
  <2>1. FindHead
    BY <1>1, <1>3, <1>6
    DEF ResumeStep, FindFirst, FindLast, FindGroup, restore, Resuming
  <2>2. pc = "r_head" /\ j \in Journals /\ j.root \in UPages
    BY <2>1, RootFacts DEF FindHead
  <2>3. PICK x : Resumed(x) /\ x.root = j.root
    <3> DEFINE first == align_down(j.head, ppc)
               after == IF first + ppc >= chip_size THEN 0 ELSE first + ppc
               m == move_head(j, after)
               chased == [m EXCEPT !.tail = first_page(next_block(block_of(@)))]
    <3>1. m.root = j.root /\ chased.root = j.root
      BY <2>2 DEF move_head, roll_stats, Journals
    <3>2. PICK n \in 0 .. ppc :
            \/ Resumed([j EXCEPT !.head = first + ppc - n])
            \/ Resumed(IF align_eq(after, m.tail, ppb) THEN chased ELSE m)
      BY <1>3, <2>1, <2>2 DEF FindHead
    <3> HIDE DEF m, chased
    <3>3. [j EXCEPT !.head = first + ppc - n].root = j.root
      BY <2>2 DEF Journals
    <3> HIDE DEF first
    <3> QED BY <3>1, <3>2, <3>3
  <2>4. j'.tail_sync = j'.tail /\ ~j'.recovery
    BY <1>1, <2>3, ResumedEnds
  <2>5. j'.root = j.root
    <3> DEFINE y == [x EXCEPT !.dirty = FALSE, !.tail_sync = x.tail]
    <3>1. j' = clear_recovery(y)
      BY <2>3 DEF Resumed
    <3>2. "root" \in DOMAIN j' /\ DOMAIN y = DOMAIN j'
      BY <1>1, <3>1 DEF Journals, clear_recovery
    <3>3. y.root = x.root
      BY <3>2
    <3> HIDE DEF y
    <3> QED BY <2>3, <3>1, <3>2, <3>3 DEF clear_recovery
  <2>6. Before(j'.tail, j'.root, j'.head)
    <3>1. RingOK(j', call'.dumping) /\ j'.root # PAGE_NONE
      BY <1>2, <2>2, <2>5, PageNone DEF OrderInv, RingInv
    <3> QED BY <2>4, <3>1 DEF RingOK, Behind
  <2>7. Usable(marked', page', block_of(j'.root))
    BY <1>1, <2>2, <2>5 DEF BlockInv, GoodSearch
  <2>8. Placed(j', marked', page', j'.root)
    BY <2>2, <2>5, <2>6, <2>7, InQueue DEF Placed
  <2> QED BY <1>4, <2>4, <2>8 DEF RootedInv
<1> QED BY <1>5, <1>6

\* Every step keeps the root in the queue.
LEMMA NextRooted ==
  ASSUME num_blocks >= 2, Inv, OrderInv, OwedInv, BlockInv, RootedInv, NoneGivenUp,
         [HNext]_hvars
  PROVE  RootedInv'
<1>1. Inv' /\ OrderInv' /\ OwedInv' /\ BlockInv'
  BY NextBlockInv
<1>2. CASE UNCHANGED hvars
  <2>1. UNCHANGED <<j, call, pc, page, marked>>
    BY <1>2 DEF hvars, vars
  <2> QED BY <2>1 DEF RootedInv, Running
<1>3. CASE SkipBad \/ CopyUnreadable
  <2>1. TouchesHead /\ pc \in {"scan", "prog", "cp"}
    BY <1>3, CommandTouches
  <2>2. DumpPlace /\ j.dirty
    BY <2>1, CallFacts DEF BlockInv
  <2>3. FailureMarks
    BY <1>3, <2>2, PassMarks DEF DumpPlace
  <2>4. Retreats
    BY <1>3, <2>2, SkipBadRetreats, ReturnError, RetreatReturns DEF CopyUnreadable
  <2> QED BY <1>1, <2>1, <2>3, <2>4, RetreatRooted
<1>4. CASE EraseFails \/ ProgramFails \/ CheckpointFails
  <2>1. BadBlock
    BY <1>4 DEF EraseFails, ProgramFails, CheckpointFails
  <2>2. TouchesHead /\ pc \in {"scan", "prog", "cp"}
    BY <1>4, CommandTouches
  <2>3. DumpPlace
    BY <2>2, CallFacts DEF BlockInv
  <2>4. FailureMarks /\ Retreats
    BY <2>1, <2>3, BadBlockMarks, BadBlockRetreats DEF DumpPlace
  <2> QED BY <1>1, <2>2, <2>4, RetreatRooted
<1>5. CASE EraseOk
  <2>1. TouchesHead /\ pc \in {"scan", "prog", "cp"}
    BY <1>5, CommandTouches
  <2>2. /\ UNCHANGED <<j, marked>> /\ call' = [call EXCEPT !.scans = 0]
        /\ call \in CallRecords
    BY <1>5 DEF EraseOk, Inv, TypeOK
  <2>3. call'.dequeue = call.dequeue /\ call'.dumping = call.dumping
    BY <2>2 DEF CallRecords
  <2> QED BY <2>1, <2>2, <2>3, SameRooted
<1>6. CASE PushMeta
  BY <1>6, PushMetaRooted
<1>7. CASE DumpMeta
  BY <1>7, DumpMetaRooted
<1>8. CASE Checkpoint
  BY <1>8, CheckpointUsable, CheckpointRooted
<1>9. CASE ResumeStep
  BY <1>1, <1>9, ResumeRooted
<1>10. CASE ClientStep \/ Recover
  BY <1>10, IdleRooted
<1>11. CASE Crash
  BY <1>11 DEF Crash, RootedInv, Running, Resuming
<1> QED
  BY <1>2, <1>3, <1>4, <1>5, <1>6, <1>7, <1>8, <1>9, <1>10, <1>11
  DEF HNext, ResumeStep, ClientStep

\* Between calls the root is a page of the queue, whatever fails and whenever power
\* is lost, as long as the map does not give a recovery up. (When it does, the
\* README has the trace on which the garbage collector passes the root.)
THEOREM RootStaysInQueue ==
  ASSUME num_blocks >= 2 PROVE HSpec /\ []NoneGivenUp => []RootInQueue
<1> DEFINE I == Inv /\ OrderInv /\ OwedInv /\ BlockInv /\ RootedInv
<1>1. HInit => I
  BY InitBlock DEF HInit, Init, RootedInv, Running, Resuming
<1>2. I /\ NoneGivenUp /\ [HNext]_hvars => I'
  BY NextBlockInv, NextRooted
<1>3. I => RootInQueue
  BY DEF RootedInv, RootInQueue, Placed, Running, Resuming
<1> QED BY <1>1, <1>2, <1>3, PTL DEF HSpec

-----------------------------------------------------------------------------
(* A restart finds the last checkpoint: ResumeFindsCheckpoint              *)

\* The checkpoint page of the last synchronization point, and its block.
point == saved.root + 1
home == block_of(saved.root)

\* Page c has a checkpoint; the epoch of the next round of the chip.
is_cp(c) == page[c].kind = "cp"
next_epoch(e) == (e + 1) % EPOCHS

\* How many blocks the head goes from block a to block b.
steps(a, b) == IF b >= a THEN b - a ELSE b + num_blocks - a

\* Before the first synchronization point no usable block has a checkpoint.
NothingFound ==
  /\ saved.tail = 0
  /\ \A c \in Pages : is_cp(c) => ~Usable(marked, page, block_of(c))

\* The checkpoint of the synchronization point is on the flash, and the first one
\* of its block with it. It is the last one in its block; the checkpoints of other
\* usable blocks are of its epoch if they are before it, and of the epoch before
\* if they are behind it.
PointFound ==
  /\ is_cp(point) /\ page[point].tail = saved.tail /\ page[point].cookie = saved.cookie
  /\ Usable(marked, page, home) /\ is_cp(first_cp(home))
  /\ \A c \in Pages : is_cp(c) /\ Usable(marked, page, block_of(c)) =>
       /\ block_of(c) = home => c <= point
       /\ c <= point => page[c].epoch = page[point].epoch
       /\ c > point => next_epoch(page[c].epoch) = page[point].epoch

\* Since that checkpoint the head has passed unusable blocks only, and the block
\* it is in has no checkpoint yet.
HeadFollows ==
  /\ block_of(j.head) = home => j.head > point
  /\ \A b \in Blocks :
       0 < steps(home, b) /\ steps(home, b) < steps(home, block_of(j.head)) =>
         ~Usable(marked, page, b)
  /\ Entered /\ block_of(j.head) # home =>
       \A c \in Pages : block_of(c) = block_of(j.head) => ~is_cp(c)
  /\ j.epoch = IF block_of(j.head) >= home THEN page[point].epoch
               ELSE next_epoch(page[point].epoch)

\* A head that has left the first group of its block has left a checkpoint there.
FirstKept ==
  Running /\ j.head > first_cp(block_of(j.head)) => is_cp(first_cp(block_of(j.head)))

\* No page of group g of the block of the synchronization point is programmed.
group_free(g) == cp_free(first_page(home) + g * ppc)

\* The searches of a restart close in on the synchronization point.
SearchFollows ==
  /\ pc \in {"r_last", "r_group", "r_head"} =>
       saved.root # PAGE_NONE /\ j.epoch = page[point].epoch
  /\ pc = "r_last" => search.low <= home /\ home <= search.high /\ search.at <= home
  /\ pc = "r_group" => /\ search.at = home /\ search.low <= search.high
                       /\ ~group_free(search.low)
                       /\ search.high = cpb - 1 \/ group_free(search.high + 1)
  /\ pc = "r_head" => j.root = saved.root /\ buf.cookie = saved.cookie

\* What the flash has of the last synchronization point.
OnFlash ==
  /\ DOMAIN saved = {"root", "tail", "cookie", "live"}
  /\ \A c \in Pages : is_cp(c) => c \in CpPages
  /\ saved.root = PAGE_NONE => NothingFound
  /\ saved.root # PAGE_NONE => PointFound

\* The invariant of this section: the flash leads a restart to the last
\* synchronization point, and will do so after the step under way.
FoundInv ==
  /\ OnFlash
  /\ Running /\ saved.root # PAGE_NONE => HeadFollows
  /\ FirstKept /\ SearchFollows

-----------------------------------------------------------------------------
(* Blocks and groups in order                                              *)

\* The head's way from block to block.
LEMMA StepsOn ==
  ASSUME num_blocks >= 2, NEW a \in Blocks, NEW b \in Blocks
  PROVE  LET n == next_block(b)
         IN  /\ n \in Blocks /\ steps(a, b) \in 0 .. (num_blocks - 1)
             /\ steps(a, b) = 0 <=> a = b
             /\ n # a => /\ steps(a, n) = steps(a, b) + 1
                         /\ n # 0 => (n >= a <=> b >= a)
                         /\ n = 0 => b >= a /\ ~(n >= a)
             /\ n = a => \A c \in Blocks : steps(a, c) <= steps(a, b)
             /\ \A c \in Blocks : steps(a, c) = steps(a, b) => c = b
<1>1. num_blocks \in Nat
  BY GeometryAssumption
<1> QED BY <1>1 DEF Blocks, steps, next_block

\* Pages of different blocks are ordered as the blocks are.
LEMMA BlockOrder ==
  ASSUME NEW p \in Pages, NEW q \in Pages, block_of(p) < block_of(q)
  PROVE  p < q
<1>1. /\ block_of(p) \in Blocks /\ block_of(q) \in Blocks
      /\ p < block_start(p) + ppb /\ block_start(q) <= q
      /\ p \in Nat /\ q \in Nat /\ block_start(p) \in Nat /\ block_start(q) \in Nat
      /\ ppb \in Nat
  BY BlockBounds, Sizes
<1>2. block_start(p) + ppb <= block_start(q)
  BY <1>1, BlocksApart DEF block_start
<1> QED BY <1>1, <1>2

\* The first checkpoint page of a block.
LEMMA FirstCp ==
  ASSUME NEW b \in Blocks
  PROVE  /\ first_page(b) \in UPages /\ first_page(b) \in Pages
         /\ block_of(first_page(b)) = b
         /\ first_cp(b) = cp_page(first_page(b)) /\ first_cp(b) \in CpPages
         /\ first_cp(b) \in Pages /\ block_of(first_cp(b)) = b
         /\ \A c \in CpPages : block_of(c) = b => first_cp(b) <= c
         /\ \A u \in UPages : block_of(u) = b =>
              /\ first_page(b) <= u
              /\ (u > first_cp(b) \/ cp_page(u) = first_cp(b))
<1> DEFINE f == first_page(b)
<1>1. f \in UPages /\ f \in Pages /\ block_of(f) = b
  <2>1. 0 \in 0 .. (ppb - 1) /\ f \in Nat
    BY Sizes, BlocksApart
  <2> QED BY <2>1, FirstPage, BlockPage
<1>2. /\ cp_page(f) \in CpPages /\ cp_page(f) \in Pages /\ block_of(cp_page(f)) = b
      /\ f < cp_page(f) /\ f \in Nat /\ cp_page(f) \in Nat
  BY <1>1, GroupBounds DEF Pages
<1>3. cp_page(f) = first_cp(b)
  <2>1. 0 \in 0 .. (cpb - 1) /\ 0 * ppc = 0 /\ ppc \in Nat /\ f + 0 = f
    BY GeometryAssumption, <1>2
  <2>2. cp_page(f + 0 * ppc) = f + 0 * ppc + (ppc - 1)
    BY <2>1, BlockGroup
  <2> QED BY <2>1, <2>2 DEF first_cp
<1>4. ASSUME NEW c \in CpPages, block_of(c) = b PROVE cp_page(f) <= c
  <2>1. c \in Pages /\ block_start(c) = f /\ block_start(c) <= c /\ c \in Nat /\ f # c
    BY <1>1, <1>4, CpPage, BlockBounds, GroupOrder DEF block_start
  <2> QED BY <1>1, <1>2, <2>1, GroupOrder
<1>5. ASSUME NEW u \in UPages, block_of(u) = b
      PROVE  f <= u /\ (u > cp_page(f) \/ cp_page(u) = cp_page(f))
  <2>1. u \in Pages /\ u \in Nat /\ block_start(u) <= u /\ block_start(u) = f
    BY <1>5, BlockBounds DEF UPages, block_start
  <2>2. /\ cp_page(u) \in CpPages /\ cp_page(u) \in Nat /\ block_of(cp_page(u)) = b
        /\ u # cp_page(f) /\ u < cp_page(u)
    BY <1>2, <1>5, GroupOrder, GroupBounds
  <2>3. cp_page(f) <= cp_page(u)
    BY <1>4, <2>2
  <2>4. cp_page(f) < u \/ cp_page(f) >= cp_page(u)
    BY <1>2, <2>1, <2>2, GroupOrder
  <2> QED BY <1>2, <2>1, <2>2, <2>3, <2>4
<1> QED BY <1>1, <1>2, <1>3, <1>4, <1>5

\* The checkpoint page of the synchronization point.
LEMMA PointPlace ==
  ASSUME Inv, OrderInv, saved.root # PAGE_NONE
  PROVE  /\ saved.root \in UPages /\ saved.root \in Pages /\ home \in Blocks
         /\ point = cp_page(saved.root) /\ point \in CpPages /\ point \in Pages
         /\ point \in Nat /\ block_of(point) = home /\ point - 1 = saved.root
         /\ first_cp(home) <= point /\ first_cp(home) \in Nat
<1>1. saved.root \in UPages /\ is_aligned(saved.root + 2, ppc)
  BY DEF OrderInv, FlashInv, Points, PointOK, UPagesOrNone
<1>2. /\ saved.root \in Pages /\ point = cp_page(saved.root) /\ point \in CpPages
      /\ point \in Pages /\ block_of(point) = home /\ saved.root \in Nat
  BY <1>1, GroupBounds DEF point, home, Pages, UPages
<1>3. home \in Blocks
  BY <1>2, BlockBounds DEF home
<1>4. first_cp(home) <= point /\ first_cp(home) \in Nat /\ point \in Nat
  BY <1>2, <1>3, FirstCp DEF Pages
<1> QED BY <1>1, <1>2, <1>3, <1>4 DEF point

-----------------------------------------------------------------------------
(* What a command at the head leaves on the flash                          *)

\* The commands of a call leave the synchronization point alone.
LEMMA PointSpared ==
  ASSUME Inv, OrderInv, FoundInv, TouchesHead, pc \in {"scan", "prog", "cp"},
         saved.root # PAGE_NONE
  PROVE  /\ page'[point] = page[point]
         /\ page'[first_cp(home)] = page[first_cp(home)]
         /\ page'[first_page(home)] = page[first_page(home)]
         /\ is_aligned(j.head, ppb) => block_of(j.head) # home
<1>1. /\ home \in Blocks /\ point \in CpPages /\ point \in Pages /\ point \in Nat
      /\ block_of(point) = home /\ first_cp(home) <= point /\ first_cp(home) \in Nat
  BY PointPlace
<1>2. /\ first_page(home) \in UPages /\ first_page(home) \in Pages
      /\ block_of(first_page(home)) = home /\ first_cp(home) \in CpPages
      /\ first_cp(home) \in Pages /\ block_of(first_cp(home)) = home
      /\ first_page(home) < first_cp(home) /\ first_page(home) \in Nat
  BY <1>1, FirstCp, GroupBounds DEF Pages
<1>3. /\ j.head \in UPages /\ j.head \in Pages /\ j.head \in Nat /\ Running
      /\ pc = "scan" => is_aligned(j.head, ppb)
  BY CallFacts DEF Pages
<1>4. block_of(j.head) = home => j.head > point
  BY <1>3 DEF FoundInv, HeadFollows
<1>5. is_aligned(j.head, ppb) => block_of(j.head) # home
  <2>1. is_aligned(j.head, ppb) => j.head = first_page(block_of(j.head))
    BY <1>3, AlignedBlock DEF block_start
  <2> QED BY <1>1, <1>2, <1>4, <2>1
<1>6. pc = "cp" => block_of(j.head + 1) = block_of(j.head)
  BY CheckpointPage
<1>7. ASSUME NEW q \in Pages, block_of(q) = home, q <= point PROVE page'[q] = page[q]
  <2>1. q \in Nat
    BY DEF Pages
  <2> QED BY <1>1, <1>3, <1>4, <1>5, <1>6, <1>7, <2>1 DEF TouchesHead
<1> QED BY <1>1, <1>2, <1>5, <1>7

\* They make no block usable.
LEMMA UsableShrinks ==
  ASSUME Inv, OrderInv, BlockInv, TouchesHead, pc \in {"scan", "prog", "cp"},
         marked \subseteq marked', NEW b \in Blocks, Usable(marked', page', b),
         pc = "scan" => page' = page \/ Usable(marked, page, block_of(j.head))
  PROVE  Usable(marked, page, b)
<1>1. Running /\ (pc # "scan" => Entered)
  BY CallFacts DEF Entered
<1>2. CASE b # block_of(j.head) \/ ~is_aligned(j.head, ppb) \/ page' = page
  <2>1. page'[first_page(b)] = page[first_page(b)]
    BY <1>2, FirstPageStays
  <2> QED BY <2>1 DEF Usable
<1>3. CASE b = block_of(j.head) /\ pc = "scan"
  BY <1>2, <1>3
<1>4. CASE b = block_of(j.head) /\ pc # "scan"
  BY <1>1, <1>4 DEF BlockInv, GoodHead
<1> QED BY <1>2, <1>3, <1>4

\* As long as no checkpoint is added, those on the flash stay as they should be.
LEMMA FlashStays ==
  ASSUME Inv, OrderInv, BlockInv, FoundInv, TouchesHead, pc \in {"scan", "prog", "cp"},
         marked \subseteq marked', marked' \subseteq marked \cup {block_of(j.head)},
         marked' # marked => is_aligned(j.head, ppb),
         pc = "scan" => page' = page \/ Usable(marked, page, block_of(j.head)),
         \A q \in Pages : page'[q].kind = "cp" => page'[q] = page[q],
         saved'.root = saved.root, saved'.tail = saved.tail,
         saved'.cookie = saved.cookie, DOMAIN saved' = DOMAIN saved
  PROVE  OnFlash'
<1>1. \A c \in Pages : page'[c].kind = "cp" => is_cp(c) /\ page'[c].epoch = page[c].epoch
  BY DEF is_cp
<1>2. \A c \in Pages : Usable(marked', page', block_of(c)) =>
                         Usable(marked, page, block_of(c))
  BY UsableShrinks, BlockOf
<1>3. OnFlash
  BY DEF FoundInv
<1>4. point' = point /\ home' = home
  BY DEF point, home
<1>5. CASE saved.root = PAGE_NONE
  BY <1>1, <1>2, <1>3, <1>5 DEF OnFlash, NothingFound, is_cp
<1>6. CASE saved.root # PAGE_NONE
  <2>1. /\ page'[point] = page[point]
        /\ page'[first_cp(home)] = page[first_cp(home)]
        /\ page'[first_page(home)] = page[first_page(home)]
        /\ is_aligned(j.head, ppb) => block_of(j.head) # home
    BY <1>6, PointSpared
  <2>2. Usable(marked', page', home)
    BY <1>3, <1>6, <2>1 DEF OnFlash, PointFound, Usable
  <2>3. PointFound
    BY <1>3, <1>6 DEF OnFlash
  <2>4. PointFound'
    <3>1. /\ is_cp(point)' /\ page'[point'].tail = saved'.tail
          /\ page'[point'].cookie = saved'.cookie
      BY <1>4, <2>1, <2>3 DEF PointFound, is_cp
    <3>2. is_cp(first_cp(home))' /\ Usable(marked, page, home)'
      BY <1>4, <2>1, <2>2, <2>3 DEF PointFound, is_cp
    <3>3. ASSUME NEW c \in Pages, page'[c].kind = "cp", Usable(marked', page', block_of(c))
          PROVE  /\ block_of(c) = home => c <= point
                 /\ c <= point => page'[c].epoch = page'[point].epoch
                 /\ c > point => next_epoch(page'[c].epoch) = page'[point].epoch
      BY <1>1, <1>2, <2>1, <2>3, <3>3 DEF PointFound
    <3> QED BY <1>4, <3>1, <3>2, <3>3 DEF PointFound, is_cp
  <2> QED BY <1>1, <1>3, <1>6, <2>4 DEF OnFlash, is_cp
<1> QED BY <1>5, <1>6

\* The checkpoints of the group of the head stay as the head moves on in it.
LEMMA FirstStays ==
  ASSUME Inv, OrderInv, FoundInv, TouchesHead, pc \in {"scan", "prog", "cp"},
         j'.head \in UPages,
         is_aligned(j'.head, ppb)
           \/ (/\ block_of(j'.head) = block_of(j.head)
               /\ cp_page(j'.head) = cp_page(j.head))
  PROVE  FirstKept'
<1> DEFINE b == block_of(j'.head)
<1>1. /\ j'.head \in Pages /\ j'.head \in Nat /\ b \in Blocks /\ j.head \in UPages
      /\ Running /\ j.head \in Nat /\ (pc = "scan" => is_aligned(j.head, ppb))
  BY CallFacts, BlockOf DEF UPages, Pages
<1>2. /\ first_cp(b) \in CpPages /\ first_cp(b) \in Pages /\ first_cp(b) \in Nat
      /\ first_page(b) < first_cp(b) /\ first_page(b) \in Nat
  BY <1>1, FirstCp, GroupBounds DEF Pages
<1> SUFFICES ASSUME j'.head > first_cp(b) PROVE page'[first_cp(b)].kind = "cp"
  BY DEF FirstKept, is_cp
<1>3. ~is_aligned(j'.head, ppb)
  BY <1>1, <1>2, AlignedBlock DEF block_start
<1>4. b = block_of(j.head) /\ cp_page(j'.head) = cp_page(j.head)
  BY <1>3
<1>5. j'.head < cp_page(j'.head) /\ cp_page(j'.head) \in Nat
  BY GroupBounds DEF Pages
<1>6. j.head > first_cp(b)
  BY <1>1, <1>2, <1>4, <1>5, FirstCp
<1>7. is_cp(first_cp(b))
  BY <1>1, <1>4, <1>6 DEF FoundInv, FirstKept
<1>8. ~is_aligned(j.head, ppb)
  <2>1. j.head \in Pages
    BY <1>1 DEF UPages
  <2> QED BY <1>1, <1>2, <1>4, <1>6, <2>1, AlignedBlock DEF block_start
<1>9. page'[first_cp(b)] = page[first_cp(b)]
  BY <1>1, <1>2, <1>6, <1>8 DEF TouchesHead
<1> QED BY <1>7, <1>9 DEF is_cp

\* The head stays in its block.
LEMMA HeadStays ==
  ASSUME num_blocks >= 2, Inv, Inv', OrderInv, BlockInv, FoundInv, TouchesHead,
         pc \in {"scan", "prog", "cp"},
         marked \subseteq marked', saved.root # PAGE_NONE, saved'.root = saved.root,
         pc = "scan" => page' = page \/ Usable(marked, page, block_of(j.head)),
         \A q \in Pages : page'[q].kind = "cp" => page'[q] = page[q],
         block_of(j'.head) = block_of(j.head), j.head <= j'.head,
         j'.epoch = j.epoch,
         Entered' => Entered \/ \A c \in Pages :
                       block_of(c) = block_of(j.head) => page'[c].kind # "cp"
  PROVE  HeadFollows'
<1>1. /\ home \in Blocks /\ point \in Pages /\ point \in Nat /\ j.head \in Nat
      /\ j'.head \in Nat /\ block_of(j.head) \in Blocks
      /\ point' = point /\ home' = home /\ page'[point] = page[point]
  <2>1. j'.head \in Pages
    BY DEF Inv, TypeOK, Journals, UPages
  <2> QED BY <2>1, PointPlace, PointSpared, CallFacts DEF Pages, point, home
<1>2. HeadFollows /\ Running
  BY CallFacts DEF FoundInv
<1>3. block_of(j'.head) = home => j'.head > point
  BY <1>1, <1>2 DEF HeadFollows
<1>4. \A b \in Blocks : Usable(marked', page', b) => Usable(marked, page, b)
  BY UsableShrinks
<1>5. ASSUME NEW b \in Blocks,
             0 < steps(home, b), steps(home, b) < steps(home, block_of(j'.head))
      PROVE  ~Usable(marked', page', b)
  BY <1>2, <1>4, <1>5 DEF HeadFollows
<1>6. ASSUME Entered', block_of(j'.head) # home, NEW c \in Pages,
             block_of(c) = block_of(j'.head)
      PROVE  page'[c].kind # "cp"
  <2>1. CASE Entered
    <3>1. page[c].kind # "cp"
      BY <1>2, <1>6, <2>1 DEF HeadFollows, is_cp
    <3> QED BY <3>1
  <2>2. CASE ~Entered
    BY <1>6, <2>2
  <2> QED BY <2>1, <2>2
<1>7. j'.epoch = IF block_of(j'.head) >= home THEN page'[point].epoch
                 ELSE next_epoch(page'[point].epoch)
  BY <1>1, <1>2 DEF HeadFollows
<1> QED BY <1>1, <1>3, <1>5, <1>6, <1>7 DEF HeadFollows, is_cp

\* Some block other than that of the last synchronization point can be used.
SpareBlock ==
  saved.root # PAGE_NONE => \E b \in Blocks : b # home /\ Usable(marked, page, b)

\* The head leaves a block that is not usable for the next one.
LEMMA HeadLeaves ==
  ASSUME num_blocks >= 2, Inv, OrderInv, BlockInv, FoundInv, TouchesHead,
         pc \in {"scan", "prog", "cp"},
         marked \subseteq marked', saved.root # PAGE_NONE, saved'.root = saved.root,
         pc = "scan" => page' = page \/ Usable(marked, page, block_of(j.head)),
         is_aligned(j.head, ppb), pc' \in {"idle", "scan"}, SpareBlock',
         ~Usable(marked', page', block_of(j.head)),
         j'.head = first_page(next_block(block_of(j.head))),
         j'.epoch = IF j'.head = 0 THEN next_epoch(j.epoch) ELSE j.epoch
  PROVE  HeadFollows'
<1> DEFINE h == block_of(j.head)
           n == next_block(h)
<1>1. /\ home \in Blocks /\ point \in Pages /\ point \in Nat /\ h \in Blocks
      /\ point' = point /\ home' = home /\ page'[point] = page[point] /\ h # home
      /\ HeadFollows /\ Running
  BY PointPlace, PointSpared, CallFacts DEF point, home, FoundInv
<1>2. \A b \in Blocks : Usable(marked', page', b) => Usable(marked, page, b)
  BY UsableShrinks
<1>3. /\ n \in Blocks /\ block_of(j'.head) = n /\ j'.head \in Pages
      /\ j'.head = 0 <=> n = 0
  <2>1. n \in Blocks /\ 0 \in Blocks /\ first_page(0) = 0
    BY <1>1, NextBlock, GeometryAssumption, Sizes DEF Blocks, first_page
  <2> QED BY <2>1, FirstCp, BlocksApart
<1>4. is_aligned(j'.head, ppb)
  BY <1>3, AlignedBlock DEF block_start
<1> HIDE DEF h, n
<1>5. n # home
  <2> SUFFICES ASSUME n = home PROVE FALSE
    OBVIOUS
  <2>1. \A c \in Blocks : steps(home, c) <= steps(home, h)
    BY <1>1, StepsOn DEF n
  <2>2. PICK b \in Blocks : b # home /\ Usable(marked', page', b)
    BY <1>1 DEF SpareBlock
  <2>3. b # h
    BY <2>2 DEF h
  <2>4. 0 < steps(home, b) /\ steps(home, b) < steps(home, h)
    <3>1. /\ steps(home, b) \in Nat /\ steps(home, h) \in Nat
          /\ steps(home, b) # 0 /\ steps(home, b) # steps(home, h)
      BY <1>1, <2>2, <2>3, StepsOn
    <3> QED BY <2>1, <3>1
  <2> QED BY <1>1, <1>2, <2>2, <2>4 DEF HeadFollows, h
<1>6. /\ steps(home, n) = steps(home, h) + 1
      /\ n # 0 => (n >= home <=> h >= home)
      /\ n = 0 => h >= home /\ ~(n >= home)
      /\ steps(home, h) \in Nat
  BY <1>1, <1>5, StepsOn DEF n
<1>7. ASSUME NEW b \in Blocks, 0 < steps(home, b), steps(home, b) < steps(home, n)
      PROVE  ~Usable(marked', page', b)
  <2>1. CASE b = h
    BY <2>1 DEF h
  <2>2. CASE b # h
    <3>1. steps(home, b) \in Nat /\ steps(home, b) # steps(home, h)
      BY <1>1, <2>2, StepsOn
    <3>2. steps(home, b) < steps(home, h)
      BY <1>6, <1>7, <3>1
    <3> QED BY <1>1, <1>2, <1>7, <3>2 DEF HeadFollows, h
  <2> QED BY <2>1, <2>2
<1>8. j'.epoch = IF n >= home THEN page[point].epoch ELSE next_epoch(page[point].epoch)
  <2>1. j.epoch = IF h >= home THEN page[point].epoch ELSE next_epoch(page[point].epoch)
    BY <1>1 DEF HeadFollows, h
  <2> QED BY <1>3, <1>6, <2>1
<1>9. ~Entered'
  BY <1>4 DEF Entered
<1> QED BY <1>1, <1>3, <1>5, <1>7, <1>8, <1>9 DEF HeadFollows

-----------------------------------------------------------------------------
(* The steps of a call                                                     *)

\* A step of a call that completes no checkpoint keeps the synchronization point.
LEMMA PointStays ==
  ASSUME Observe, Running, ~Crashes, ~j.recovery, OnFlash
  PROVE  /\ ~Commits => /\ saved'.root = saved.root /\ saved'.tail = saved.tail
                        /\ saved'.cookie = saved.cookie
                        /\ DOMAIN saved' = DOMAIN saved
         /\ Commits /\ ~j'.recovery => saved' = Snapshot
<1>1. saved' = IF Commits /\ ~j'.recovery THEN Snapshot
               ELSE IF j.dirty \/ j.recovery THEN saved
               ELSE [saved EXCEPT !.live = Past(@, j.tail_sync, j'.tail_sync)]
  BY Observed
<1>2. DOMAIN saved = {"root", "tail", "cookie", "live"}
  BY DEF OnFlash
<1> QED BY <1>1, <1>2

\* Moving the head to the first page of the chip begins a new epoch.
LEMMA MoveHeadEpoch ==
  ASSUME NEW k \in Journals, NEW p \in UPages
  PROVE  /\ move_head(k, p).head = p
         /\ move_head(k, p).epoch = IF p = 0 THEN next_epoch(k.epoch) ELSE k.epoch
  BY DEF move_head, roll_stats, next_epoch, Journals

\* The head and the epoch of journal b are those of a, or those after a step to the
\* next block.
NextOrSame(a, b) ==
  \/ b.head = a.head /\ b.epoch = a.epoch
  \/ /\ b.head = first_page(next_block(block_of(a.head)))
     /\ b.epoch = IF b.head = 0 THEN next_epoch(a.epoch) ELSE a.epoch

\* prepare_head leaves the head and the epoch.
LEMMA PreparedEpoch ==
  ASSUME NEW k \in Journals, NEW c, prepare_head(k, c)
  PROVE  j'.head = k.head /\ j'.epoch = k.epoch
<1>1. CASE Return(k, "JOURNAL_FULL")
  BY <1>1, ReturnError
<1>2. CASE j' = [k EXCEPT !.dirty = TRUE]
  BY <1>2 DEF Journals
<1> QED BY <1>1, <1>2 DEF prepare_head

\* A block is skipped, or the call returns where it is.
LEMMA SkipEpoch ==
  ASSUME Inv
  PROVE  /\ SkipBad => NextOrSame(j, j')
         /\ BadBlock /\ NoRecovery /\ NoRecovery' /\ can_skip(j) => NextOrSame(j, j')
<1> DEFINE sk == skip_block(counted)
<1>1. j \in Journals /\ counted \in Journals /\ counted.head = j.head
      /\ counted.epoch = j.epoch /\ counted.tail_sync = j.tail_sync
  BY CountedType DEF Inv, TypeOK, counted, Journals
<1>2. sk \in Journals /\ NextOrSame(j, sk)
  <2>1. first_page(next_block(block_of(j.head))) \in UPages
    BY <1>1, BlockBounds DEF Journals, UPages
  <2> QED BY <1>1, <2>1, SkipBlockType, MoveHeadEpoch DEF skip_block, NextOrSame
<1> HIDE DEF sk
<1>3. CASE SkipBad
  <2>1. \/ Return(counted, "JOURNAL_FULL") \/ Return(sk, "TOO_BAD") \/ j' = sk
    BY <1>3 DEF SkipBad, sk
  <2> QED BY <1>1, <1>2, <2>1, ReturnError DEF NextOrSame
<1>4. CASE BadBlock /\ NoRecovery /\ NoRecovery' /\ can_skip(j)
  <2>1. ~call.dumping /\ ~j.recovery /\ is_aligned(j.head, ppb)
    BY <1>4, FailsAtStart DEF NoRecovery
  <2>2. can_skip(counted)
    BY <1>1, <1>4 DEF can_skip
  <2>3. \/ Return(sk, "TOO_BAD")
        \/ prepare_head(sk, [call EXCEPT !.tries = @ + 1])
    BY <1>4, <2>1, <2>2 DEF BadBlock, recover_from, sk
  <2>4. j'.head = sk.head /\ j'.epoch = sk.epoch
    BY <1>2, <2>3, ReturnError, PreparedEpoch
  <2> QED BY <1>2, <2>4 DEF NextOrSame
<1> QED BY <1>3, <1>4

\* A head that is where it was has its epoch.
LEMMA SameHeadEpoch ==
  ASSUME num_blocks >= 2, j.head \in UPages, NextOrSame(j, j'), j'.head = j.head
  PROVE  j'.epoch = j.epoch
<1>1. /\ block_of(j.head) \in Blocks /\ next_block(block_of(j.head)) \in Blocks
      /\ block_of(first_page(next_block(block_of(j.head)))) = next_block(block_of(j.head))
  BY BlockBounds DEF UPages
<1>2. next_block(block_of(j.head)) # block_of(j.head)
  BY <1>1, NextBlockApart
<1> QED BY <1>1, <1>2 DEF NextOrSame

\* A step of a call that leaves the head in its block, or a block it cannot use
\* for the next one.
LEMMA WaitsFound ==
  ASSUME num_blocks >= 2, Inv, Inv', OrderInv, BlockInv, FoundInv, Observe, TouchesHead,
         pc \in {"scan", "prog", "cp"}, pc' \notin Resuming,
         ~Crashes, ~Commits, ~j.recovery, SpareBlock',
         marked \subseteq marked', marked' \subseteq marked \cup {block_of(j.head)},
         marked' # marked => is_aligned(j.head, ppb),
         pc = "scan" => page' = page \/ Usable(marked, page, block_of(j.head)),
         \A q \in Pages : page'[q].kind = "cp" => page'[q] = page[q],
         \/ /\ block_of(j'.head) = block_of(j.head) /\ j.head <= j'.head
            /\ j'.epoch = j.epoch
            /\ is_aligned(j'.head, ppb) \/ cp_page(j'.head) = cp_page(j.head)
            /\ Entered' => Entered \/ \A c \in Pages :
                  block_of(c) = block_of(j.head) => page'[c].kind # "cp"
         \/ /\ NextOrSame(j, j') /\ j'.head # j.head
            /\ is_aligned(j.head, ppb) /\ pc' \in {"idle", "scan"}
            /\ ~Usable(marked', page', block_of(j.head))
  PROVE  FoundInv'
<1>1. Running /\ j.head \in UPages /\ block_of(j.head) \in Blocks /\ j'.head \in UPages
  BY CallFacts DEF Inv, TypeOK, Journals
<1>2. /\ saved'.root = saved.root /\ saved'.tail = saved.tail
      /\ saved'.cookie = saved.cookie /\ DOMAIN saved' = DOMAIN saved
  BY <1>1, PointStays DEF FoundInv
<1>3. OnFlash'
  BY <1>2, FlashStays
<1>4. saved.root # PAGE_NONE => HeadFollows'
  BY <1>2, HeadStays, HeadLeaves DEF NextOrSame
<1>5. FirstKept'
  <2>1. first_page(next_block(block_of(j.head))) \in Pages
        /\ block_of(first_page(next_block(block_of(j.head)))) = next_block(block_of(j.head))
    BY <1>1, BlockBounds DEF UPages
  <2>2. j'.head = first_page(next_block(block_of(j.head))) => is_aligned(j'.head, ppb)
    BY <2>1, AlignedBlock DEF block_start
  <2> QED BY <1>1, <2>2, FirstStays DEF NextOrSame
<1>6. SearchFollows'
  BY DEF SearchFollows, Resuming
<1> QED BY <1>2, <1>3, <1>4, <1>5, <1>6 DEF FoundInv

\* The steps of a call that program nothing, or fail to.
LEMMA WaitFound ==
  ASSUME num_blocks >= 2, Inv, Inv', OrderInv, OrderInv', BlockInv, FoundInv, Observe,
         \/ SkipBad \/ CopyUnreadable \/ EraseOk
         \/ EraseFails \/ ProgramFails \/ CheckpointFails,
         NoRecovery, NoRecovery', fails' # fails => can_skip(j), SpareBlock'
  PROVE  FoundInv'
<1>1. TouchesHead /\ pc \in {"scan", "prog", "cp"}
  BY CommandTouches
<1>2. /\ j \in Journals /\ j.head \in UPages /\ j.head \in Pages /\ block_of(j.head) \in Blocks
      /\ j.head \in Nat /\ page \in [Pages -> Contents]
      /\ (pc = "scan" => is_aligned(j.head, ppb)) /\ Running
  BY <1>1, CallFacts DEF Pages
<1>3. ~j.recovery /\ ~j'.recovery /\ ~call.dumping /\ ~call'.dumping /\ ~Crashes
  BY DEF NoRecovery, Crashes, SkipBad, CopyUnreadable, EraseOk, EraseFails, ProgramFails,
         CheckpointFails, BadBlock
<1>4. /\ first_page(block_of(j.head)) \in Pages
      /\ is_aligned(j.head, ppb) <=> j.head = first_page(block_of(j.head))
  BY <1>2, FirstCp, AlignedBlock DEF block_start
<1>5. pc' \notin Resuming
  <2>1. SkipBad \/ BadBlock => Retreats
    BY <1>1, SkipBadRetreats, BadBlockRetreats, CallFacts
  <2> QED BY <1>1, <2>1, ReturnError
          DEF Retreats, CopyUnreadable, EraseOk, EraseFails, ProgramFails,
              CheckpointFails, Resuming
<1>6. CASE SkipBad
  <2>1. /\ page' = page /\ marked' = marked /\ pc = "scan" /\ NextOrSame(j, j')
        /\ ~Usable(marked, page, block_of(j.head)) /\ pc' \in {"idle", "scan"}
    BY <1>2, <1>6, SkipEpoch, UsableIsGood DEF SkipBad, Return
  <2>2. ~Entered' \/ j'.head # j.head
    BY <1>2, <2>1 DEF Entered
  <2>3. ~Commits
    BY <2>1 DEF Commits
  <2>4. CASE j'.head # j.head
    BY <1>1, <1>2, <1>3, <1>5, <2>1, <2>3, <2>4, WaitsFound
  <2>5. CASE j'.head = j.head
    <3>1. j'.epoch = j.epoch
      BY <1>2, <2>1, <2>5, SameHeadEpoch
    <3> QED BY <1>1, <1>2, <1>3, <1>5, <2>1, <2>2, <2>3, <2>5, <3>1, WaitsFound
  <2> QED BY <2>4, <2>5
<1>7. CASE CopyUnreadable
  <2>1. j' = j /\ pc' = "idle" /\ pc = "prog" /\ page' = page /\ marked' = marked
    BY <1>7, ReturnError DEF CopyUnreadable
  <2>2. Entered /\ ~Commits
    BY <1>2, <2>1 DEF Entered, Commits
  <2> QED BY <1>1, <1>2, <1>3, <1>5, <2>1, <2>2, WaitsFound
<1>8. CASE EraseOk
  <2>1. /\ j' = j /\ pc = "scan" /\ marked' = marked
        /\ page' = erase_done(block_of(j.head))
        /\ Usable(marked, page, block_of(j.head))
    BY <1>2, <1>8, UsableIsGood DEF EraseOk, erasing
  <2>2. /\ \A q \in Pages : page'[q].kind = "cp" => page'[q] = page[q]
        /\ \A c \in Pages : block_of(c) = block_of(j.head) => page'[c].kind # "cp"
    BY <2>1 DEF erase_done, Erased
  <2>3. ~Commits
    BY <2>1 DEF Commits
  <2> QED BY <1>1, <1>2, <1>3, <1>5, <2>1, <2>2, <2>3, WaitsFound
<1>9. CASE EraseFails \/ ProgramFails \/ CheckpointFails
  <2>1. BadBlock /\ fails' # fails
    BY <1>9 DEF EraseFails, ProgramFails, CheckpointFails, BadBlock, Inv, TypeOK
  <2>2. is_aligned(j.head, ppb) /\ is_aligned(j'.head, ppb) /\ NextOrSame(j, j')
    BY <1>3, <2>1, FailsAtStart, SkipEpoch
  <2>3. pc' \in {"idle", "scan"} /\ ~Commits
    <3>1. Retreats
      BY <2>1, BadBlockRetreats
    <3> QED BY <1>1, <3>1, RetreatRing DEF Commits
  <2>4. /\ marked \subseteq marked' /\ marked' \subseteq marked \cup {block_of(j.head)}
    <3>1. FailureMarks
      BY <1>3, <2>1, BadBlockMarks
    <3>2. marked \subseteq marked'
      BY <1>3, <2>1 DEF BadBlock, recover_from, mark_bad
    <3> QED BY <3>1, <3>2 DEF FailureMarks
  <2>5. pc # "cp"
    <3>1. \/ /\ j.head + 1 = cp_page(j.head) /\ cp_page(j.head) = j.head + (ppc - 1)
             /\ ppc \in Nat /\ ppc >= 4
          \/ pc # "cp"
      BY <1>2, <1>4, <2>2, CheckpointPage, FirstCp, Sizes DEF first_cp
    <3> QED BY <1>2, <3>1
  <2>6. /\ \A q \in Pages : page'[q].kind = "cp" => page'[q] = page[q]
        /\ page'[first_page(block_of(j.head))].kind = "torn"
        /\ pc = "scan" => Usable(marked, page, block_of(j.head))
    <3>1. CASE EraseFails
      BY <1>2, <1>4, <3>1, UsableIsGood, FirstCp DEF EraseFails, erasing, erase_torn, Torn
    <3>2. CASE ProgramFails
      BY <1>2, <1>4, <2>2, <3>2 DEF ProgramFails, program_torn, Torn
    <3> QED BY <1>9, <2>5, <3>1, <3>2 DEF CheckpointFails
  <2>7. ~Usable(marked', page', block_of(j.head))
    BY <2>6 DEF Usable
  <2>8. ~Entered'
    BY <2>2, <2>3 DEF Entered
  <2>9. marked' # marked => is_aligned(j.head, ppb)
    BY <2>2
  <2>10. CASE j'.head # j.head
    BY <1>1, <1>2, <1>3, <1>5, <2>2, <2>3, <2>4, <2>6, <2>7, <2>9, <2>10, WaitsFound
  <2>11. CASE j'.head = j.head
    <3>1. j'.epoch = j.epoch
      BY <1>2, <2>2, <2>11, SameHeadEpoch
    <3> QED BY <1>1, <1>2, <1>3, <1>5, <2>2, <2>3, <2>4, <2>6, <2>8, <2>9, <2>11, <3>1,
               WaitsFound
  <2> QED BY <2>10, <2>11
<1> QED BY <1>6, <1>7, <1>8, <1>9

\* A call that returns leaves the head and the epoch as they are in its journal.
LEMMA ReturnEpoch ==
  ASSUME NEW k \in Journals, NEW err, Return(k, err)
  PROVE  j'.head = k.head /\ j'.epoch = k.epoch
<1>1. j' = k \/ j' = dequeue(k)
  BY DEF Return
<1>2. dequeue(k).head = k.head /\ dequeue(k).epoch = k.epoch
  BY DEF dequeue, Journals
<1> QED BY <1>1, <1>2

\* An enqueue or a copy programs no checkpoint.
LEMMA PushesNoCp ==
  ASSUME Inv, OrderInv, OnFlash, ProgramOk, ~call.dumping
  PROVE  \A q \in Pages : page'[q].kind = "cp" => page'[q] = page[q]
<1>1. pc = "prog" /\ page \in [Pages -> Contents] /\ j.head \in Pages
  BY CallFacts DEF ProgramOk, Pages, UPages
<1>2. CASE page' = page
  BY <1>2
<1>3. CASE programs /\ \E c \in contents : page' \in programmed(j.head, c)
  <2>1. PICK c \in contents : page' \in programmed(j.head, c)
    BY <1>3
  <2>2. c.kind # "cp"
    <3>1. CASE c \in UserPages
      BY <3>1 DEF UserPages
    <3>2. CASE call.op = "copy" /\ c = page[call.src]
      <4>1. readable(call.src)
        BY <3>2 DEF ProgramOk, source_readable
      <4>2. call.src \in UPages
        <5>1. call.src \in UPages \cup {PAGE_NONE, align_down(PAGE_NONE, ppb)}
          BY DEF Inv, TypeOK, CallRecords, RecoverPages, UPagesOrNone
        <5>2. PAGE_NONE \notin Pages /\ align_down(PAGE_NONE, ppb) \notin Pages
          BY PageNone, Sizes DEF Pages
        <5> QED BY <4>1, <5>1, <5>2 DEF readable
      <4> QED BY <3>2, <4>1, <4>2, GroupOrder DEF OnFlash, is_cp, readable
    <3> QED BY <2>1, <3>1, <3>2 DEF contents
  <2>3. page' = [page EXCEPT ![j.head] = c] \/ page' = [page EXCEPT ![j.head] = Torn]
    BY <2>1 DEF programmed
  <2> QED BY <1>1, <2>2, <2>3 DEF Torn
<1> QED BY <1>2, <1>3 DEF ProgramOk

\* The user page of an enqueue or copy is on the flash.
LEMMA PushMetaFound ==
  ASSUME num_blocks >= 2, Inv, Inv', OrderInv, BlockInv, FoundInv, Observe, PushMeta,
         NoRecovery, NoRecovery', SpareBlock'
  PROVE  FoundInv'
<1>1. /\ TouchesHead /\ pc = "prog" /\ ProgramOk /\ ~call.dumping /\ marked' = marked
      /\ Running /\ ~Crashes /\ ~Commits /\ ~j.recovery
  BY CommandTouches DEF PushMeta, ProgramOk, Running, Resuming, Crashes, Commits, NoRecovery
<1>2. j \in Journals /\ j.head \in UPages /\ j.head \in Nat
  BY <1>1, CallFacts DEF UPages, Pages
<1>3. \A q \in Pages : page'[q].kind = "cp" => page'[q] = page[q]
  BY <1>1, PushesNoCp DEF FoundInv
<1>4. /\ pc' \in {"cp", "idle"} /\ j'.epoch = j.epoch /\ j.head <= j'.head
      /\ cp_page(j'.head) = cp_page(j.head) /\ block_of(j'.head) = block_of(j.head)
  <2>1. CASE pc' = "cp" /\ j' = j
    BY <1>2, <2>1
  <2>2. CASE /\ ~is_aligned(j.head + 2, ppc)
             /\ Return([j EXCEPT !.root = j.head, !.head = j.head + 1], "OK")
    <3>1. /\ j.head + 1 \in UPages /\ cp_page(j.head + 1) = cp_page(j.head)
          /\ block_of(j.head + 1) = block_of(j.head)
      BY <1>2, <2>2, NextOffset
    <3> DEFINE k == [j EXCEPT !.root = j.head, !.head = j.head + 1]
    <3>2. k \in Journals /\ k.head = j.head + 1 /\ k.epoch = j.epoch
      BY <1>2, <3>1 DEF Journals, UPagesOrNone
    <3>3. Return(k, "OK")
      BY <2>2
    <3> HIDE DEF k
    <3>4. pc' = "idle" /\ j'.head = j.head + 1 /\ j'.epoch = j.epoch
      BY <3>2, <3>3, ReturnEpoch DEF Return
    <3> QED BY <1>2, <3>1, <3>4
  <2> QED BY <2>1, <2>2 DEF PushMeta
<1>5. Entered
  BY <1>1 DEF Entered
<1>6. pc' \notin Resuming
  BY <1>4 DEF Resuming
<1> QED BY <1>1, <1>3, <1>4, <1>5, <1>6, WaitsFound

\* A checkpoint completes the call: its group's last user page becomes the root.
LEMMA CheckpointCommits ==
  ASSUME num_blocks >= 2, Inv, OrderInv, Checkpoint
  PROVE  Commits /\ pc' = "idle" /\ j'.head = next_upage(j.head)
<1> DEFINE h == j.head
           ts == j.tail_sync
           t == j.tail
           u == j'.tail
           n == next_upage(j.head)
<1>1. pc = "cp" /\ pc \in {"scan", "prog", "cp"}
  BY DEF Checkpoint
<1>2. /\ j \in Journals /\ h \in UPages /\ h \in Pages /\ ts \in Pages
      /\ t \in Pages /\ t \in UPages /\ RingOK(j, call.dumping)
  BY <1>1, CallFacts
<1>3. PICK k \in Journals :
        /\ Return(k, "OK") /\ k.head = n /\ k.root = h /\ k.tail = t
        /\ Onward(ts, h, k.head) /\ k.head # h
  BY CheckpointReturns
<1>4. /\ j' \in Journals /\ j'.head = n /\ pc' = "idle"
      /\ Upto(u, h, n) => j'.root = h
      /\ u = t \/ (call.dequeue /\ u = next_upage(t))
  BY <1>3, ReturnOk DEF TailAdvances
<1>5. n \in Pages /\ u \in Pages
  BY <1>4 DEF Journals, UPages
<1> HIDE DEF h, ts, t, u, n
<1>6. Upto(ts, t, h) /\ Before(ts, h, n)
  BY <1>2, <1>3, OrderTrans DEF Onward, RingOK, h, ts, t
<1>7. Before(t, h, n)
  BY <1>2, <1>5, <1>6, TailMoves
<1>8. Upto(t, u, h)
  <2>1. CASE u = t
    BY <2>1, <1>2, OrderTrans
  <2>2. CASE call.dequeue /\ u = next_upage(t)
    <3>1. t # h
      BY <2>2 DEF OrderInv, PlaceInv, t, h
    <3> QED BY <2>2, <3>1, <1>2, <1>6, NextUser DEF h
  <2> QED BY <2>1, <2>2, <1>4
<1>9. Before(u, h, n)
  BY <1>2, <1>5, <1>7, <1>8, TailMoves
<1>10. j'.root = h
  BY <1>2, <1>4, <1>5, <1>9, OrderTrans
<1> QED BY <1>1, <1>4, <1>10 DEF Accepts, Commits, h, n

\* The checkpoints on the flash are those before the head, of its epoch, and
\* those of the epoch before.
LEMMA EpochOrder ==
  ASSUME num_blocks >= 2, Inv, OrderInv, FoundInv, Entered,
         Usable(marked, page, block_of(j.head)),
         NEW q \in Pages, is_cp(q), Usable(marked, page, block_of(q)), q # cp_page(j.head)
  PROVE  /\ block_of(q) = block_of(j.head) => q < j.head
         /\ q < j.head => page[q].epoch = j.epoch
         /\ q > j.head => next_epoch(page[q].epoch) = j.epoch
<1> DEFINE h == j.head
           b == block_of(h)
           x == block_of(q)
           e == page[point].epoch
<1>1. Running /\ OnFlash
  BY DEF Entered, FoundInv
<1>2. /\ h \in UPages /\ h \in Pages /\ h \in Nat /\ b \in Blocks /\ b \in Int /\ x \in Int
      /\ q \in CpPages /\ q \in Nat /\ x \in Blocks /\ Ahead(page, h)
  <2>1. h \in UPages /\ h \in Pages
    BY DEF Inv, TypeOK, Journals, UPages
  <2> QED BY <1>1, <2>1, BlockOf
    DEF OrderInv, HeadInv, Fresh, OnFlash, Pages, Blocks
<1>3. /\ q # h /\ (q > h => q > cp_page(h))
  BY <1>2, GroupOrder, GroupBounds, GroupsApart
<1>4. x = b => q < h
  BY <1>2, <1>3 DEF Ahead, is_erased, is_cp
<1>5. saved.root # PAGE_NONE
  BY <1>1 DEF OnFlash, NothingFound
<1>6. /\ home \in Blocks /\ point \in Pages /\ point \in Nat /\ home \in Int
      /\ block_of(point) = home
  BY <1>5, PointPlace DEF Blocks
<1>7. /\ x = home => q <= point
      /\ q <= point => page[q].epoch = e
      /\ q > point => next_epoch(page[q].epoch) = e
  BY <1>1, <1>5 DEF OnFlash, PointFound
<1>8. /\ b = home => h > point
      /\ ~(0 < steps(home, x) /\ steps(home, x) < steps(home, b))
      /\ b # home => x # b
      /\ j.epoch = IF b >= home THEN e ELSE next_epoch(e)
  BY <1>1, <1>2, <1>5 DEF FoundInv, HeadFollows
<1>9. /\ x < b => q < h
      /\ x > b => q > h
      /\ x < home => q < point
      /\ x > home => q > point
  BY <1>2, <1>6, BlockOrder DEF Pages
<1>10. x \in 0 .. (num_blocks - 1) /\ b \in 0 .. (num_blocks - 1)
       /\ home \in 0 .. (num_blocks - 1) /\ num_blocks \in Nat
  BY <1>2, <1>6, GeometryAssumption DEF Blocks
<1> HIDE DEF b, x, e, h
<1>11. CASE b = home
  <2>1. j.epoch = e
    BY <1>8, <1>10, <1>11
  <2>2. q < h => q <= point
    BY <1>2, <1>4, <1>6, <1>7, <1>8, <1>9, <1>10, <1>11
  <2> QED BY <1>2, <1>3, <1>4, <1>6, <1>7, <1>8, <1>11, <2>1, <2>2 DEF h, b, x
<1>12. CASE b > home
  <2>1. j.epoch = e
    BY <1>8, <1>10, <1>12
  <2>2. x # b /\ (x > home => x > b)
    BY <1>8, <1>10, <1>12 DEF steps
  <2> QED BY <1>2, <1>3, <1>4, <1>6, <1>7, <1>9, <1>10, <1>12, <2>1, <2>2 DEF h, b, x
<1>13. CASE b < home
  <2>1. j.epoch = next_epoch(e)
    BY <1>8, <1>10, <1>13
  <2>2. b < x /\ x <= home
    BY <1>8, <1>10, <1>13 DEF steps
  <2> QED BY <1>2, <1>3, <1>4, <1>6, <1>7, <1>9, <1>10, <1>13, <2>1, <2>2 DEF h, b, x
<1> QED BY <1>10, <1>11, <1>12, <1>13

\* A head at the start of the block behind that of the synchronization point.
LEMMA HeadBehindPoint ==
  ASSUME num_blocks >= 2, home' \in Blocks, pc' = "idle",
         j'.head = first_page(next_block(home')),
         j'.epoch = IF j'.head = 0 THEN next_epoch(page'[point'].epoch)
                                   ELSE page'[point'].epoch
  PROVE  HeadFollows' /\ FirstKept'
<1> DEFINE b == home'
           n == next_block(b)
<1>1. b \in Blocks /\ n \in Blocks /\ n # b
  BY NextBlock, NextBlockApart
<1>2. /\ first_page(n) \in Pages /\ first_page(n) \in UPages /\ block_of(first_page(n)) = n
      /\ first_page(n) < first_cp(n) /\ first_page(n) \in Nat /\ first_cp(n) \in Nat
      /\ (first_page(n) = 0 <=> n = 0)
  <2>1. /\ first_page(n) \in Pages /\ first_page(n) \in UPages
        /\ block_of(first_page(n)) = n
        /\ first_page(n) < first_cp(n) /\ first_page(n) \in Nat /\ first_cp(n) \in Nat
    BY <1>1, FirstCp, GroupBounds DEF Pages
  <2>2. first_page(n) = 0 <=> n = 0
    BY <1>1, BlocksApart, GeometryAssumption, Sizes DEF Blocks, first_page
  <2> QED BY <2>1, <2>2
<1>3. is_aligned(first_page(n), ppb)
  BY <1>2, AlignedBlock DEF block_start
<1>4. n >= b <=> n # 0
  <2>1. b \in 0 .. (num_blocks - 1) /\ num_blocks \in Nat /\ n # b
    BY <1>1, GeometryAssumption DEF Blocks
  <2>2. n = IF b + 1 >= num_blocks THEN 0 ELSE b + 1
    BY DEF next_block
  <2> HIDE DEF b, n
  <2> QED BY <2>1, <2>2
<1>5. \A y \in Blocks : ~(0 < steps(b, y) /\ steps(b, y) < steps(b, n))
  <2>1. steps(b, b) = 0 /\ steps(b, n) = steps(b, b) + 1
    BY <1>1, StepsOn
  <2>2. \A y \in Blocks : steps(b, y) \in Nat
    BY <1>1, StepsOn
  <2> QED BY <2>1, <2>2
<1> HIDE DEF b, n
<1>6. j'.head = first_page(n) /\ home' = b /\ block_of(j'.head) = n
  BY <1>2 DEF b, n
<1>7. ~Entered'
  BY <1>3, <1>6 DEF Entered
<1>8. j'.epoch = IF n >= b THEN page'[point'].epoch ELSE next_epoch(page'[point'].epoch)
  BY <1>2, <1>4, <1>6
<1>9. HeadFollows'
  BY <1>1, <1>5, <1>6, <1>7, <1>8 DEF HeadFollows
<1>10. FirstKept'
  BY <1>2, <1>6 DEF FirstKept
<1> QED BY <1>9, <1>10

\* A checkpoint is the new synchronization point.
LEMMA CheckpointFound ==
  ASSUME num_blocks >= 2, Inv, Inv', OrderInv, OwedInv, BlockInv, BlankInv, FoundInv,
         Observe, Checkpoint, NoRecovery, NoRecovery'
  PROVE  FoundInv'
<1> DEFINE h == j.head
           b == block_of(h)
           c == h + 1
           n == next_upage(h)
<1>1. /\ pc = "cp" /\ page' \in programmed(c, checkpoint) /\ Running /\ ~Crashes
      /\ ~j.recovery /\ ~j'.recovery /\ Entered /\ OnFlash
  BY DEF Checkpoint, Running, Resuming, Crashes, NoRecovery, Entered, FoundInv
<1>2. /\ j \in Journals /\ h \in UPages /\ h \in Pages /\ h \in Nat /\ b \in Blocks
      /\ page \in [Pages -> Contents]
  BY <1>1, CallFacts, BlockOf DEF Pages
<1>3. /\ c = cp_page(h) /\ c \in Pages /\ c \in CpPages /\ block_of(c) = b /\ c \in Nat
  BY <1>1, <1>2, CheckpointPage, GroupBounds DEF Pages
<1>4. page' = [page EXCEPT ![c] = checkpoint]
  BY <1>1, CheckpointBlank DEF programmed, is_erased
<1>5. Commits /\ pc' = "idle" /\ j'.head = n
  BY CheckpointCommits
<1>6. saved' = Snapshot
  BY <1>1, <1>5, PointStays
<1>7. /\ saved'.root = h /\ saved'.tail = j.tail /\ saved'.cookie = buf.cookie
      /\ DOMAIN saved' = {"root", "tail", "cookie", "live"}
      /\ saved'.root # PAGE_NONE /\ point' = c /\ home' = b
  BY <1>2, <1>6, PageNone DEF Snapshot, point, home
<1>8. marked' = marked
  <2>1. ~j.enum_done
    BY <1>1 DEF Inv, RecoveryState, RecoveryFields
  <2> QED BY <2>1 DEF Checkpoint
<1>9. Usable(marked', page', b) /\ Usable(marked, page, b)
  BY <1>1, CheckpointUsable DEF BlockInv, GoodHead
<1>10. \A q \in Pages : q # c => page'[q] = page[q]
  BY <1>2, <1>4
<1>11. page'[c] = checkpoint
  BY <1>2, <1>3, <1>4
<1>12. /\ page'[c].kind = "cp" /\ page'[c].tail = j.tail /\ page'[c].cookie = buf.cookie
       /\ page'[c].epoch = j.epoch
  BY <1>11 DEF checkpoint
<1>13. page'[first_cp(b)].kind = "cp"
  <2>1. first_cp(b) \in Pages /\ (h > first_cp(b) \/ c = first_cp(b))
    BY <1>2, <1>3, FirstCp
  <2>2. CASE h > first_cp(b)
    <3>1. is_cp(first_cp(b))
      BY <1>1, <2>2 DEF FoundInv, FirstKept
    <3> QED BY <1>10, <1>12, <2>1, <3>1 DEF is_cp
  <2> QED BY <1>12, <2>1, <2>2
<1>14. ASSUME NEW q \in Pages, page'[q].kind = "cp", Usable(marked', page', block_of(q)),
              q # c
       PROVE  /\ block_of(q) = b => q < h
              /\ q < h => page'[q].epoch = j.epoch
              /\ q > h => next_epoch(page'[q].epoch) = j.epoch
  <2>1. page'[q] = page[q] /\ block_of(q) \in Blocks
    BY <1>10, <1>14, BlockOf
  <2>2. first_page(block_of(q)) \in Pages /\ first_page(block_of(q)) # c
    BY <1>3, <2>1, FirstCp, GroupOrder
  <2>3. Usable(marked, page, block_of(q))
    BY <1>8, <1>10, <1>14, <2>2 DEF Usable
  <2> QED BY <1>1, <1>3, <1>9, <1>14, <2>1, <2>3, EpochOrder DEF is_cp
<1>15. \A q \in Pages : page'[q].kind = "cp" => q \in CpPages
  BY <1>1, <1>3, <1>10 DEF OnFlash, is_cp
<1>16. PointFound'
  <2>1. ASSUME NEW q \in Pages, page'[q].kind = "cp", Usable(marked', page', block_of(q))
        PROVE  /\ block_of(q) = b => q <= c
               /\ q <= c => page'[q].epoch = j.epoch
               /\ q > c => next_epoch(page'[q].epoch) = j.epoch
    <3>1. q \in Nat /\ q # h
      BY <1>2, <1>15, <2>1, GroupOrder DEF Pages
    <3> HIDE DEF b
    <3>2. CASE q = c
      BY <1>3, <1>12, <3>2
    <3>3. CASE q # c
      <4>1. /\ block_of(q) = b => q < h
            /\ q < h => page'[q].epoch = j.epoch
            /\ q > h => next_epoch(page'[q].epoch) = j.epoch
        BY <1>14, <2>1, <3>3
      <4> QED BY <1>2, <3>1, <3>3, <4>1
    <3> QED BY <3>2, <3>3
  <2> HIDE DEF b, c
  <2>2. page'[point'] = page'[c] /\ first_cp(home') = first_cp(b)
    BY <1>7
  <2> QED BY <1>7, <1>9, <1>12, <1>13, <2>1, <2>2 DEF PointFound, is_cp
<1>17. OnFlash'
  BY <1>7, <1>15, <1>16 DEF OnFlash, is_cp
<1>18. j'.epoch = IF n = 0 THEN next_epoch(j.epoch) ELSE j.epoch
  <2> DEFINE d == [j EXCEPT !.dirty = FALSE, !.root = h]
             a == move_head(d, n)
             k == [a EXCEPT !.tail_sync = IF a.recovery THEN @ ELSE a.tail]
  <2>1. ~j.enum_done
    BY <1>1 DEF Inv, RecoveryState, RecoveryFields
  <2>2. Return(k, "OK")
    BY <2>1 DEF Checkpoint
  <2>3. d \in Journals /\ d.epoch = j.epoch /\ n \in UPages
    BY <1>2, NextUPage DEF Journals, UPagesOrNone
  <2> HIDE DEF d, n
  <2>4. a \in Journals /\ a.epoch = IF n = 0 THEN next_epoch(j.epoch) ELSE j.epoch
    BY <2>3, MoveHeadType, MoveHeadEpoch
  <2> HIDE DEF a
  <2>5. k \in Journals /\ k.epoch = a.epoch
    BY <2>4 DEF Journals
  <2> HIDE DEF k
  <2> QED BY <2>2, <2>4, <2>5, ReturnEpoch
<1>19. \/ n > c /\ block_of(n) = b /\ n \in Nat
       \/ n = first_page(next_block(b))
  <2>1. n \in UPages /\ n \in Nat
    BY <1>2, NextUPage DEF UPages, Pages
  <2>2. n # c
    BY <1>3, <2>1, GroupOrder
  <2> QED BY <1>2, <2>1, <2>2, NextInBlock
<1> HIDE DEF h, b, c, n
<1>20. HeadFollows' /\ FirstKept'
  <2>1. CASE n > c /\ block_of(n) = b /\ n \in Nat
    <3>1. n # 0 /\ b >= b
      BY <1>2, <1>3, <2>1 DEF Blocks
    <3>2. j'.epoch = page'[c].epoch
      BY <1>12, <1>18, <3>1
    <3>3. \A y \in Blocks : ~(0 < steps(b, y) /\ steps(b, y) < steps(b, b))
      BY <1>2, StepsOn
    <3> QED BY <1>5, <1>7, <1>13, <2>1, <3>1, <3>2, <3>3
            DEF HeadFollows, FirstKept, is_cp
  <2>2. CASE n = first_page(next_block(b))
    <3>1. j'.epoch = IF j'.head = 0 THEN next_epoch(page'[c].epoch) ELSE page'[c].epoch
      BY <1>5, <1>12, <1>18
    <3> QED BY <1>2, <1>5, <1>7, <2>2, <3>1, HeadBehindPoint
  <2> QED BY <1>19, <2>1, <2>2
<1>21. SearchFollows'
  BY <1>5 DEF SearchFollows
<1> QED BY <1>17, <1>20, <1>21 DEF FoundInv

-----------------------------------------------------------------------------
(* Calls of the client and power failures                                  *)

\* A call of the client begins in the epoch of the journal.
LEMMA IdleEpoch ==
  ASSUME Inv, ClientStep
  PROVE  j'.epoch = j.epoch
<1>1. j \in Journals
  BY DEF Inv, TypeOK
<1>2. ASSUME NEW k \in Journals, k.epoch = j.epoch,
             NEW op, NEW src, NEW m, NEW deq, Begin(k, op, src, m, deq)
      PROVE  j'.epoch = j.epoch
  <2>1. PICK c : prepare_head(k, c)
    BY <1>2 DEF Begin
  <2> QED BY <1>2, <2>1, PreparedEpoch
<1>3. CASE Enqueue \/ Copy
  BY <1>1, <1>2, <1>3 DEF Enqueue, Copy
<1>4. CASE Pad
  BY <1>1, <1>2, <1>4 DEF Pad, pad_queue
<1>5. CASE Gc
  <2>1. PICK t \in UPages, r \in {j.root, PAGE_NONE} :
          LET k == [j EXCEPT !.tail = t, !.root = r]
          IN  \/ j' = k
              \/ j' = dequeue(k)
              \/ \E m \in Meta : Begin(k, "copy", t, m, TRUE)
    BY <1>5 DEF Gc
  <2> DEFINE k == [j EXCEPT !.tail = t, !.root = r]
  <2>2. k \in Journals /\ k.epoch = j.epoch
    BY <1>1 DEF Journals, UPagesOrNone
  <2>3. j' = k \/ j' = dequeue(k) \/ \E m \in Meta : Begin(k, "copy", t, m, TRUE)
    BY <2>1
  <2> HIDE DEF k
  <2>4. dequeue(k).epoch = k.epoch
    BY <2>2 DEF dequeue, Journals
  <2> QED BY <1>2, <2>2, <2>3, <2>4
<1>6. CASE Clear
  BY <1>1, <1>6 DEF Clear, Journals
<1> QED BY <1>3, <1>4, <1>5, <1>6 DEF ClientStep

\* A call of the client begins, or drops pages from the queue.
LEMMA IdleFound ==
  ASSUME Inv, OrderInv, FoundInv, Observe, ClientStep \/ Recover, NoRecovery, NoRecovery'
  PROVE  FoundInv'
<1>1. /\ pc = "idle" /\ pc' \in {"idle", "scan", "prog"} /\ j'.head = j.head
      /\ pc' = "prog" => ~is_aligned(j'.head, ppb)
      /\ page' = page /\ marked' = marked /\ crashes' = crashes
  BY IdleStep DEF TailAdvances
<1>2. /\ Running /\ Running' /\ ~Crashes /\ ~Commits /\ ~j.recovery
  BY <1>1 DEF Running, Resuming, Crashes, Commits, NoRecovery
<1>3. ClientStep
  BY <1>2 DEF Recover, Inv, RecoveryState
<1>4. j'.epoch = j.epoch
  BY <1>3, IdleEpoch
<1>5. /\ saved'.root = saved.root /\ saved'.tail = saved.tail
      /\ saved'.cookie = saved.cookie /\ DOMAIN saved' = DOMAIN saved
  BY <1>2, PointStays DEF FoundInv
<1>6. Entered' => Entered
  BY <1>1 DEF Entered, Running, Resuming
<1>7. point' = point /\ home' = home
  BY <1>5 DEF point, home
<1>8. OnFlash'
  BY <1>1, <1>5, <1>7 DEF FoundInv, OnFlash, NothingFound, PointFound, is_cp
<1>9. saved.root # PAGE_NONE => HeadFollows'
  BY <1>1, <1>2, <1>4, <1>5, <1>6, <1>7 DEF FoundInv, HeadFollows, is_cp
<1>10. FirstKept'
  BY <1>1, <1>2 DEF FoundInv, FirstKept, is_cp
<1>11. SearchFollows'
  BY <1>1 DEF SearchFollows
<1> QED BY <1>5, <1>8, <1>9, <1>10, <1>11 DEF FoundInv

\* Power fails: the checkpoints on the flash stay, and none is added.
LEMMA CrashFound ==
  ASSUME Inv, OrderInv, BlockInv, FoundInv, Observe, Crash
  PROVE  FoundInv'
<1>1. /\ Crashes /\ page' \in {page} \cup torn_pages /\ pc' = "resume" /\ marked' = marked
  BY DEF Crash, Crashes, Inv, TypeOK
<1>2. saved' = saved
  <2>1. ~Resumes
    BY <1>1 DEF Resumes
  <2> QED BY <1>1, <2>1 DEF Observe
<1>3. point' = point /\ home' = home /\ OnFlash
  BY <1>2 DEF point, home, FoundInv
<1>4. OnFlash'
  <2>1. CASE page' = page
    BY <1>1, <1>2, <1>3, <2>1 DEF FoundInv, OnFlash, NothingFound, PointFound, is_cp
  <2>2. CASE page' \in torn_pages
    <3>1. /\ TouchesHead /\ pc \in {"scan", "prog", "cp"}
          /\ \A q \in Pages : page'[q].kind = "cp" => page'[q] = page[q]
          /\ pc = "scan" => Usable(marked, page, block_of(j.head))
      <4>1. CASE erasing /\ page' = erase_torn(block_of(j.head))
        BY <4>1, CallFacts, UsableIsGood DEF erasing, erase_torn, TouchesHead, Torn
      <4>2. CASE pc = "prog" /\ page' = program_torn(j.head)
        <5>1. page \in [Pages -> Contents]
          BY DEF Inv, TypeOK
        <5> QED BY <4>2, <5>1 DEF program_torn, TouchesHead, Torn
      <4>3. CASE pc = "cp" /\ page' = program_torn(j.head + 1)
        <5>1. page \in [Pages -> Contents]
          BY DEF Inv, TypeOK
        <5> QED BY <4>3, <5>1 DEF program_torn, TouchesHead, Torn
      <4> QED BY <2>2, <4>1, <4>2, <4>3 DEF torn_pages, erasing
    <3> QED BY <1>1, <1>2, <3>1, FlashStays
  <2> QED BY <1>1, <2>1, <2>2
<1>5. ~Running' /\ FirstKept' /\ SearchFollows'
  BY <1>1 DEF Running, Resuming, FirstKept, SearchFollows
<1> QED BY <1>4, <1>5 DEF FoundInv

-----------------------------------------------------------------------------
(* The restart                                                             *)

\* In every run of blocks that a search of find_checkblock looks at there is one
\* with a checkpoint, as far as the block of the synchronization point.
GapsAreShort ==
  pc \in Resuming /\ saved.root # PAGE_NONE =>
    \A a \in 0 .. home : \E b \in Blocks : find_checkblock(a, b)

\* A restart has come back to the synchronization point.
ComesBack ==
  /\ j'.root = saved.root
  /\ saved.root # PAGE_NONE => buf'.cookie = saved.cookie
  /\ DOMAIN saved.live \subseteq queue(j'.tail, j'.head)
  /\ j'.tail = saved.tail \/ align_eq(j'.head, saved.tail, ppb)

\* A restart that goes on, or ends with the root of the synchronization point,
\* keeps it.
LEMMA PointKept ==
  ASSUME Observe, pc \in Resuming, ~Crashes, mids = {}, Resumes => j'.root = saved.root
  PROVE  saved' = saved /\ (Resumes => accepted' = saved.live)
<1>1. CASE Resumes
  <2>1. Found = {saved}
    BY <1>1 DEF Found
  <2> QED BY <1>1, <2>1 DEF Observe
<1>2. CASE ~Resumes
  BY <1>2 DEF Observe
<1> QED BY <1>1, <1>2

\* The flash and the synchronization point are as they were.
LEMMA RestFound ==
  ASSUME FoundInv, UNCHANGED <<page, marked>>, saved' = saved
  PROVE  OnFlash' /\ point' = point /\ home' = home
BY DEF FoundInv, OnFlash, NothingFound, PointFound, is_cp, point, home

\* A search that goes on.
LEMMA SearchGoesOn ==
  ASSUME FoundInv, Observe, pc \in Resuming, pc' \in Resuming, ~Crashes, mids = {},
         UNCHANGED <<page, marked>>, SearchFollows', saved' = saved
  PROVE  FoundInv'
<1>1. ~Running' /\ OnFlash'
  BY RestFound DEF Running
<1> QED BY <1>1 DEF FoundInv, FirstKept

\* The blocks with a checkpoint: that of the synchronization point, those before
\* it, of its epoch, and those behind it, of the one before.
LEMMA CheckpointBlocks ==
  ASSUME EPOCHS >= 2, Inv, OrderInv, FoundInv, saved.root # PAGE_NONE
  PROVE  /\ home \in Blocks /\ has_checkpoint(home)
         /\ \A b \in Blocks : has_checkpoint(b) =>
              (page[first_cp(b)].epoch = page[point].epoch <=> b <= home)
<1>1. /\ home \in Blocks /\ point \in Pages /\ point \in Nat /\ block_of(point) = home
      /\ first_cp(home) <= point
  BY PointPlace
<1>2. PointFound /\ page \in [Pages -> Contents]
  BY DEF FoundInv, OnFlash, Inv, TypeOK
<1>3. ASSUME NEW b \in Blocks
      PROVE  has_checkpoint(b) <=> Usable(marked, page, b) /\ is_cp(first_cp(b))
  <2>1. first_cp(b) \in Pages
    BY FirstCp
  <2> QED BY <2>1, UsableIsGood DEF has_checkpoint, is_cp, readable
<1>4. ASSUME NEW b \in Blocks, has_checkpoint(b)
      PROVE  page[first_cp(b)].epoch = page[point].epoch <=> b <= home
  <2> DEFINE c == first_cp(b)
  <2>1. c \in Pages /\ c \in Nat /\ block_of(c) = b
    BY FirstCp DEF Pages
  <2>2. is_cp(c) /\ Usable(marked, page, block_of(c))
    BY <1>3, <1>4, <2>1
  <2>3. /\ c <= point => page[c].epoch = page[point].epoch
        /\ c > point => next_epoch(page[c].epoch) = page[point].epoch
    BY <1>2, <2>1, <2>2 DEF PointFound
  <2>4. b <= home <=> c <= point
    <3>1. b \in Int /\ home \in Int
      BY <1>1 DEF Blocks
    <3>2. b < home => c < point
      BY <1>1, <2>1, BlockOrder
    <3>3. b > home => c > point
      BY <1>1, <2>1, BlockOrder
    <3> QED BY <1>1, <2>1, <3>1, <3>2, <3>3
  <2>5. page[c].epoch \in 0 .. (EPOCHS - 1)
    <3>1. page[c] \in Checkpoints
      BY <1>2, <2>1, <2>2 DEF Contents, is_cp, Erased, Torn, UserPages, Dumps
    <3> QED BY <3>1 DEF Checkpoints
  <2>6. next_epoch(page[c].epoch) # page[c].epoch
    BY <2>5, EpochAssumption DEF next_epoch
  <2> HIDE DEF c
  <2>7. c <= point \/ c > point
    BY <1>1, <2>1
  <2> QED BY <2>3, <2>4, <2>6, <2>7 DEF c
<1> QED BY <1>1, <1>2, <1>3, <1>4 DEF PointFound

\* find_checkblock from a block that is not behind the synchronization point.
LEMMA NextCheckpoint ==
  ASSUME EPOCHS >= 2, Inv, OrderInv, FoundInv, saved.root # PAGE_NONE,
         GapsAreShort, pc \in Resuming, NEW a \in Nat
  PROVE  /\ a <= home => \E b \in Blocks : /\ find_checkblock(a, b) /\ b <= home
                                           /\ page[first_cp(b)].epoch = page[point].epoch
         /\ \A b \in Blocks : find_checkblock(a, b) =>
              /\ a <= b
              /\ page[first_cp(b)].epoch = page[point].epoch <=> b <= home
<1>1. home \in Blocks /\ home \in Nat /\ has_checkpoint(home)
  BY CheckpointBlocks DEF Blocks
<1>2. ASSUME NEW b \in Blocks, find_checkblock(a, b)
      PROVE  /\ a <= b /\ b \in Nat
             /\ page[first_cp(b)].epoch = page[point].epoch <=> b <= home
             /\ a <= home => b <= home
  <2>1. /\ a <= b /\ b \in Nat /\ has_checkpoint(b)
        /\ \A c \in a .. (b - 1) : ~has_checkpoint(c)
    <3>1. b \in Nat
      BY DEF Blocks
    <3> QED BY <1>2, <3>1 DEF find_checkblock
  <2>2. a <= home => b <= home
    BY <1>1, <2>1
  <2> QED BY <2>1, <2>2, CheckpointBlocks
<1>3. a <= home => \E b \in Blocks : find_checkblock(a, b)
  BY <1>1 DEF GapsAreShort
<1> QED BY <1>2, <1>3

\* A restart that finds no block with a checkpoint has nothing to come back to;
\* any other begins with one of the epoch of the synchronization point.
LEMMA FindFirstFound ==
  ASSUME EPOCHS >= 2, Inv, Inv', OrderInv, OrderInv', FoundInv, mids = {}, Observe,
         FindFirst, GapsAreShort
  PROVE  FoundInv' /\ (Resumes => ComesBack)
<1>1. /\ pc = "resume" /\ pc \in Resuming /\ UNCHANGED <<page, marked>> /\ ~Crashes
      /\ 0 \in Nat
  BY DEF FindFirst, Resuming, Crashes
<1>2. CASE (\A b \in Blocks : ~find_checkblock(0, b)) /\ ResumeFailed
  <2>1. saved.root = PAGE_NONE
    <3>1. SUFFICES ASSUME saved.root # PAGE_NONE PROVE FALSE
      OBVIOUS
    <3>2. home \in Nat
      BY <3>1, PointPlace DEF Blocks
    <3> QED BY <1>1, <1>2, <3>1, <3>2 DEF GapsAreShort
  <2>2. /\ pc' = "idle" /\ j'.root = PAGE_NONE /\ j'.head = 0 /\ j'.tail = 0 /\ Resumes
    BY <1>1, <1>2 DEF ResumeFailed, EmptyJournal, Resumes
  <2>3. saved' = saved /\ accepted' = saved.live
    BY <1>1, <2>1, <2>2, PointKept
  <2>4. OnFlash'
    BY <1>1, <2>3, RestFound
  <2>5. FirstKept'
    <3>1. block_of(j'.head) \in Blocks /\ j'.head \in Pages
      BY BlockOf DEF Inv, TypeOK, Journals, UPages
    <3>2. first_cp(block_of(j'.head)) \in Nat
      BY <3>1, FirstCp DEF Pages
    <3> QED BY <2>2, <3>2 DEF FirstKept
  <2>6. SearchFollows'
    BY <2>2 DEF SearchFollows
  <2>7. FoundInv'
    BY <2>1, <2>3, <2>4, <2>5, <2>6 DEF FoundInv
  <2>8. DOMAIN accepted' \subseteq queue(j'.tail, j'.head)
    BY <2>2 DEF OrderInv, ListsInv, Running, Resuming
  <2>9. saved.tail = 0
    BY <2>1 DEF FoundInv, OnFlash, NothingFound
  <2> QED BY <2>1, <2>2, <2>3, <2>7, <2>8, <2>9 DEF ComesBack
<1>3. ASSUME NEW b \in Blocks, find_checkblock(0, b),
             j' = [j EXCEPT !.epoch = page[first_cp(b)].epoch],
             search' = [low |-> b, high |-> num_blocks - 1, at |-> b], pc' = "r_last"
      PROVE  FoundInv' /\ ~Resumes
  <2>1. saved.root # PAGE_NONE
    <3>1. first_cp(b) \in Pages /\ block_of(first_cp(b)) = b
      BY FirstCp
    <3>2. Usable(marked, page, b) /\ is_cp(first_cp(b))
      BY <1>3, UsableIsGood DEF find_checkblock, has_checkpoint, is_cp
    <3> QED BY <3>1, <3>2 DEF FoundInv, OnFlash, NothingFound
  <2>2. home \in Blocks /\ home \in Nat
    BY <2>1, PointPlace DEF Blocks
  <2>3. b <= home /\ page[first_cp(b)].epoch = page[point].epoch
    <3>1. \E x \in Blocks : find_checkblock(0, x) /\ x <= home
      BY <1>1, <2>1, <2>2, NextCheckpoint
    <3>2. \A x \in Blocks : find_checkblock(0, x) => x = b
      BY <1>3 DEF find_checkblock, Blocks
    <3>3. b <= home
      BY <3>1, <3>2
    <3> QED BY <1>1, <1>3, <2>1, <3>3, NextCheckpoint
  <2>4. ~Resumes /\ pc' \in Resuming
    BY <1>3 DEF Resumes, Resuming
  <2>5. saved' = saved
    BY <1>1, <2>4, PointKept
  <2>6. point' = point /\ home' = home
    BY <1>1, <2>5, RestFound
  <2>7. home <= num_blocks - 1
    BY <2>2, GeometryAssumption DEF Blocks
  <2>8. j'.epoch = page[point].epoch
    BY <1>3, <2>3 DEF Inv, TypeOK, Journals
  <2>9. SearchFollows'
    BY <1>1, <1>3, <2>1, <2>3, <2>5, <2>6, <2>7, <2>8 DEF SearchFollows
  <2> QED BY <1>1, <2>4, <2>5, <2>9, SearchGoesOn
<1> QED BY <1>2, <1>3 DEF FindFirst

\* An iteration of the binary search for the block of the last checkpoint, which
\* ends with that of the synchronization point.
LEMMA FindLastFound ==
  ASSUME EPOCHS >= 2, Inv, Inv', OrderInv, FoundInv, mids = {}, Observe,
         FindLast, GapsAreShort
  PROVE  FoundInv' /\ ~Resumes
<1> DEFINE mid == (search.low + search.high) \div 2
<1>1. /\ pc = "r_last" /\ pc \in Resuming /\ UNCHANGED <<page, marked, j, buf>> /\ ~Crashes
      /\ pc' \in {"r_last", "r_group"} /\ pc' \in Resuming /\ ~Resumes
  <2>1. pc = "r_last" /\ UNCHANGED <<page, marked, j, buf, crashes>>
    BY DEF FindLast
  <2>2. pc' \in {"r_last", "r_group"}
    BY <2>1 DEF FindLast
  <2> QED BY <2>1, <2>2 DEF Resuming, Crashes, Resumes
<1>2. /\ saved.root # PAGE_NONE /\ j.epoch = page[point].epoch
      /\ search.low <= home /\ home <= search.high /\ search.at <= home
  BY <1>1 DEF FoundInv, SearchFollows
<1>3. /\ home \in Blocks /\ home \in Nat /\ search.low \in Nat /\ search.high \in Int
      /\ cpb \in Nat \ {0}
      /\ search = [low |-> search.low, high |-> search.high, at |-> search.at]
  <2>1. home \in Blocks
    BY <1>2, PointPlace
  <2>2. search \in [low : Nat, high : Int, at : Blocks]
    BY <1>1 DEF Inv, TypeOK
  <2> QED BY <2>1, <2>2, GeometryAssumption DEF Blocks
<1>4. mid \in Nat
  BY <1>2, <1>3
<1>5. saved' = saved
  BY <1>1, PointKept
<1>6. point' = point /\ home' = home
  BY <1>1, <1>5, RestFound
<1> HIDE DEF mid
<1>7. ASSUME NEW a \in Nat
      PROVE  /\ a <= home => \E b \in Blocks : of_epoch(a, b)
             /\ \A b \in Blocks : of_epoch(a, b) => a <= b /\ b <= home
  BY <1>1, <1>2, NextCheckpoint DEF of_epoch
<1>8. CASE pc' = "r_last" /\ search'.low <= home /\ home <= search'.high /\ search'.at <= home
  <2>1. SearchFollows'
    BY <1>1, <1>2, <1>5, <1>6, <1>8 DEF SearchFollows
  <2> QED BY <1>1, <1>5, <2>1, SearchGoesOn
<1>9. CASE pc' = "r_group" /\ search' = [low |-> 0, high |-> cpb - 1, at |-> home]
  <2>1. ~group_free(0)
    <3>1. is_cp(first_cp(home)) /\ first_page(home) \in Nat /\ ppc \in Nat /\ ppc >= 4
      BY <1>2, <1>3, Sizes, BlocksApart DEF FoundInv, OnFlash, PointFound
    <3>2. /\ ppc - 1 \in 0 .. (ppc - 1)
          /\ first_page(home) + 0 * ppc + (ppc - 1) = first_cp(home)
      BY <3>1 DEF first_cp
    <3>3. ~dhara_nand_is_free(first_cp(home))
      BY <3>1 DEF is_cp, dhara_nand_is_free
    <3> QED BY <3>2, <3>3 DEF group_free, cp_free
  <2>2. ~group_free(0)'
    BY <1>1, <1>6, <2>1 DEF group_free, cp_free, dhara_nand_is_free
  <2>3. search'.low = 0 /\ search'.high = cpb - 1 /\ search'.at = home /\ 0 <= cpb - 1
    BY <1>3, <1>9
  <2>4. SearchFollows'
    BY <1>1, <1>2, <1>5, <1>6, <1>9, <2>2, <2>3 DEF SearchFollows
  <2> QED BY <1>1, <1>5, <2>4, SearchGoesOn
<1>10. CASE search.low > search.high
  BY <1>2, <1>3, <1>10
<1>11. CASE \A b \in Blocks : ~of_epoch(mid, b)
  <2>1. mid > home
    BY <1>3, <1>4, <1>7, <1>11
  <2>2. CASE mid # 0 /\ search' = [search EXCEPT !.high = mid - 1] /\ pc' = pc
    <3>1. search'.low = search.low /\ search'.high = mid - 1 /\ search'.at = search.at
      BY <1>3, <2>2
    <3> QED BY <1>1, <1>2, <1>3, <1>4, <1>8, <2>1, <2>2, <3>1
  <2>3. CASE mid = 0
    BY <1>3, <2>1, <2>3
  <2>4. CASE search.low > search.high
    BY <1>10, <2>4
  <2>5. CASE \E b \in Blocks : of_epoch(mid, b)
    BY <1>11, <2>5
  <2> QED BY <2>2, <2>3, <2>4, <2>5 DEF FindLast, mid
<1>12. ASSUME NEW b \in Blocks, of_epoch(mid, b), \A n \in Blocks : ~of_epoch(b + 1, n),
              pc' = "r_group", search' = [low |-> 0, high |-> cpb - 1, at |-> b]
       PROVE  FoundInv' /\ ~Resumes
  <2>1. b <= home /\ b \in Nat /\ b + 1 \in Nat
    BY <1>4, <1>7, <1>12 DEF Blocks
  <2>2. ~(b + 1 <= home)
    BY <1>7, <1>12, <2>1
  <2>3. b = home
    BY <1>3, <2>1, <2>2
  <2> QED BY <1>9, <1>12, <2>3
<1>13. ASSUME NEW b \in Blocks, of_epoch(mid, b), NEW n \in Blocks, of_epoch(b + 1, n),
              search' = search_above(n), pc' = pc
       PROVE  FoundInv' /\ ~Resumes
  <2>1. n <= home
    <3>1. b + 1 \in Nat
      BY DEF Blocks
    <3> QED BY <1>7, <1>13, <3>1
  <2>2. search'.low = n /\ search'.high = search.high /\ search'.at = search.at
    BY <1>3, <1>13 DEF search_above
  <2> QED BY <1>1, <1>2, <1>8, <1>13, <2>1, <2>2
<1> QED BY <1>1, <1>10, <1>11, <1>12, <1>13 DEF FindLast, mid

\* The checkpoint pages of a block, one for each of its groups.
LEMMA CpSlot ==
  ASSUME NEW b \in Blocks, NEW i \in 0 .. (cpb - 1)
  PROVE  LET q == first_page(b) + i * ppc
             c == first_page(b) + (i + 1) * ppc - 1
         IN  /\ c = q + (ppc - 1) /\ q + ppc = first_page(b) + (i + 1) * ppc
             /\ c \in CpPages /\ c \in Nat /\ c \in Pages /\ block_of(c) = b
             /\ c - 1 = q + (ppc - 2) /\ c - 1 \in Pages /\ block_of(c - 1) = b
             /\ q \in Nat /\ ppc \in Nat /\ ppc >= 4
             /\ \A k \in 0 .. (cpb - 1) : i < k => c < first_page(b) + (k + 1) * ppc - 1
<1> DEFINE q == first_page(b) + i * ppc
           c == first_page(b) + (i + 1) * ppc - 1
<1>1. /\ i \in Nat /\ ppc \in Nat \ {0} /\ ppc >= 4 /\ first_page(b) \in Nat
      /\ i * ppc \in Nat /\ cpb \in Nat
  BY Sizes, GeometryAssumption, BlocksApart
<1>2. (i + 1) * ppc = (i * ppc) + ppc
  BY <1>1
<1>3. /\ q \in UPages /\ q \in Nat /\ cp_page(q) = q + (ppc - 1)
      /\ \A x \in 0 .. (ppc - 1) : q + x \in Pages /\ block_of(q + x) = b
  BY BlockGroup
<1>4. c = q + (ppc - 1) /\ q + ppc = first_page(b) + (i + 1) * ppc
  BY <1>1, <1>2
<1>5. ASSUME NEW k \in 0 .. (cpb - 1), i < k
      PROVE  c < first_page(b) + (k + 1) * ppc - 1
  <2>1. k \in Nat /\ k * ppc \in Nat /\ (k + 1) * ppc = (k * ppc) + ppc
    BY <1>1
  <2>2. (k - i - 1) \in Nat /\ (k - i - 1) * ppc >= 0
    BY <1>1, <1>5, <2>1
  <2>3. (k - i - 1) * ppc = (k * ppc) - (i * ppc) - ppc
    BY <1>1, <2>1
  <2> QED BY <1>1, <1>2, <2>1, <2>2, <2>3
<1> HIDE DEF q, c
<1>6. cp_page(q) \in CpPages
  BY <1>3, GroupBounds
<1>7. ppc - 1 \in 0 .. (ppc - 1) /\ ppc - 2 \in 0 .. (ppc - 1)
      /\ c - 1 = q + (ppc - 2) /\ c \in Nat
  BY <1>1, <1>3, <1>4
<1> QED BY <1>1, <1>3, <1>4, <1>5, <1>6, <1>7 DEF q, c

\* Every checkpoint page is that of a group of its block.
LEMMA CpIndex ==
  ASSUME NEW c \in CpPages
  PROVE  \E i \in 0 .. (cpb - 1) : c = first_page(block_of(c)) + (i + 1) * ppc - 1
<1> DEFINE b == block_of(c)
           f == b * cpb
<1>1. /\ ppc \in Nat \ {0} /\ cpb \in Nat \ {0} /\ b \in Blocks /\ b \in Nat
      /\ ppb = cpb * ppc /\ c \in Pages
  BY Sizes, GeometryAssumption, CpPage, BlockOf DEF Blocks
<1>2. PICK g \in Nat : c + 1 = (g + 1) * ppc /\ c + 1 = (g * ppc) + ppc /\ g * ppc \in Nat
  BY CpPage
<1>3. /\ f \in Nat /\ first_page(b) = f * ppc /\ f * ppc \in Nat
      /\ (f + cpb) * ppc = (f * ppc) + ppb
  <2>1. first_page(b) = b * (cpb * ppc)
    BY <1>1 DEF first_page
  <2>2. b * (cpb * ppc) = (b * cpb) * ppc /\ b * cpb \in Nat
    BY <1>1
  <2>3. f * ppc \in Nat /\ (f + cpb) * ppc = (f * ppc) + (cpb * ppc)
    <3>1. f \in Nat
      BY <2>2
    <3> HIDE DEF f
    <3> QED BY <1>1, <3>1
  <2> QED BY <1>1, <2>1, <2>2, <2>3
<1>4. c \in Nat /\ first_page(b) <= c /\ c < first_page(b) + ppb
  BY <1>1, BlockBounds DEF block_start
<1> HIDE DEF b, f
<1>5. f <= g
  <2>1. SUFFICES ASSUME g < f PROVE FALSE
    BY <1>2, <1>3
  <2>2. g * ppc < f * ppc
    <3>1. f - g - 1 \in Nat /\ (f - g - 1) * ppc >= 0
      BY <1>1, <1>2, <1>3, <2>1
    <3>2. (f - g - 1) * ppc = (f * ppc) - (g * ppc) - ppc
      BY <1>1, <1>2, <1>3
    <3> QED BY <1>1, <1>2, <1>3, <3>1, <3>2
  <2>3. (g * ppc) + ppc <= f * ppc
    BY <1>1, <1>2, <1>3, <2>2, NextMultiple
  <2> QED BY <1>1, <1>2, <1>3, <1>4, <2>3
<1>6. g < f + cpb
  <2>1. f + cpb \in Nat /\ g * ppc < (f + cpb) * ppc
    BY <1>1, <1>2, <1>3, <1>4
  <2> QED BY <1>1, <1>2, <2>1, NextMultiple
<1>7. g - f \in 0 .. (cpb - 1) /\ ((g - f) + 1) * ppc = ((g + 1) * ppc) - (f * ppc)
  <2>1. g - f \in 0 .. (cpb - 1)
    BY <1>1, <1>2, <1>3, <1>5, <1>6
  <2>2. ((g - f) + 1) * ppc = ((g + 1) * ppc) - (f * ppc)
    BY <1>1, <1>2, <1>3
  <2> QED BY <2>1, <2>2
<1> DEFINE i == g - f
<1>8. i \in 0 .. (cpb - 1) /\ (i + 1) * ppc = ((g + 1) * ppc) - (f * ppc)
  BY <1>7
<1> HIDE DEF i
<1>9. (i + 1) * ppc = (c + 1) - first_page(b) /\ first_page(b) \in Nat
  BY <1>2, <1>3, <1>8
<1>10. c = first_page(b) + (i + 1) * ppc - 1
  BY <1>4, <1>9
<1> QED BY <1>8, <1>10 DEF b

\* The group of the synchronization point is not behind the last one that has been
\* programmed.
LEMMA PointSlot ==
  ASSUME Inv, OrderInv, FoundInv, saved.root # PAGE_NONE,
         NEW g \in 0 .. (cpb - 1), g = cpb - 1 \/ group_free(g + 1)
  PROVE  \E i \in 0 .. g : point = first_page(home) + (i + 1) * ppc - 1
<1>1. /\ home \in Blocks /\ point \in CpPages /\ point \in Pages /\ point \in Nat
      /\ block_of(point) = home
  BY PointPlace
<1>2. is_cp(point)
  BY DEF FoundInv, OnFlash, PointFound
<1>3. PICK i \in 0 .. (cpb - 1) : point = first_page(home) + (i + 1) * ppc - 1
  BY <1>1, CpIndex
<1>4. cpb \in Nat \ {0} /\ i \in Nat /\ g \in Nat
  BY GeometryAssumption
<1>5. CASE i <= g
  BY <1>3, <1>4, <1>5
<1>6. CASE i > g
  <2> DEFINE h == g + 1
             q == first_page(home) + h * ppc
             c == first_page(home) + (h + 1) * ppc - 1
  <2>1. h \in 0 .. (cpb - 1) /\ h <= i /\ h \in Nat /\ group_free(h)
    BY <1>4, <1>6
  <2> HIDE DEF h
  <2>2. /\ c = q + (ppc - 1) /\ c - 1 = q + (ppc - 2) /\ c \in CpPages /\ c \in Nat
        /\ block_of(c) = home /\ ppc \in Nat /\ ppc >= 4
        /\ h < i => c < point
    BY <1>1, <1>3, <2>1, CpSlot
  <2>3. ppc - 1 \in 0 .. (ppc - 1) /\ ppc - 2 \in 0 .. (ppc - 1)
    BY <2>2
  <2>4. dhara_nand_is_free(q + (ppc - 1)) /\ dhara_nand_is_free(q + (ppc - 2))
    BY <2>1, <2>3 DEF group_free, cp_free
  <2>5. is_erased(page, c) /\ is_erased(page, c - 1)
    BY <2>2, <2>4 DEF dhara_nand_is_free, is_erased
  <2>6. h = i => c = point
    BY <1>3 DEF c
  <2> HIDE DEF q, c
  <2>7. ~is_erased(page, point)
    BY <1>2 DEF is_cp, is_erased
  <2>8. h < i
    BY <1>4, <2>1, <2>5, <2>6, <2>7
  <2>9. Full(page, c)
    BY <1>1, <2>2, <2>7, <2>8 DEF OrderInv, FlashInv, FlashOrder, Filled
  <2> QED BY <2>5, <2>9 DEF Full
<1> QED BY <1>4, <1>5, <1>6

\* find_root takes the checkpoint of the synchronization point.
LEMMA RestoreFound ==
  ASSUME Inv, OrderInv, FoundInv, pc = "r_group", mids = {}, Observe,
         UNCHANGED <<page, marked, call, client, fails, crashes>>,
         NEW g \in 0 .. (cpb - 1), restore(home, g), g = cpb - 1 \/ group_free(g + 1)
  PROVE  FoundInv' /\ ~Resumes
<1>1. /\ saved.root # PAGE_NONE /\ j.epoch = page[point].epoch /\ PointFound
      /\ pc \in Resuming /\ ~Crashes /\ j \in Journals
  BY DEF FoundInv, OnFlash, SearchFollows, Resuming, Crashes, Inv, TypeOK
<1>2. /\ home \in Blocks /\ point \in Pages /\ point \in Nat /\ point - 1 = saved.root
  BY <1>1, PointPlace
<1>3. cpb \in Nat \ {0} /\ g \in Nat
  BY GeometryAssumption
<1> DEFINE slot(k) == first_page(home) + (k + 1) * ppc - 1
<1>4. PICK i \in 0 .. g : point = slot(i)
  BY <1>1, PointSlot
<1>5. i \in 0 .. (cpb - 1) /\ i \in Nat
  BY <1>3
<1>6. good_cp(home, i)
  BY <1>1, <1>2, <1>4 DEF good_cp, readable, PointFound, is_cp
<1>7. ASSUME NEW k \in (i + 1) .. g PROVE ~good_cp(home, k)
  <2>1. k \in 0 .. (cpb - 1) /\ i < k
    BY <1>3, <1>5
  <2>2. slot(k) \in Pages /\ slot(k) \in Nat /\ block_of(slot(k)) = home
    BY <1>2, <2>1, CpSlot
  <2>3. point < slot(k)
    BY <1>2, <1>4, <1>5, <2>1, CpSlot
  <2> HIDE DEF slot
  <2>4. ~is_cp(slot(k))
    <3>1. is_cp(slot(k)) => slot(k) <= point
      BY <1>1, <2>2 DEF PointFound
    <3> QED BY <1>2, <2>2, <2>3, <3>1
  <2> QED BY <2>4 DEF good_cp, is_cp, slot
<1>8. PICK x \in 0 .. g :
         LET p == slot(x)
         IN  /\ good_cp(home, x)
             /\ \A k \in (x + 1) .. g : ~good_cp(home, k)
             /\ j' = [j EXCEPT !.root = p - 1, !.tail = page[p].tail,
                               !.bb_current = page[p].bb_current,
                               !.bb_last = page[p].bb_last,
                               !.head = next_upage(first_page(home) + g * ppc)]
             /\ buf' = [cookie |-> page[p].cookie, meta |-> NoMeta]
             /\ pc' = "r_head"
             /\ search' = NoSearch
  BY <1>4, <1>6, Zenon DEF restore
<1>9. x = i
  <2>1. x \in Nat /\ ~(x \in (i + 1) .. g) /\ ~(i \in (x + 1) .. g)
    BY <1>3, <1>6, <1>7, <1>8
  <2> QED BY <1>3, <1>5, <2>1
<1>10. /\ j'.root = saved.root /\ j'.epoch = page[point].epoch
       /\ buf'.cookie = saved.cookie /\ pc' = "r_head"
  <2>1. j'.root = point - 1 /\ j'.epoch = j.epoch
    <3> HIDE DEF slot
    <3> QED BY <1>1, <1>4, <1>8, <1>9 DEF Journals
  <2>2. buf'.cookie = page[point].cookie
    <3> HIDE DEF slot
    <3> QED BY <1>4, <1>8, <1>9
  <2> QED BY <1>1, <1>2, <1>8, <2>1, <2>2 DEF PointFound
<1>11. pc' \in Resuming /\ ~Resumes
  BY <1>10 DEF Resuming, Resumes
<1>12. saved' = saved
  BY <1>1, <1>11, PointKept
<1>13. point' = point /\ home' = home
  BY <1>12, RestFound
<1>14. SearchFollows'
  BY <1>1, <1>10, <1>12, <1>13 DEF SearchFollows
<1> QED BY <1>1, <1>11, <1>12, <1>14, SearchGoesOn

\* An iteration of the search for the last group of that block.
LEMMA FindGroupFound ==
  ASSUME EPOCHS >= 2, Inv, Inv', OrderInv, FoundInv, mids = {}, Observe, FindGroup
  PROVE  FoundInv' /\ ~Resumes
<1> DEFINE mid == (search.low + search.high) \div 2
           p == first_page(search.at) + mid * ppc
<1>1. /\ pc = "r_group" /\ pc \in Resuming /\ UNCHANGED <<page, marked>> /\ ~Crashes
      /\ UNCHANGED <<page, marked, call, client, fails, crashes>>
  BY DEF FindGroup, Resuming, Crashes
<1>2. /\ saved.root # PAGE_NONE /\ j.epoch = page[point].epoch
      /\ search.at = home /\ search.low <= search.high
      /\ ~group_free(search.low) /\ (search.high = cpb - 1 \/ group_free(search.high + 1))
  BY <1>1 DEF FoundInv, SearchFollows
<1>3. /\ home \in Blocks /\ search.low \in Nat /\ search.high \in Int
      /\ search.high < cpb /\ cpb \in Nat \ {0}
      /\ search = [low |-> search.low, high |-> search.high, at |-> search.at]
  <2>1. home \in Blocks
    BY <1>2, PointPlace
  <2>2. search \in [low : Nat, high : Int, at : Blocks] /\ search.high < cpb
    BY <1>1 DEF Inv, TypeOK
  <2> QED BY <2>1, <2>2, GeometryAssumption
<1>4. mid \in Nat /\ search.low <= mid /\ mid <= search.high /\ mid \in 0 .. (cpb - 1)
  BY <1>2, <1>3
<1> HIDE DEF mid
<1>5. cp_free(p) = group_free(mid)
  BY <1>2 DEF group_free
<1>6. cp_free(p + ppc) = group_free(mid + 1)
  <2>1. p + ppc = first_page(home) + (mid + 1) * ppc
    BY <1>2, <1>3, <1>4, CpSlot
  <2> HIDE DEF p
  <2> QED BY <2>1 DEF group_free
<1> HIDE DEF p
<1>7. CASE /\ pc' = pc /\ UNCHANGED <<j, buf>>
           /\ search'.at = home /\ search'.low <= search'.high
           /\ ~group_free(search'.low)
           /\ (search'.high = cpb - 1 \/ group_free(search'.high + 1))
  <2>1. pc' \in Resuming /\ ~Resumes
    BY <1>1, <1>7 DEF Resumes
  <2>2. saved' = saved
    BY <1>1, <2>1, PointKept
  <2>3. point' = point /\ home' = home
    BY <1>1, <2>2, RestFound
  <2>4. /\ ~group_free(search.low)'
        /\ (search.high = cpb - 1)' \/ group_free(search.high + 1)'
    <3>1. group_free(search.low)' = group_free(search'.low)
      BY <1>1, <2>3 DEF group_free, cp_free, dhara_nand_is_free
    <3>2. group_free(search.high + 1)' = group_free(search'.high + 1)
      BY <1>1, <2>3 DEF group_free, cp_free, dhara_nand_is_free
    <3> QED BY <1>7, <3>1, <3>2
  <2>5. SearchFollows'
    BY <1>1, <1>2, <1>7, <2>2, <2>3, <2>4 DEF SearchFollows
  <2> QED BY <1>1, <2>1, <2>2, <2>5, SearchGoesOn
<1>8. CASE search.low > search.high
  BY <1>2, <1>3, <1>8
<1>9. CASE /\ cp_free(p) /\ search' = [search EXCEPT !.high = mid - 1]
           /\ UNCHANGED <<j, buf, pc>>
  <2>1. mid # search.low
    BY <1>2, <1>5, <1>9
  <2>2. search'.low = search.low /\ search'.high = mid - 1 /\ search'.at = search.at
    BY <1>3, <1>9
  <2>3. search'.low <= search'.high /\ search'.high + 1 = mid
    BY <1>3, <1>4, <2>1, <2>2
  <2> QED BY <1>2, <1>5, <1>7, <1>9, <2>2, <2>3
<1>10. CASE mid + 1 >= cpb \/ cp_free(p + ppc)
  <2>1. mid = cpb - 1 \/ group_free(mid + 1)
    BY <1>3, <1>4, <1>6, <1>10
  <2>2. CASE restore(search.at, mid)
    BY <1>1, <1>2, <1>4, <2>1, <2>2, RestoreFound
  <2>3. CASE cp_free(p)
    BY <1>5, <1>8, <1>9, <2>3 DEF FindGroup, mid, p
  <2> QED BY <1>8, <1>10, <2>2, <2>3 DEF FindGroup, mid, p
<1>11. CASE /\ ~(mid + 1 >= cpb \/ cp_free(p + ppc))
            /\ search' = [search EXCEPT !.low = mid + 1] /\ UNCHANGED <<j, buf, pc>>
  <2>1. mid # search.high /\ ~group_free(mid + 1)
    BY <1>2, <1>3, <1>6, <1>11
  <2>2. search'.low = mid + 1 /\ search'.high = search.high /\ search'.at = search.at
    BY <1>3, <1>11
  <2>3. search'.low <= search'.high
    BY <1>3, <1>4, <2>1, <2>2
  <2> QED BY <1>2, <1>7, <1>11, <2>1, <2>2, <2>3
<1> QED BY <1>8, <1>9, <1>10, <1>11 DEF FindGroup, mid, p

\* The end of a restart leaves the epoch.
LEMMA ResumedEpoch ==
  ASSUME NEW k \in Journals, Resumed(k)
  PROVE  j'.epoch = k.epoch
<1> DEFINE m == [k EXCEPT !.dirty = FALSE, !.tail_sync = k.tail]
<1>1. m \in Journals /\ m.epoch = k.epoch
  BY DEF Journals
<1>2. j' = clear_recovery(m)
  BY DEF Resumed
<1> HIDE DEF m
<1> QED BY <1>1, <1>2 DEF clear_recovery, Journals

\* A restart that ends at the synchronization point has come back to it.
LEMMA HeadComesBack ==
  ASSUME OrderInv', FoundInv, pc = "r_head", mids = {}, Observe, FindHead, pc' = "idle",
         saved.root # PAGE_NONE, j'.root = saved.root,
         j'.tail = saved.tail \/ align_eq(j'.head, saved.tail, ppb)
  PROVE  saved' = saved /\ Resumes /\ ComesBack
<1>1. pc \in Resuming /\ ~Crashes /\ Resumes /\ UNCHANGED <<buf, crashes>>
  BY DEF FindHead, Resuming, Crashes, Resumes
<1>2. saved' = saved /\ accepted' = saved.live
  BY <1>1, PointKept
<1>3. DOMAIN accepted' \subseteq queue(j'.tail, j'.head)
  BY DEF OrderInv, ListsInv, Running, Resuming
<1>4. buf'.cookie = saved.cookie
  BY <1>1 DEF FoundInv, SearchFollows
<1> QED BY <1>1, <1>2, <1>3, <1>4 DEF ComesBack

\* An iteration of find_head, which starts at the group of the synchronization
\* point or behind it: the head ends behind it in its block or at the next block.
LEMMA FindHeadFound ==
  ASSUME num_blocks >= 2, Inv, Inv', OrderInv, OrderInv', FoundInv, mids = {}, Observe,
         FindHead
  PROVE  FoundInv' /\ (Resumes => ComesBack)
<1> DEFINE first == align_down(j.head, ppc)
           after == IF first + ppc >= chip_size THEN 0 ELSE first + ppc
           m == move_head(j, after)
           chased == [m EXCEPT !.tail = first_page(next_block(block_of(@)))]
           c == cp_page(j.head)
<1>1. /\ pc = "r_head" /\ UNCHANGED <<page, marked, buf, crashes>> /\ pc \in Resuming
      /\ ~Crashes
  BY DEF FindHead, Resuming, Crashes
<1>2. /\ saved.root # PAGE_NONE /\ j.epoch = page[point].epoch /\ PointFound
      /\ j.root = saved.root /\ buf.cookie = saved.cookie
  BY <1>1 DEF FoundInv, OnFlash, SearchFollows
<1>3. /\ home \in Blocks /\ point \in CpPages /\ point \in Pages /\ point \in Nat
      /\ point - 1 = saved.root /\ first_cp(home) \in Nat
  BY <1>2, PointPlace
<1>4. /\ j \in Journals /\ j.head \in UPages /\ j.head \in Pages /\ block_of(j.head) = home
      /\ j.root < c /\ j.root \in Nat /\ j.tail = saved.tail
  <2>1. /\ j \in Journals /\ j.head \in UPages /\ j.head \in Pages
        /\ block_of(j.head) = block_of(j.root) /\ j.root < c /\ j.root \in Pages
    BY <1>1, RootFacts
  <2>2. j.tail = page[point].tail
    BY <1>1, <1>2 DEF OrderInv, HeadInv, AtRoot, point
  <2>3. block_of(j.root) = home /\ j.root \in Nat /\ page[point].tail = saved.tail
    BY <1>2, <2>1 DEF PointFound, Pages, home
  <2> HIDE DEF c
  <2> QED BY <2>1, <2>2, <2>3
<1>5. PICK n \in 0 .. ppc :
        /\ trailing_free(first, n)
        /\ \/ n > 1 /\ Resumed([j EXCEPT !.head = first + ppc - n])
           \/ /\ n <= 1 /\ is_aligned(after, ppb)
              /\ Resumed(IF align_eq(after, m.tail, ppb) THEN chased ELSE m)
           \/ n <= 1 /\ ~is_aligned(after, ppb) /\ j' = m /\ UNCHANGED pc
  BY DEF FindHead
<1>6. /\ first \in Nat /\ first + ppc = c + 1 /\ c \in Nat /\ ppc \in Nat /\ ppc >= 4
      /\ j.head < c
      /\ is_aligned(after, ppb) => after = first_page(next_block(block_of(j.head)))
      /\ ~is_aligned(after, ppb) => after = c + 1
  BY <1>4, HeadGroup
<1>7. j' \in Journals
  BY DEF Inv, TypeOK
<1>8. ASSUME saved' = saved
      PROVE  OnFlash' /\ point' = point /\ home' = home
  BY <1>1, <1>8, RestFound
<1>9. CASE n > 1 /\ Resumed([j EXCEPT !.head = first + ppc - n])
  <2> DEFINE h == first + ppc - n
             k == [j EXCEPT !.head = h]
  <2>1. is_erased(page, c)
    <3>1. ~Full(page, c)
      BY <1>4, <1>5, <1>9, GroupFree
    <3> QED BY <3>1 DEF Full
  <2>2. point < first
    <3>1. point # c
      BY <1>2, <2>1 DEF PointFound, is_cp, is_erased
    <3>2. point <= c
      BY <1>2, <1>3, <1>4, <1>6
    <3>3. ~(point > j.head)
      <4>1. point > j.head => point >= c
        BY <1>3, <1>4, GroupsApart
      <4> HIDE DEF c
      <4> QED BY <1>3, <1>6, <3>1, <3>2, <4>1
    <3>4. point # j.head /\ j.head \in Nat
      BY <1>3, <1>4, GroupOrder
    <3>5. point <= c - ppc
      <4>1. point < j.head
        BY <1>3, <3>3, <3>4
      <4> QED BY <1>3, <1>4, <4>1, GroupsApart
    <3> HIDE DEF c, first
    <3> QED BY <1>3, <1>6, <3>5
  <2>3. /\ h \in UPages /\ block_of(h) = home /\ point < h /\ h \in Nat
        /\ k \in Journals
    <3>1. j'.head = h
      <4> DEFINE d == [k EXCEPT !.dirty = FALSE, !.tail_sync = k.tail]
      <4>1. j' = clear_recovery(d) /\ k = [j EXCEPT !.head = h]
        BY <1>9 DEF Resumed
      <4>2. d.head = h /\ clear_recovery(d).head = d.head
        BY <1>4 DEF clear_recovery, Journals
      <4> QED BY <4>1, <4>2
    <3>2. h \in UPages /\ k \in Journals
      BY <1>4, <1>7, <3>1 DEF Journals
    <3>3. first <= h /\ h <= c /\ h \in Nat
      <4> HIDE DEF c, first
      <4> QED BY <1>5, <1>6, <1>9
    <3>4. block_of(h) = home
      <4>1. /\ block_start(j.head) <= first /\ c < block_start(j.head) + ppb
            /\ block_start(j.head) \in Nat /\ ppb \in Nat /\ h \in Pages
        BY <1>4, <3>2, HeadGroup, BlockBounds, Sizes, GroupBounds
      <4>2. block_start(j.head) <= h /\ h < block_start(j.head) + ppb
        BY <1>6, <3>3, <4>1
      <4> HIDE DEF h, first, c
      <4> QED BY <1>4, <3>3, <4>2, InBlock
    <3> QED BY <1>3, <1>6, <2>2, <3>2, <3>3, <3>4
  <2>4. /\ j'.head = h /\ j'.tail = j.tail /\ j'.root = j.root /\ j'.epoch = j.epoch
        /\ pc' = "idle"
    <3>1. /\ k.head = h /\ k.tail = j.tail /\ k.root = j.root /\ k.epoch = j.epoch
          /\ Resumed(k)
      BY <1>4, <1>9 DEF Journals
    <3> HIDE DEF k, h
    <3> QED BY <2>3, <3>1, ResumedPointers, ResumedEpoch
  <2> HIDE DEF h, k
  <2>5. saved' = saved /\ Resumes /\ ComesBack
    BY <1>1, <1>2, <1>4, <2>4, HeadComesBack
  <2>6. OnFlash' /\ point' = point /\ home' = home
    BY <1>8, <2>5
  <2>7. HeadFollows'
    <3>1. steps(home, home) = 0 /\ home \in Nat
      BY <1>3 DEF steps, Blocks
    <3>2. block_of(j'.head) = home' /\ j'.head > point'
      BY <1>3, <2>3, <2>4, <2>6
    <3>3. ASSUME NEW b \in Blocks
          PROVE  ~(0 < steps(home', b) /\ steps(home', b) < steps(home', block_of(j'.head)))
      <4>1. steps(home', b) \in Nat
        BY <1>3, <2>6, <3>3, StepsOn
      <4>2. steps(home', block_of(j'.head)) = 0
        BY <2>3, <2>4, <2>6, <3>1
      <4> QED BY <4>1, <4>2
    <3>4. j'.epoch = page'[point'].epoch /\ block_of(j'.head) >= home'
      BY <1>1, <1>2, <1>3, <2>3, <2>4, <2>6, <3>1
    <3> QED BY <3>2, <3>3, <3>4 DEF HeadFollows
  <2>8. FirstKept'
    BY <1>1, <1>2, <2>3, <2>4 DEF FirstKept, PointFound, is_cp
  <2>9. SearchFollows'
    BY <2>4 DEF SearchFollows
  <2> QED BY <1>2, <2>5, <2>6, <2>7, <2>8, <2>9 DEF FoundInv
<1>10. CASE /\ n <= 1 /\ is_aligned(after, ppb)
            /\ Resumed(IF align_eq(after, m.tail, ppb) THEN chased ELSE m)
  <2>1. after = first_page(next_block(home)) /\ after \in UPages /\ after \in Pages
    BY <1>4, <1>6, <1>10, BlockBounds
  <2> HIDE DEF after
  <2>2. /\ m \in Journals /\ m.head = after /\ m.tail = j.tail /\ m.root = j.root
        /\ m.epoch = IF after = 0 THEN next_epoch(j.epoch) ELSE j.epoch
    BY <1>4, <2>1, MoveHeadType, MoveHeadPointers, MoveHeadEpoch DEF SamePointers
  <2> HIDE DEF m
  <2>3. PICK k \in Journals :
          /\ k.head = m.head /\ k.root = m.root /\ k.epoch = m.epoch /\ Resumed(k)
          /\ k.tail = m.tail \/ align_eq(after, m.tail, ppb)
    <3>1. first_page(next_block(block_of(m.tail))) \in UPages
      BY <2>2, BlockBounds DEF Journals, UPages
    <3>2. /\ chased \in Journals /\ chased.head = m.head /\ chased.root = m.root
          /\ chased.epoch = m.epoch
      BY <2>2, <3>1 DEF Journals
    <3> HIDE DEF chased
    <3>3. CASE align_eq(after, m.tail, ppb)
      BY <1>10, <3>2, <3>3
    <3>4. CASE ~align_eq(after, m.tail, ppb)
      BY <1>10, <2>2, <3>4
    <3> QED BY <3>3, <3>4
  <2>4. /\ j'.head = after /\ j'.tail = k.tail /\ j'.root = j.root /\ j'.epoch = m.epoch
        /\ pc' = "idle"
    BY <2>2, <2>3, ResumedPointers, ResumedEpoch
  <2>5. j'.tail = saved.tail \/ align_eq(j'.head, saved.tail, ppb)
    BY <1>4, <2>2, <2>3, <2>4
  <2>6. saved' = saved /\ Resumes /\ ComesBack
    BY <1>1, <1>2, <2>4, <2>5, HeadComesBack
  <2>7. OnFlash' /\ point' = point /\ home' = home
    BY <1>8, <2>6
  <2>8. HeadFollows' /\ FirstKept'
    BY <1>1, <1>2, <1>3, <2>1, <2>2, <2>4, <2>7, HeadBehindPoint
  <2>9. SearchFollows'
    BY <2>4 DEF SearchFollows
  <2> QED BY <1>2, <2>6, <2>7, <2>8, <2>9 DEF FoundInv
<1>11. CASE n <= 1 /\ ~is_aligned(after, ppb) /\ j' = m /\ UNCHANGED pc
  <2>1. after # 0 /\ after = c + 1
    <3> HIDE DEF after, c
    <3> QED BY <1>6, <1>11
  <2> HIDE DEF after
  <2>2. m = [j EXCEPT !.head = after]
    BY <2>1 DEF move_head
  <2>3. j'.root = j.root /\ j'.epoch = j.epoch
    BY <1>4, <1>11, <2>2 DEF Journals
  <2>4. pc' \in Resuming /\ ~Resumes
    BY <1>1, <1>11 DEF Resuming, Resumes
  <2>5. saved' = saved
    BY <1>1, <2>4, PointKept
  <2>6. point' = point /\ home' = home
    BY <1>8, <2>5
  <2>7. SearchFollows'
    BY <1>1, <1>2, <1>11, <2>3, <2>5, <2>6 DEF SearchFollows
  <2> QED BY <1>1, <2>4, <2>5, <2>7, SearchGoesOn
<1> QED BY <1>5, <1>9, <1>10, <1>11

\* Every step keeps the synchronization point, and a restart comes back to it.
LEMMA NextFound ==
  ASSUME num_blocks >= 2, EPOCHS >= 2,
         Inv, OrderInv, OwedInv, BlockInv, BlankInv, mids = {}, FoundInv,
         [HNext]_hvars, fails' # fails => can_skip(j), NoRecovery, NoRecovery',
         GapsAreShort, SpareBlock'
  PROVE  FoundInv' /\ (Resumes => ComesBack \/ UNCHANGED hvars)
<1>1. Inv' /\ OrderInv'
  BY NextOwed
<1>2. CASE UNCHANGED hvars
  <2>1. UNCHANGED <<j, buf, pc, search, page, marked, saved>>
    BY <1>2 DEF hvars, vars
  <2>2. point' = point /\ home' = home
    BY <2>1 DEF point, home
  <2>3. OnFlash'
    BY <2>1, <2>2 DEF FoundInv, OnFlash, NothingFound, PointFound, is_cp
  <2>4. Running' = Running /\ Entered' = Entered
    BY <2>1 DEF Running, Entered
  <2>5. HeadFollows' = HeadFollows
    BY <2>1, <2>2, <2>4 DEF HeadFollows, is_cp
  <2>6. FirstKept' = FirstKept
    BY <2>1, <2>4 DEF FirstKept, is_cp
  <2>7. SearchFollows' = SearchFollows
    BY <2>1, <2>2 DEF SearchFollows, group_free, cp_free, dhara_nand_is_free
  <2> QED BY <1>2, <2>1, <2>3, <2>4, <2>5, <2>6, <2>7 DEF FoundInv
<1>3. CASE /\ \/ SkipBad \/ CopyUnreadable \/ EraseOk
              \/ EraseFails \/ ProgramFails \/ CheckpointFails
           /\ Observe
  <2>1. pc \in {"scan", "prog", "cp"}
    BY <1>3
    DEF SkipBad, CopyUnreadable, EraseOk, erasing, EraseFails, ProgramFails,
        CheckpointFails
  <2>2. ~Resumes
    BY <2>1 DEF Resumes
  <2> QED BY <1>1, <1>3, <2>2, WaitFound
<1>4. CASE PushMeta /\ Observe
  <2>1. ~Resumes
    BY <1>4 DEF PushMeta, ProgramOk, Resumes
  <2> QED BY <1>1, <1>4, <2>1, PushMetaFound
<1>5. ~DumpMeta
  BY DEF DumpMeta, NoRecovery
<1>6. CASE Checkpoint /\ Observe
  <2>1. ~Resumes
    BY <1>6 DEF Checkpoint, Resumes
  <2> QED BY <1>1, <1>6, <2>1, CheckpointFound
<1>7. CASE (ClientStep \/ Recover) /\ Observe
  <2>1. ~Resumes
    BY <1>7, IdleStep DEF Resumes
  <2> QED BY <1>7, <2>1, IdleFound
<1>8. CASE FindFirst /\ Observe
  BY <1>1, <1>8, FindFirstFound
<1>9. CASE FindLast /\ Observe
  BY <1>1, <1>9, FindLastFound
<1>10. CASE FindGroup /\ Observe
  BY <1>1, <1>10, FindGroupFound
<1>11. CASE FindHead /\ Observe
  BY <1>1, <1>11, FindHeadFound
<1>12. CASE Crash /\ Observe
  <2>1. ~Resumes
    BY <1>12 DEF Crash, Resumes
  <2> QED BY <1>12, <2>1, CrashFound
<1> QED
  BY <1>2, <1>3, <1>4, <1>5, <1>6, <1>7, <1>8, <1>9, <1>10, <1>11, <1>12
  DEF HNext, ClientStep

\* Nothing has been found on a blank chip.
LEMMA InitFound == HInit => FoundInv
<1> SUFFICES ASSUME HInit PROVE FoundInv
  OBVIOUS
<1>1. /\ pc = "resume" /\ page = [p \in Pages |-> Erased] /\ saved = NothingSaved
  BY DEF HInit, Init
<1>2. ~Running
  BY <1>1 DEF Running, Resuming
<1>3. \A q \in Pages : ~is_cp(q)
  BY <1>1 DEF is_cp, Erased
<1>4. OnFlash
  BY <1>1, <1>3 DEF OnFlash, NothingFound, NothingSaved
<1> QED BY <1>1, <1>2, <1>4 DEF FoundInv, FirstKept, SearchFollows

\* A restart comes back to the last synchronization point, however often power is
\* lost: as long as no block has to be recovered, the epochs can be told apart, a
\* usable block is left besides that of the synchronization point, and no more
\* blocks in a row are without a checkpoint than find_checkblock looks at.
THEOREM RestartsComeBack ==
  ASSUME num_blocks >= 2, EPOCHS >= 2
  PROVE  HSpec /\ FailuresSkip /\ []NoRecovery /\ []GapsAreShort /\ []SpareBlock
           => ResumeFindsCheckpoint
<1> DEFINE I == /\ Inv /\ OrderInv /\ OwedInv /\ BlockInv /\ BlankInv
                /\ IntactInv /\ FoundInv
           A == Resumes => \E s \in {saved} \cup mids :
                  /\ j'.root = s.root
                  /\ s.root # PAGE_NONE => buf'.cookie = s.cookie
                  /\ DOMAIN s.live \subseteq queue(j'.tail, j'.head)
                  /\ j'.tail = s.tail \/ align_eq(j'.head, s.tail, ppb)
<1>1. HInit => I
  BY InitBlock, InitFound
  DEF HInit, Init, BlankInv, Entered, Running, Resuming, IntactInv, NothingSaved, NoPages
<1>2. /\ I /\ NoRecovery /\ NoRecovery' /\ GapsAreShort /\ SpareBlock' /\ [HNext]_hvars
      /\ [fails' # fails => can_skip(j)]_hvars
      => I' /\ [A]_hvars
  <2> SUFFICES ASSUME I, NoRecovery, NoRecovery', GapsAreShort, SpareBlock',
                      [HNext]_hvars, [fails' # fails => can_skip(j)]_hvars
               PROVE  I' /\ [A]_hvars
    OBVIOUS
  <2>1. fails' # fails => can_skip(j)
    BY DEF hvars, vars
  <2>2. Inv' /\ OrderInv' /\ OwedInv' /\ BlockInv' /\ BlankInv' /\ IntactInv'
    BY <2>1, NextBlockInv, NextBlank, NextIntact
  <2>3. FoundInv' /\ (Resumes => ComesBack \/ UNCHANGED hvars)
    BY <2>1, NextFound DEF IntactInv
  <2>4. ComesBack => A
    BY DEF ComesBack
  <2> QED BY <2>2, <2>3, <2>4
<1>3. ResumeFindsCheckpoint <=> [][A]_hvars
  BY DEF ResumeFindsCheckpoint
<1> HIDE DEF I, A
<1> QED BY <1>1, <1>2, <1>3, PTL DEF HSpec, FailuresSkip

=============================================================================
