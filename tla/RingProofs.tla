----------------------------- MODULE RingProofs -----------------------------
(***************************************************************************)
(* Pages and the ring they form.                                           *)
(*                                                                         *)
(* The first part is about page numbers, for every geometry that satisfies *)
(* GeometryAssumption.  The provers do not divide by a symbolic number     *)
(* unaided, so every fact goes back to a page's quotient and remainder.    *)
(*                                                                         *)
(* The second part is about the order of tail, page and head in the ring   *)
(* (ring_distance, queue), about what moving one of them keeps of that     *)
(* order, and about the number of user pages in a queue.  Blocks and       *)
(* groups are multiples of symbolic sizes: lemmas give each page the first *)
(* page of its block (block_start) and the checkpoint page of its group,   *)
(* and say that two blocks or groups are equal or disjoint; what follows   *)
(* is linear in these numbers.                                             *)
(***************************************************************************)
EXTENDS JournalOps, FiniteSetTheorems, FunctionTheorems, TLAPS

-----------------------------------------------------------------------------
(* Division                                                                *)

\* Division with remainder, as is_aligned and align_eq use it.
LEMMA DivMod ==
  ASSUME NEW p \in Nat, NEW n \in Nat \ {0}
  PROVE  /\ p \div n \in Nat
         /\ p % n \in 0 .. (n - 1)
         /\ p = ((p \div n) * n) + (p % n)
  OBVIOUS

\* Quotient and remainder are unique.
LEMMA ModUnique ==
  ASSUME NEW q \in Nat, NEW n \in Nat \ {0}, NEW r \in 0 .. (n - 1)
  PROVE  ((q * n) + r) % n = r /\ ((q * n) + r) \div n = q
  OBVIOUS

\* A multiple below a multiple is smaller by one step at least.
LEMMA NextMultiple ==
  ASSUME NEW a \in Nat, NEW b \in Nat, NEW n \in Nat \ {0}, a * n < b * n
  PROVE  a < b /\ (a * n) + n <= b * n
<1>1. a < b
  OBVIOUS
<1>2. b - a - 1 \in Nat
  BY <1>1
<1>3. (b - a - 1) * n >= 0
  BY <1>2
<1>4. (b - a - 1) * n = (b * n) - (a * n) - n
  BY <1>2
<1>5. a * n \in Nat /\ b * n \in Nat
  OBVIOUS
<1> QED
  BY <1>1, <1>3, <1>4, <1>5

-----------------------------------------------------------------------------
(* Pages, groups and blocks                                                *)

\* A block and the chip are whole numbers of checkpoint groups.
LEMMA Sizes ==
  /\ ppc \in Nat /\ ppc >= 4
  /\ ppb \in Nat \ {0} /\ ppb >= ppc /\ ppb = cpb * ppc
  /\ num_blocks * cpb \in Nat
  /\ chip_size \in Nat /\ chip_size > 0
  /\ chip_size = (num_blocks * cpb) * ppc
  /\ chip_size = num_blocks * ppb
<1>1. cpb \in Nat /\ cpb >= 1 /\ num_blocks \in Nat /\ num_blocks >= 1
      /\ ppc \in Nat /\ ppc >= 4
  BY GeometryAssumption
<1>2. cpb * ppc >= ppc
  BY <1>1
<1>3. ppb \in Nat \ {0} /\ ppb >= ppc
  BY <1>1, <1>2 DEF ppb
<1>4. num_blocks * ppb >= ppb
  BY <1>1, <1>3
<1>5. num_blocks * (cpb * ppc) = (num_blocks * cpb) * ppc
  BY <1>1
<1> QED
  BY <1>1, <1>3, <1>4, <1>5 DEF ppb, chip_size

\* A page given by its group and its offset is a user page exactly when it is
\* not the last of the group.
LEMMA GroupPage ==
  ASSUME NEW g \in Nat, NEW r \in 0 .. (ppc - 2), (g * ppc) + r < chip_size
  PROVE  (g * ppc) + r \in UPages
<1>1. ppc \in Nat /\ ppc >= 4 /\ chip_size \in Nat
  BY Sizes
<1>2. g * ppc \in Nat
  BY <1>1
<1>3. r + 1 \in 0 .. (ppc - 1) /\ r + 1 # 0
  BY <1>1
<1>4. ((g * ppc) + (r + 1)) % ppc = r + 1
  BY <1>1, <1>3, ModUnique
<1>5. ((g * ppc) + r) + 1 = (g * ppc) + (r + 1)
  BY <1>2, <1>3
<1> QED
  BY <1>1, <1>2, <1>3, <1>4, <1>5 DEF UPages, Pages, is_aligned

\* The offset of a user page in its group, and the page behind it.
LEMMA UPageOffset ==
  ASSUME NEW p \in UPages
  PROVE  /\ p \in Nat /\ p < chip_size
         /\ p % ppc \in 0 .. (ppc - 2)
         /\ p \div ppc \in Nat
         /\ p = ((p \div ppc) * ppc) + (p % ppc)
         /\ ((p \div ppc) * ppc) + ppc <= chip_size
         /\ p + 1 < chip_size
<1>1. ppc \in Nat \ {0} /\ ppc >= 4 /\ chip_size \in Nat
      /\ num_blocks * cpb \in Nat /\ chip_size = (num_blocks * cpb) * ppc
  BY Sizes
<1>2. p \in Nat /\ p < chip_size /\ (p + 1) % ppc # 0
  BY <1>1 DEF UPages, Pages, is_aligned
<1> DEFINE q == p \div ppc
           r == p % ppc
<1>3. q \in Nat /\ r \in 0 .. (ppc - 1) /\ p = (q * ppc) + r
  BY <1>1, <1>2, DivMod
<1> HIDE DEF q, r
<1>4. q * ppc \in Nat /\ (q + 1) * ppc = (q * ppc) + ppc
  BY <1>1, <1>3
<1>5. r # ppc - 1
  <2> SUFFICES ASSUME r = ppc - 1 PROVE FALSE
    OBVIOUS
  <2>1. p + 1 = ((q + 1) * ppc) + 0
    BY <1>1, <1>3, <1>4
  <2>2. q + 1 \in Nat /\ 0 \in 0 .. (ppc - 1)
    BY <1>1, <1>3
  <2>3. (((q + 1) * ppc) + 0) % ppc = 0
    BY <1>1, <2>2, ModUnique
  <2> QED
    BY <2>1, <2>3, <1>2
<1>6. q * ppc < (num_blocks * cpb) * ppc
  BY <1>1, <1>2, <1>3, <1>4
<1>7. (q * ppc) + ppc <= (num_blocks * cpb) * ppc
  BY <1>6, <1>1, <1>3, NextMultiple
<1> QED
  BY <1>1, <1>2, <1>3, <1>4, <1>5, <1>7 DEF q, r

\* The page a step to the next user page lands on.
LEMMA NextUPage ==
  ASSUME NEW p \in UPages
  PROVE  next_upage(p) \in UPages
<1>1. ppc \in Nat \ {0} /\ ppc >= 4 /\ chip_size \in Nat /\ chip_size > 0
  BY Sizes
<1> DEFINE q == p \div ppc
           r == p % ppc
<1>2. p = (q * ppc) + r /\ q \in Nat /\ r \in 0 .. (ppc - 2) /\ p \in Nat
  BY UPageOffset
<1> HIDE DEF q, r
<1>3. q * ppc \in Nat /\ (q + 1) * ppc = (q * ppc) + ppc /\ q + 1 \in Nat
  BY <1>1, <1>2
<1>4. 0 \in UPages
  BY <1>1, GroupPage, 0 * ppc = 0, 0 \in 0 .. (ppc - 2), 0 \in Nat
<1>5. CASE r = ppc - 2
  <2>1. p + 2 = ((q + 1) * ppc) + 0 /\ 0 \in 0 .. (ppc - 1)
    BY <1>1, <1>2, <1>3, <1>5
  <2>2. (p + 2) % ppc = 0
    BY <2>1, <1>1, <1>3, ModUnique
  <2>3. p + 2 < chip_size => p + 2 \in UPages
    BY <2>1, <1>1, <1>3, GroupPage, 0 \in 0 .. (ppc - 2)
  <2> QED
    BY <2>2, <2>3, <1>1, <1>2, <1>4 DEF next_upage, is_aligned
<1>6. CASE r # ppc - 2
  <2>1. r + 2 \in 0 .. (ppc - 1) /\ r + 1 \in 0 .. (ppc - 2) /\ r + 2 # 0
    BY <1>1, <1>2, <1>6
  <2>2. p + 2 = (q * ppc) + (r + 2) /\ p + 1 = (q * ppc) + (r + 1)
    BY <1>2, <1>3
  <2>3. (p + 2) % ppc = r + 2
    <3>1. ((q * ppc) + (r + 2)) % ppc = r + 2
      BY <2>1, <1>1, <1>2, ModUnique
    <3> QED
      BY <3>1, <2>2
  <2>4. p + 1 < chip_size => p + 1 \in UPages
    BY <2>1, <2>2, <1>2, GroupPage
  <2> QED
    BY <2>1, <2>3, <2>4, <1>1, <1>2, <1>4 DEF next_upage, is_aligned
<1> QED
  BY <1>5, <1>6

\* A page beyond the chip is followed by page 0.
LEMMA NextUPageOutside ==
  ASSUME NEW p \in Nat, p >= chip_size
  PROVE  next_upage(p) \in UPages
<1>1. ppc \in Nat /\ ppc >= 4 /\ chip_size \in Nat /\ chip_size > 0
  BY Sizes
<1>2. 0 \in UPages
  BY <1>1, GroupPage, 0 * ppc = 0, 0 \in 0 .. (ppc - 2), 0 \in Nat
<1> QED
  BY <1>1, <1>2 DEF next_upage

\* A page in a block lies in the chip; block numbers, and the successor of a
\* block, are those of blocks of the chip.
LEMMA BlockPage ==
  ASSUME NEW b \in Blocks, NEW i \in 0 .. (ppb - 1)
  PROVE  first_page(b) + i \in Pages /\ block_of(first_page(b) + i) = b
<1>1. ppb \in Nat \ {0} /\ chip_size \in Nat /\ chip_size = num_blocks * ppb
      /\ num_blocks \in Nat /\ b \in Nat /\ b < num_blocks
  BY Sizes, GeometryAssumption DEF Blocks
<1>2. b * ppb \in Nat /\ b * ppb < num_blocks * ppb
  BY <1>1
<1>3. (b * ppb) + ppb <= num_blocks * ppb
  BY <1>1, <1>2, NextMultiple
<1>4. ((b * ppb) + i) \div ppb = b
  BY <1>1, ModUnique
<1> QED
  BY <1>1, <1>2, <1>3, <1>4 DEF first_page, block_of, Pages

\* The block of a page of the chip is a block of the chip.
LEMMA BlockOf ==
  ASSUME NEW p \in Pages
  PROVE  block_of(p) \in Blocks
<1>1. ppb \in Nat \ {0} /\ chip_size \in Nat /\ chip_size = num_blocks * ppb
      /\ num_blocks \in Nat /\ p \in Nat /\ p < chip_size
  BY Sizes, GeometryAssumption DEF Pages
<1> DEFINE q == p \div ppb
           r == p % ppb
<1>2. q \in Nat /\ r \in 0 .. (ppb - 1) /\ p = (q * ppb) + r
  BY <1>1, DivMod
<1> HIDE DEF q, r
<1>3. q * ppb < num_blocks * ppb
  <2>1. q * ppb \in Nat
    BY <1>1, <1>2
  <2> QED
    BY <2>1, <1>1, <1>2
<1>4. q < num_blocks
  BY <1>1, <1>2, <1>3, NextMultiple
<1> QED
  BY <1>1, <1>2, <1>4 DEF q, block_of, Blocks

\* The successor of a block is a block.
LEMMA NextBlock ==
  ASSUME NEW b \in Blocks
  PROVE  next_block(b) \in Blocks
  BY GeometryAssumption DEF next_block, Blocks

\* Group g of a block: a user page at each offset but the last.
LEMMA BlockGroupPage ==
  ASSUME NEW b \in Blocks, NEW g \in 0 .. (cpb - 1), NEW r \in 0 .. (ppc - 2)
  PROVE  first_page(b) + (g * ppc) + r \in UPages
<1>1. /\ ppc \in Nat \ {0} /\ ppc >= 4 /\ cpb \in Nat /\ b \in Nat /\ g \in Nat
      /\ ppb = cpb * ppc /\ ppb \in Nat
  BY Sizes, GeometryAssumption DEF Blocks
<1>2. g * ppc < cpb * ppc
  BY <1>1
<1>3. (g * ppc) + ppc <= cpb * ppc
  BY <1>1, <1>2, NextMultiple
<1>4. g * ppc \in Nat /\ (g * ppc) + r \in 0 .. (ppb - 1)
  BY <1>1, <1>3
<1>5. first_page(b) + ((g * ppc) + r) \in Pages
  BY <1>4, BlockPage
<1>6. b * cpb \in Nat /\ (b * cpb) + g \in Nat /\ b * ppb \in Nat
  BY <1>1
<1>7. b * ppb = (b * cpb) * ppc
  BY <1>1
<1>8. ((b * cpb) + g) * ppc = ((b * cpb) * ppc) + (g * ppc)
  BY <1>1, <1>6
<1>9. first_page(b) + (g * ppc) + r = (((b * cpb) + g) * ppc) + r
  BY <1>1, <1>4, <1>6, <1>7, <1>8 DEF first_page
<1>10. (((b * cpb) + g) * ppc) + r < chip_size
  BY <1>5, <1>9, <1>1, <1>4, <1>6, Sizes DEF Pages, first_page
<1> QED
  BY <1>6, <1>9, <1>10, GroupPage

\* The first page of a block is a user page.
LEMMA FirstPage ==
  ASSUME NEW b \in Blocks
  PROVE  first_page(b) \in UPages
<1>1. 0 \in 0 .. (cpb - 1) /\ 0 \in 0 .. (ppc - 2) /\ 0 * ppc = 0
  BY Sizes, GeometryAssumption
<1>2. first_page(b) + (0 * ppc) + 0 \in UPages
  BY <1>1, BlockGroupPage
<1>3. first_page(b) \in Int
  BY Sizes DEF first_page, Blocks
<1> QED
  BY <1>1, <1>2, <1>3

\* Rounding a user page down to its group or block.
LEMMA AlignDownGroup ==
  ASSUME NEW p \in UPages
  PROVE  /\ align_down(p, ppc) = (p \div ppc) * ppc
         /\ align_down(p, ppc) \in UPages
         /\ align_down(p, ppc) + ppc <= chip_size
<1>1. ppc \in Nat \ {0} /\ ppc >= 4 /\ chip_size \in Nat /\ 0 \in 0 .. (ppc - 2)
  BY Sizes
<1> DEFINE q == p \div ppc
           r == p % ppc
<1>2. /\ p = (q * ppc) + r /\ q \in Nat /\ r \in 0 .. (ppc - 2)
      /\ (q * ppc) + ppc <= chip_size
  BY UPageOffset
<1>3. align_down(p, ppc) = p - r
  BY DEF align_down
<1> HIDE DEF q, r
<1>4. q * ppc \in Nat
  BY <1>1, <1>2
<1>5. p - r = q * ppc
  BY <1>1, <1>2, <1>4
<1>6. (q * ppc) + 0 < chip_size
  BY <1>1, <1>2, <1>4
<1>7. (q * ppc) + 0 \in UPages
  BY <1>1, <1>2, <1>6, GroupPage
<1> QED
  BY <1>2, <1>3, <1>4, <1>5, <1>7 DEF q

\* Aligning a page down to its block gives the first page of the block.
LEMMA AlignDownBlock ==
  ASSUME NEW p \in Pages
  PROVE  align_down(p, ppb) = first_page(block_of(p))
<1>1. ppb \in Nat \ {0} /\ p \in Nat
  BY Sizes DEF Pages
<1>2. (p \div ppb) * ppb = p - (p % ppb)
  <2> DEFINE q == p \div ppb
             r == p % ppb
  <2>1. q \in Nat /\ r \in 0 .. (ppb - 1) /\ p = (q * ppb) + r
    BY <1>1, DivMod
  <2> HIDE DEF q, r
  <2>2. q * ppb \in Nat
    BY <1>1, <2>1
  <2>3. q * ppb = p - r
    BY <2>1, <2>2, <1>1
  <2> QED
    BY <2>3 DEF q, r
<1> QED
  BY <1>2 DEF align_down, first_page, block_of

\* PAGE_NONE is no page of the chip, and neither is the first page of the
\* block it would be in.
LEMMA PageNone ==
  /\ PAGE_NONE \in Nat /\ PAGE_NONE \notin Pages /\ PAGE_NONE \notin UPages
  /\ align_down(PAGE_NONE, ppb) \in Nat
  /\ align_down(PAGE_NONE, ppb) >= chip_size
  /\ align_down(PAGE_NONE, ppb) # PAGE_NONE
<1>1. /\ ppb \in Nat \ {0} /\ ppb >= 4 /\ chip_size \in Nat
      /\ num_blocks \in Nat /\ chip_size = num_blocks * ppb
  BY Sizes, GeometryAssumption
<1>2. PAGE_NONE \in Nat /\ PAGE_NONE >= chip_size /\ (PAGE_NONE + 1) % ppb = 0
  BY GeometryAssumption
<1> DEFINE q == (PAGE_NONE + 1) \div ppb
<1>3. q \in Nat /\ PAGE_NONE + 1 = q * ppb
  <2> DEFINE r == (PAGE_NONE + 1) % ppb
  <2>1. PAGE_NONE + 1 \in Nat
    BY <1>2
  <2>2. q \in Nat /\ PAGE_NONE + 1 = (q * ppb) + r
    BY <1>1, <2>1, DivMod
  <2>3. r = 0
    BY <1>2
  <2> HIDE DEF q, r
  <2>4. q * ppb \in Nat
    BY <1>1, <2>2
  <2> QED
    BY <2>2, <2>3, <2>4
<1> HIDE DEF q
<1>4. num_blocks * ppb < q * ppb
  BY <1>1, <1>2, <1>3
<1>5. num_blocks < q
  BY <1>1, <1>3, <1>4, NextMultiple
<1>6. /\ q - 1 \in Nat /\ (q - 1) * ppb = (q * ppb) - ppb
      /\ ppb - 1 \in 0 .. (ppb - 1)
  BY <1>1, <1>3, <1>5
<1>7. PAGE_NONE = ((q - 1) * ppb) + (ppb - 1)
  BY <1>1, <1>2, <1>3, <1>6
<1>8. (((q - 1) * ppb) + (ppb - 1)) % ppb = ppb - 1
  BY <1>1, <1>6, ModUnique
<1>9. PAGE_NONE % ppb = ppb - 1
  BY <1>7, <1>8
<1>10. align_down(PAGE_NONE, ppb) = PAGE_NONE - (ppb - 1)
  BY <1>9 DEF align_down
<1>11. (num_blocks * ppb) + ppb <= q * ppb
  BY <1>1, <1>3, <1>4, NextMultiple
<1> QED
  BY <1>1, <1>2, <1>3, <1>10, <1>11 DEF Pages, UPages

-----------------------------------------------------------------------------
(* The ring                                                                *)

block_start(p) == first_page(block_of(p))

-----------------------------------------------------------------------------
(* Blocks and groups as intervals                                          *)

\* Two blocks are equal or disjoint.
LEMMA BlocksApart ==
  ASSUME NEW a \in Blocks, NEW b \in Blocks
  PROVE  /\ first_page(a) \in Nat /\ first_page(a) + ppb <= chip_size
         /\ a < b => first_page(a) + ppb <= first_page(b)
         /\ a = b <=> first_page(a) = first_page(b)
<1>1. /\ ppb \in Nat \ {0} /\ chip_size = num_blocks * ppb
      /\ num_blocks \in Nat /\ a \in Nat /\ b \in Nat
      /\ a < num_blocks /\ b < num_blocks
  BY Sizes, GeometryAssumption DEF Blocks
<1>2. /\ a * ppb \in Nat /\ b * ppb \in Nat /\ (a + 1) * ppb = (a * ppb) + ppb
      /\ (b + 1) * ppb = (b * ppb) + ppb
  BY <1>1
<1>3. ASSUME NEW x \in Nat, NEW y \in Nat, x < y PROVE (x * ppb) + ppb <= y * ppb
  <2>1. y - x - 1 \in Nat
    BY <1>3
  <2>2. (y - x - 1) * ppb >= 0
    BY <2>1, <1>1
  <2>3. (y - x - 1) * ppb = (y * ppb) - (x * ppb) - ppb
    BY <2>1, <1>1
  <2>4. x * ppb \in Nat /\ y * ppb \in Nat
    BY <1>1
  <2> QED BY <2>2, <2>3, <2>4, <1>1
<1>4. a < b => (a * ppb) + ppb <= b * ppb
  BY <1>1, <1>3
<1>5. b < a => (b * ppb) + ppb <= a * ppb
  BY <1>1, <1>3
<1>6. (a * ppb) + ppb <= num_blocks * ppb
  BY <1>1, <1>3
<1> QED BY <1>1, <1>2, <1>4, <1>5, <1>6 DEF first_page

\* The block of a page, and the block behind it.
LEMMA BlockBounds ==
  ASSUME NEW p \in Pages
  PROVE  /\ p \in Nat /\ p < chip_size /\ block_of(p) \in Blocks
         /\ block_start(p) \in Nat /\ block_start(p) <= p
         /\ p < block_start(p) + ppb /\ block_start(p) + ppb <= chip_size
         /\ block_start(p) \in UPages /\ block_start(p) \in Pages
         /\ block_of(block_start(p)) = block_of(p)
         /\ first_page(next_block(block_of(p))) =
              IF block_start(p) + ppb >= chip_size THEN 0 ELSE block_start(p) + ppb
         /\ first_page(next_block(block_of(p))) \in UPages
         /\ first_page(next_block(block_of(p))) \in Pages
         /\ next_block(block_of(p)) \in Blocks
         /\ block_of(first_page(next_block(block_of(p)))) = next_block(block_of(p))
<1>1. /\ ppb \in Nat \ {0} /\ chip_size \in Nat /\ p \in Nat /\ p < chip_size
      /\ num_blocks \in Nat /\ chip_size = num_blocks * ppb
  BY Sizes, GeometryAssumption DEF Pages
<1> DEFINE b == p \div ppb
           r == p % ppb
<1>2. b \in Nat /\ r \in 0 .. (ppb - 1) /\ p = (b * ppb) + r
  BY <1>1, DivMod
<1>3. b \in Blocks /\ block_of(p) = b /\ block_start(p) = b * ppb
  BY BlockOf DEF block_of, block_start, first_page
<1> HIDE DEF b, r
<1>4. /\ b * ppb \in Nat /\ b * ppb <= p /\ p < (b * ppb) + ppb
      /\ (b * ppb) + ppb <= chip_size
  BY <1>1, <1>2, <1>3, BlocksApart DEF first_page
<1>5. first_page(next_block(b)) = IF (b * ppb) + ppb >= chip_size THEN 0
                                  ELSE (b * ppb) + ppb
  <2>1. (b + 1) * ppb = (b * ppb) + ppb
    BY <1>1, <1>2
  <2>2. CASE b + 1 >= num_blocks
    <3>1. b + 1 = num_blocks
      BY <2>2, <1>3, <1>1 DEF Blocks
    <3>2. (b * ppb) + ppb = chip_size
      BY <3>1, <2>1, <1>1
    <3>3. next_block(b) = 0 /\ 0 * ppb = 0
      BY <2>2, <1>1 DEF next_block
    <3> QED BY <3>2, <3>3, <1>1 DEF first_page
  <2>3. CASE ~(b + 1 >= num_blocks)
    <3>1. b + 1 \in Blocks /\ next_block(b) = b + 1
      BY <2>3, <1>2, <1>1 DEF Blocks, next_block
    <3>2. first_page(b + 1) + ppb <= chip_size
      BY <3>1, BlocksApart
    <3> QED BY <3>1, <3>2, <2>1, <1>1, <1>4 DEF first_page
  <2> QED BY <2>2, <2>3
<1>6. next_block(b) \in Blocks /\ b \in Blocks
  BY <1>3, NextBlock
<1>7. /\ first_page(b) \in UPages /\ first_page(next_block(b)) \in UPages
  BY <1>6, FirstPage
<1>8. \A c \in Blocks : block_of(first_page(c)) = c
  <2> TAKE c \in Blocks
  <2>1. first_page(c) + 0 \in Pages /\ block_of(first_page(c) + 0) = c
    BY <1>1, BlockPage
  <2>2. first_page(c) \in Nat
    BY BlocksApart
  <2> QED BY <2>1, <2>2
<1> QED
  BY <1>1, <1>3, <1>4, <1>5, <1>6, <1>7, <1>8 DEF UPages, block_start

\* Two pages are in the same block or in disjoint ones.
LEMMA SameBlock ==
  ASSUME NEW p \in Pages, NEW q \in Pages
  PROVE  /\ block_of(p) = block_of(q) <=> block_start(p) = block_start(q)
         /\ \/ block_start(p) = block_start(q)
            \/ block_start(p) + ppb <= block_start(q)
            \/ block_start(q) + ppb <= block_start(p)
         /\ align_eq(p, q, ppb) <=> block_of(p) = block_of(q)
<1>1. block_of(p) \in Blocks /\ block_of(q) \in Blocks
  BY BlockBounds
<1>2. block_of(p) \in Int /\ block_of(q) \in Int
  BY <1>1 DEF Blocks
<1>3. /\ block_of(p) = block_of(q) <=> block_start(p) = block_start(q)
      /\ block_of(p) < block_of(q) => block_start(p) + ppb <= block_start(q)
      /\ block_of(q) < block_of(p) => block_start(q) + ppb <= block_start(p)
  BY <1>1, BlocksApart DEF block_start
<1> QED BY <1>2, <1>3 DEF align_eq, block_of

\* A page is block-aligned when it is the first page of its block.
LEMMA AlignedBlock ==
  ASSUME NEW p \in Pages
  PROVE  is_aligned(p, ppb) <=> p = block_start(p)
<1>1. ppb \in Nat \ {0} /\ p \in Nat
  BY Sizes DEF Pages
<1> DEFINE b == p \div ppb
           r == p % ppb
<1>2. b \in Nat /\ r \in 0 .. (ppb - 1) /\ p = (b * ppb) + r
  BY <1>1, DivMod
<1>3. (is_aligned(p, ppb) <=> r = 0) /\ block_start(p) = b * ppb
  BY DEF is_aligned, block_start, first_page, block_of
<1> HIDE DEF b, r
<1>4. b * ppb \in Nat
  BY <1>1, <1>2
<1> QED BY <1>2, <1>3, <1>4

\* The checkpoint pages, the last pages of their groups.
CpPages == {c \in Pages : is_aligned(c + 1, ppc)}

\* A checkpoint page by its group.
LEMMA CpPage ==
  ASSUME NEW c \in CpPages
  PROVE  /\ c \in Pages /\ c \in Nat /\ c < chip_size
         /\ \E g \in Nat : c + 1 = (g + 1) * ppc /\ c + 1 = (g * ppc) + ppc
                           /\ g * ppc \in Nat
         /\ c >= ppc - 1
<1>1. ppc \in Nat \ {0} /\ ppc >= 4 /\ chip_size \in Nat /\ c \in Nat
      /\ c < chip_size /\ c \in Pages /\ (c + 1) % ppc = 0
  BY Sizes DEF CpPages, Pages, is_aligned
<1> DEFINE k == (c + 1) \div ppc
           r == (c + 1) % ppc
<1>2. k \in Nat /\ c + 1 = (k * ppc) + r /\ r = 0
  <2>1. c + 1 \in Nat
    BY <1>1
  <2>2. k \in Nat /\ c + 1 = (k * ppc) + r
    BY <1>1, <2>1, DivMod
  <2> QED BY <2>2, <1>1
<1> HIDE DEF k, r
<1>3. k # 0
  BY <1>1, <1>2
<1>4. k - 1 \in Nat /\ (k - 1) * ppc \in Nat /\ k * ppc = ((k - 1) * ppc) + ppc
      /\ (k - 1) + 1 = k
  BY <1>1, <1>2, <1>3
<1>5. \E g \in Nat : c + 1 = (g + 1) * ppc /\ c + 1 = (g * ppc) + ppc
                    /\ g * ppc \in Nat
  <2> DEFINE g == k - 1
  <2>1. k = g + 1 /\ g \in Nat /\ c + 1 = k * ppc
    BY <1>1, <1>2, <1>4
  <2>2. k * ppc = (g * ppc) + ppc /\ g * ppc \in Nat
    BY <1>4
  <2> HIDE DEF g
  <2> QED BY <2>1, <2>2
<1>6. c >= ppc - 1
  BY <1>1, <1>5
<1> QED BY <1>1, <1>5, <1>6

\* The group of a user page and the user page behind it.
LEMMA GroupBounds ==
  ASSUME NEW u \in UPages
  PROVE  /\ u \in Pages /\ cp_page(u) \in CpPages /\ cp_page(u) \in Pages
         /\ u < cp_page(u) /\ cp_page(u) - ppc < u
         /\ block_of(cp_page(u)) = block_of(u)
         /\ block_start(u) <= cp_page(u) - (ppc - 1)
         /\ is_aligned(u + 2, ppc) <=> u + 1 = cp_page(u)
         /\ next_upage(u) = IF u + 1 # cp_page(u) THEN u + 1
                            ELSE IF u + 2 >= chip_size THEN 0 ELSE u + 2
<1>1. /\ ppc \in Nat \ {0} /\ ppc >= 4 /\ chip_size \in Nat /\ ppb = cpb * ppc
      /\ ppb \in Nat \ {0} /\ cpb \in Nat
  BY Sizes, GeometryAssumption
<1>2. u \in Pages /\ u \in Nat
  BY DEF UPages, Pages
<1> DEFINE q == u \div ppc
           k == u % ppc
           b == u \div ppb
           r == u % ppb
           i == r \div ppc
           m == r % ppc
<1>3. /\ q \in Nat /\ k \in 0 .. (ppc - 2) /\ u = (q * ppc) + k
      /\ (q * ppc) + ppc <= chip_size
  BY UPageOffset
<1>4. b \in Nat /\ r \in 0 .. (ppb - 1) /\ u = (b * ppb) + r /\ r \in Nat
  <2>1. b \in Nat /\ r \in 0 .. (ppb - 1) /\ u = (b * ppb) + r
    BY <1>1, <1>2, DivMod
  <2> HIDE DEF b, r
  <2> QED BY <2>1, <1>1
<1>5. b \in Blocks /\ block_of(u) = b /\ block_start(u) = b * ppb
  BY <1>2, BlockOf DEF block_of, block_start, first_page
<1>6. cp_page(u) = (u - k) + (ppc - 1)
  BY DEF cp_page, align_down
<1> HIDE DEF q, k, b, r
<1>7. i \in Nat /\ m \in 0 .. (ppc - 1) /\ r = (i * ppc) + m
  BY <1>1, <1>4, DivMod
<1> HIDE DEF i, m
<1>8. q * ppc \in Nat /\ (q + 1) * ppc = (q * ppc) + ppc /\ q + 1 \in Nat
  BY <1>1, <1>3
<1>9. cp_page(u) = (q * ppc) + (ppc - 1)
  BY <1>1, <1>2, <1>3, <1>6, <1>8
<1>10. cp_page(u) \in Pages /\ cp_page(u) \in CpPages
  <2>1. cp_page(u) + 1 = ((q + 1) * ppc) + 0 /\ 0 \in 0 .. (ppc - 1)
    BY <1>1, <1>8, <1>9
  <2>2. (cp_page(u) + 1) % ppc = 0
    BY <2>1, <1>1, <1>8, ModUnique
  <2>3. cp_page(u) \in Pages
    BY <1>1, <1>3, <1>8, <1>9 DEF Pages
  <2> QED BY <2>2, <2>3 DEF CpPages, is_aligned
<1>11. q = (b * cpb) + i /\ k = m
  <2>1. b * cpb \in Nat /\ (b * cpb) + i \in Nat /\ i * ppc \in Nat
    BY <1>1, <1>4, <1>7
  <2>2. b * ppb = (b * cpb) * ppc
    BY <1>1, <1>4
  <2>3. ((b * cpb) + i) * ppc = ((b * cpb) * ppc) + (i * ppc)
    BY <1>1, <2>1, <1>7
  <2>4. u = (((b * cpb) + i) * ppc) + m
    BY <1>4, <1>7, <2>1, <2>2, <2>3, <1>1
  <2>5. u \div ppc = (b * cpb) + i /\ u % ppc = m
    BY <2>4, <2>1, <1>7, <1>1, ModUnique
  <2> QED BY <2>5 DEF q, k
<1>12. q * ppc = (b * ppb) + (i * ppc) /\ i * ppc \in Nat /\ b * ppb \in Nat
  <2>1. b * cpb \in Nat /\ i * ppc \in Nat /\ b * ppb \in Nat
    BY <1>1, <1>4, <1>7
  <2>2. b * ppb = (b * cpb) * ppc
    BY <1>1, <1>4
  <2>3. ((b * cpb) + i) * ppc = ((b * cpb) * ppc) + (i * ppc)
    BY <1>1, <2>1, <1>7
  <2> QED BY <1>11, <2>1, <2>2, <2>3
<1>13. (i * ppc) + ppc <= ppb
  <2>1. i * ppc < cpb * ppc
    BY <1>1, <1>4, <1>7, <1>12
  <2> QED BY <2>1, <1>1, <1>7, NextMultiple
<1>14. block_of(cp_page(u)) = b
  <2>1. (i * ppc) + (ppc - 1) \in 0 .. (ppb - 1)
    BY <1>1, <1>12, <1>13
  <2>2. cp_page(u) = first_page(b) + ((i * ppc) + (ppc - 1))
    BY <1>1, <1>9, <1>12 DEF first_page
  <2> QED BY <2>1, <2>2, <1>5, BlockPage
<1>15. is_aligned(u + 2, ppc) <=> u + 1 = cp_page(u)
  <2>1. CASE k = ppc - 2
    <3>1. u + 2 = ((q + 1) * ppc) + 0 /\ 0 \in 0 .. (ppc - 1)
      BY <2>1, <1>1, <1>3, <1>8
    <3>2. (u + 2) % ppc = 0
      BY <3>1, <1>1, <1>8, ModUnique
    <3> QED BY <3>2, <2>1, <1>1, <1>3, <1>8, <1>9 DEF is_aligned
  <2>2. CASE k # ppc - 2
    <3>1. k + 2 \in 0 .. (ppc - 1) /\ k + 2 # 0 /\ u + 2 = (q * ppc) + (k + 2)
      BY <2>2, <1>1, <1>3, <1>8
    <3>2. (u + 2) % ppc = k + 2
      <4> DEFINE n == k + 2
      <4>1. n \in 0 .. (ppc - 1) /\ u + 2 = (q * ppc) + n
        BY <3>1
      <4> HIDE DEF n
      <4>2. ((q * ppc) + n) % ppc = n
        BY <4>1, <1>1, <1>3, ModUnique
      <4> QED BY <4>1, <4>2 DEF n
    <3> QED BY <3>1, <3>2, <2>2, <1>1, <1>3, <1>8, <1>9 DEF is_aligned
  <2> QED BY <2>1, <2>2
<1>16. next_upage(u) = IF u + 1 # cp_page(u) THEN u + 1
                       ELSE IF u + 2 >= chip_size THEN 0 ELSE u + 2
  BY <1>15, <1>1, <1>2, UPageOffset DEF next_upage
<1> QED
  BY <1>1, <1>2, <1>3, <1>5, <1>8, <1>9, <1>10, <1>12, <1>14, <1>15, <1>16

\* A checkpoint page closes the group of the user page before it.
LEMMA CpOwner ==
  ASSUME NEW c \in CpPages
  PROVE  c - 1 \in UPages /\ cp_page(c - 1) = c /\ block_of(c - 1) = block_of(c)
         /\ is_aligned((c - 1) + 2, ppc)
<1>1. PICK g \in Nat : c + 1 = (g + 1) * ppc /\ c + 1 = (g * ppc) + ppc
                       /\ g * ppc \in Nat
  BY CpPage
<1>2. ppc \in Nat \ {0} /\ ppc >= 4 /\ c \in Nat /\ c < chip_size /\ chip_size \in Nat
  BY CpPage, Sizes
<1>3. c - 1 = (g * ppc) + (ppc - 2) /\ ppc - 2 \in 0 .. (ppc - 2)
      /\ ppc - 2 \in 0 .. (ppc - 1)
  BY <1>1, <1>2
<1>4. c - 1 \in UPages
  <2>1. (g * ppc) + (ppc - 2) < chip_size
    BY <1>1, <1>2, <1>3
  <2>2. (g * ppc) + (ppc - 2) \in UPages
    BY <1>3, <2>1, GroupPage
  <2> QED BY <2>2, <1>3
<1>5. (c - 1) % ppc = ppc - 2
  <2>1. ((g * ppc) + (ppc - 2)) % ppc = ppc - 2
    BY <1>2, <1>3, ModUnique
  <2> QED BY <2>1, <1>3
<1>6. cp_page(c - 1) = c
  BY <1>2, <1>5 DEF cp_page, align_down
<1> QED BY <1>2, <1>4, <1>6, GroupBounds

\* A user page and a checkpoint page that is not of its group are a group apart.
LEMMA GroupsApart ==
  ASSUME NEW u \in UPages, NEW c \in CpPages
  PROVE  /\ c < u => c <= cp_page(u) - ppc
         /\ c > u => c >= cp_page(u)
<1>1. PICK g \in Nat : c + 1 = (g + 1) * ppc /\ c + 1 = (g * ppc) + ppc
                       /\ g * ppc \in Nat
  BY CpPage
<1>2. cp_page(u) \in CpPages /\ u < cp_page(u) /\ cp_page(u) - ppc < u
  BY GroupBounds
<1>3. PICK k \in Nat : /\ cp_page(u) + 1 = (k + 1) * ppc
                       /\ cp_page(u) + 1 = (k * ppc) + ppc /\ k * ppc \in Nat
  BY <1>2, CpPage
<1>4. ppc \in Nat \ {0} /\ ppc >= 4 /\ c \in Nat /\ u \in Nat /\ cp_page(u) \in Nat
  BY <1>2, CpPage, Sizes DEF UPages, Pages
<1>5. CASE c < u
  <2>1. g * ppc < k * ppc
    BY <1>1, <1>2, <1>3, <1>4, <1>5
  <2>2. (g * ppc) + ppc <= k * ppc
    BY <2>1, <1>4, NextMultiple
  <2> QED BY <2>2, <1>1, <1>3, <1>4, <1>5
<1>6. CASE c > u
  <2>1. ~(g * ppc < k * ppc)
    <3>1. SUFFICES ASSUME g * ppc < k * ppc PROVE FALSE
      OBVIOUS
    <3>2. (g * ppc) + ppc <= k * ppc
      BY <3>1, <1>4, NextMultiple
    <3> QED BY <3>2, <1>1, <1>2, <1>3, <1>4, <1>6
  <2> QED BY <2>1, <1>1, <1>3, <1>4, <1>6
<1> QED BY <1>4, <1>5, <1>6

-----------------------------------------------------------------------------
(* Order in the ring                                                       *)

\* Starting from page f, page a comes before page b, or at the latest with it.
Before(f, a, b) == ring_distance(f, a) < ring_distance(f, b)
Upto(f, a, b)   == ring_distance(f, a) <= ring_distance(f, b)

\* The page at the tail is not ahead of the head in the head's own block.
ClearOf(tail, head) == block_of(tail) = block_of(head) => tail <= head

\* Moving the head from h to n keeps it clear of the tail and what was behind
\* it behind it.
Onward(tail, h, n) ==
  /\ ClearOf(tail, n)
  /\ \A x \in Pages : Upto(tail, x, h) =>
       Upto(tail, x, n) /\ (h # n => Before(tail, x, n))

\* Distances along the ring as numbers.
LEMMA Distance ==
  ASSUME NEW a \in Pages, NEW b \in Pages
  PROVE  /\ a \in Nat /\ b \in Nat /\ a < chip_size /\ b < chip_size
         /\ chip_size \in Nat /\ ppb \in Nat /\ ppb >= 4
         /\ ring_distance(a, b) = IF b >= a THEN b - a ELSE b + chip_size - a
         /\ ring_distance(a, b) \in 0 .. (chip_size - 1)
         /\ ring_distance(a, b) = 0 <=> a = b
BY Sizes DEF Pages, ring_distance

\* The queue in terms of the order.
LEMMA InQueue ==
  ASSUME NEW f, NEW h, NEW x
  PROVE  x \in queue(f, h) <=> x \in UPages /\ Before(f, x, h)
BY DEF queue, Before

\* Before and Upto are the strict and the weak side of one linear order.
LEMMA OrderTrans ==
  ASSUME NEW f \in Pages, NEW a \in Pages, NEW b \in Pages, NEW c \in Pages
  PROVE  /\ Before(f, a, b) => Upto(f, a, b) /\ a # b
         /\ Upto(f, a, b) /\ Upto(f, b, c) => Upto(f, a, c)
         /\ Before(f, a, b) /\ Upto(f, b, c) => Before(f, a, c)
         /\ Upto(f, a, b) /\ Before(f, b, c) => Before(f, a, c)
         /\ Upto(f, a, b) /\ a # b => Before(f, a, b)
         /\ Before(f, a, b) <=> ~Upto(f, b, a)
         /\ Upto(f, f, a) /\ Upto(f, a, a)
BY Distance DEF Before, Upto

\* The tail moves on to page t: the order of what it has not passed stays, and
\* what it has passed is out of the order.
LEMMA TailMoves ==
  ASSUME NEW f \in Pages, NEW t \in Pages, NEW a \in Pages, NEW b \in Pages
  PROVE  /\ Upto(f, t, a) /\ Upto(f, a, b) => Upto(t, a, b)
         /\ Upto(f, t, a) /\ Before(f, a, b) => Before(t, a, b)
         /\ Upto(f, t, b) /\ Upto(t, a, b) => Upto(f, t, a) /\ Upto(f, a, b)
         /\ Upto(f, t, b) /\ Before(t, a, b) => Upto(f, t, a) /\ Before(f, a, b)
BY Distance DEF Before, Upto

\* A tail that is not past the head is clear of it if the one it moved from was.
LEMMA ClearTail ==
  ASSUME NEW f \in Pages, NEW t \in Pages, NEW h \in Pages,
         ClearOf(f, h), Upto(f, t, h)
  PROVE  ClearOf(t, h)
<1> SUFFICES ASSUME block_of(t) = block_of(h) PROVE t <= h
  BY DEF ClearOf
<1>1. block_start(t) = block_start(h)
  BY SameBlock
<1>2. /\ block_start(h) <= h /\ h < block_start(h) + ppb /\ block_start(h) \in Nat
      /\ block_start(h) <= t /\ t < block_start(h) + ppb
      /\ block_start(f) <= f /\ f < block_start(f) + ppb /\ block_start(f) \in Nat
  BY <1>1, BlockBounds
<1>3. \/ block_start(f) = block_start(h) /\ f <= h
      \/ block_start(f) + ppb <= block_start(h)
      \/ block_start(h) + ppb <= block_start(f)
  BY SameBlock DEF ClearOf
<1> QED BY <1>2, <1>3, Distance DEF Upto

\* The head moves on within its block.
LEMMA OnwardInBlock ==
  ASSUME NEW f \in Pages, NEW h \in Pages, NEW n \in Pages,
         ClearOf(f, h), block_of(n) = block_of(h), h <= n
  PROVE  Onward(f, h, n)
<1>1. block_start(n) = block_start(h)
  BY SameBlock
<1>2. /\ block_start(h) <= h /\ h < block_start(h) + ppb /\ block_start(h) \in Nat
      /\ block_start(h) <= n /\ n < block_start(h) + ppb
      /\ block_start(f) <= f /\ f < block_start(f) + ppb /\ block_start(f) \in Nat
  BY <1>1, BlockBounds
<1>3. \/ block_start(f) = block_start(h) /\ f <= h
      \/ block_start(f) + ppb <= block_start(h)
      \/ block_start(h) + ppb <= block_start(f)
  BY SameBlock DEF ClearOf
<1>4. ClearOf(f, n)
  BY <1>1, <1>2, SameBlock, Distance DEF ClearOf
<1>5. ring_distance(f, n) = ring_distance(f, h) + (n - h)
  BY <1>2, <1>3, Distance
<1>6. ASSUME NEW x \in Pages, Upto(f, x, h)
      PROVE  Upto(f, x, n) /\ (h # n => Before(f, x, n))
  BY <1>5, <1>6, Distance DEF Upto, Before
<1> QED BY <1>4, <1>6 DEF Onward

\* The head moves on to the next block, which is not the one of the tail.
LEMMA OnwardNextBlock ==
  ASSUME NEW f \in Pages, NEW h \in Pages,
         ClearOf(f, h), block_of(f) # next_block(block_of(h))
  PROVE  Onward(f, h, first_page(next_block(block_of(h))))
<1> DEFINE n == first_page(next_block(block_of(h)))
<1>1. n \in Pages /\ block_of(n) = next_block(block_of(h))
  BY BlockBounds
<1>2. n = IF block_start(h) + ppb >= chip_size THEN 0 ELSE block_start(h) + ppb
  BY BlockBounds
<1>3. /\ block_start(h) <= h /\ h < block_start(h) + ppb /\ block_start(h) \in Nat
      /\ block_start(h) + ppb <= chip_size
      /\ block_start(f) <= f /\ f < block_start(f) + ppb /\ block_start(f) \in Nat
      /\ block_start(n) = n
  BY <1>1, BlockBounds DEF block_start
<1>4. \/ block_start(f) = block_start(h) /\ f <= h
      \/ block_start(f) + ppb <= block_start(h)
      \/ block_start(h) + ppb <= block_start(f)
  BY SameBlock DEF ClearOf
<1>5. \/ block_start(f) + ppb <= n
      \/ n + ppb <= block_start(f)
  BY <1>1, <1>3, SameBlock
<1> HIDE DEF n
<1>6. ring_distance(f, n) > ring_distance(f, h)
  BY <1>1, <1>2, <1>3, <1>4, <1>5, Distance
<1>7. ClearOf(f, n)
  BY <1>1 DEF ClearOf
<1>8. ASSUME NEW x \in Pages, Upto(f, x, h) PROVE Upto(f, x, n) /\ Before(f, x, n)
  BY <1>1, <1>6, <1>8, Distance DEF Upto, Before
<1>9. Onward(f, h, n)
  BY <1>7, <1>8 DEF Onward
<1> QED BY <1>9 DEF n

\* A head at the start of its block: nothing behind it is in the block.
LEMMA BlockIsSpared ==
  ASSUME NEW f \in Pages, NEW h \in Pages, NEW x \in Pages,
         ClearOf(f, h), is_aligned(h, ppb), Before(f, x, h)
  PROVE  block_of(x) # block_of(h)
<1> SUFFICES ASSUME block_of(x) = block_of(h) PROVE FALSE
  OBVIOUS
<1>1. block_start(x) = block_start(h) /\ block_start(h) = h
  BY SameBlock, AlignedBlock
<1>2. /\ h <= x /\ x < h + ppb
      /\ block_start(f) <= f /\ f < block_start(f) + ppb /\ block_start(f) \in Nat
  BY <1>1, BlockBounds
<1>3. \/ block_start(f) = h /\ f <= h
      \/ block_start(f) + ppb <= h
      \/ h + ppb <= block_start(f)
  BY <1>1, SameBlock DEF ClearOf
<1> QED BY <1>2, <1>3, Distance DEF Before

\* Pages in the block behind the head are there only as long as the tail is.
LEMMA TailInNextBlock ==
  ASSUME num_blocks >= 2,
         NEW f \in Pages, NEW h \in Pages, NEW x \in Pages,
         ClearOf(f, h), Upto(f, x, h), block_of(x) = next_block(block_of(h))
  PROVE  block_of(f) = next_block(block_of(h))
<1> DEFINE n == first_page(next_block(block_of(h)))
<1>1. n \in Pages /\ block_of(n) = next_block(block_of(h)) /\ block_start(n) = n
  BY BlockBounds DEF block_start
<1>2. n = IF block_start(h) + ppb >= chip_size THEN 0 ELSE block_start(h) + ppb
  BY BlockBounds
<1>3. /\ block_start(h) <= h /\ h < block_start(h) + ppb /\ block_start(h) \in Nat
      /\ block_start(h) + ppb <= chip_size
      /\ block_start(f) <= f /\ f < block_start(f) + ppb /\ block_start(f) \in Nat
      /\ block_start(x) <= x /\ x < block_start(x) + ppb
  BY BlockBounds
<1>4. block_start(x) = n
  BY <1>1, SameBlock
<1>5. chip_size >= ppb + ppb
  BY Sizes, GeometryAssumption
<1> SUFFICES ASSUME block_of(f) # next_block(block_of(h)) PROVE FALSE
  OBVIOUS
<1>6. \/ block_start(f) + ppb <= n
      \/ n + ppb <= block_start(f)
  BY <1>1, SameBlock
<1>7. \/ block_start(f) = block_start(h) /\ f <= h
      \/ block_start(f) + ppb <= block_start(h)
      \/ block_start(h) + ppb <= block_start(f)
  BY SameBlock DEF ClearOf
<1> HIDE DEF n
<1> QED BY <1>2, <1>3, <1>4, <1>5, <1>6, <1>7, Distance DEF Upto

\* A page between the ends of a block is in the block.
LEMMA InBlock ==
  ASSUME NEW p \in Pages, NEW q \in Nat,
         block_start(p) <= q, q < block_start(p) + ppb
  PROVE  q \in Pages /\ block_of(q) = block_of(p) /\ block_start(q) = block_start(p)
<1>1. /\ block_start(p) \in Nat /\ block_start(p) + ppb <= chip_size
      /\ chip_size \in Nat /\ ppb \in Nat
  BY BlockBounds, Sizes
<1>2. q \in Pages
  BY <1>1 DEF Pages
<1>3. block_start(q) \in Nat /\ block_start(q) <= q /\ q < block_start(q) + ppb
  BY <1>2, BlockBounds
<1>4. block_start(q) = block_start(p)
  BY <1>1, <1>2, <1>3, SameBlock
<1> QED BY <1>2, <1>4, SameBlock

\* With two blocks or more the next block is another one.
LEMMA NextBlockApart ==
  ASSUME num_blocks >= 2, NEW b \in Blocks
  PROVE  next_block(b) # b
BY GeometryAssumption DEF Blocks, next_block

\* The next user page lies behind in the same block or begins the next one.
LEMMA NextInBlock ==
  ASSUME NEW u \in UPages
  PROVE  /\ u \in Pages /\ next_upage(u) \in Pages
         /\ \/ u < next_upage(u) /\ block_of(next_upage(u)) = block_of(u)
            \/ /\ u + 1 = cp_page(u)
               /\ u + 2 = block_start(u) + ppb
               /\ next_upage(u) = first_page(next_block(block_of(u)))
<1>1. /\ u \in Pages /\ cp_page(u) \in Pages /\ u < cp_page(u)
      /\ block_of(cp_page(u)) = block_of(u)
      /\ next_upage(u) = IF u + 1 # cp_page(u) THEN u + 1
                         ELSE IF u + 2 >= chip_size THEN 0 ELSE u + 2
  BY GroupBounds
<1>2. block_start(cp_page(u)) = block_start(u)
  BY <1>1 DEF block_start
<1>3. /\ u \in Nat /\ cp_page(u) \in Nat /\ cp_page(u) < block_start(u) + ppb
      /\ block_start(u) \in Nat /\ block_start(u) <= u
      /\ chip_size \in Nat /\ ppb \in Nat
  BY <1>1, <1>2, BlockBounds, Sizes
<1>4. next_upage(u) \in Pages
  BY NextUPage DEF UPages
<1>5. CASE u + 1 # cp_page(u)
  <2>1. u + 1 \in Nat /\ u + 1 < block_start(u) + ppb /\ next_upage(u) = u + 1
    BY <1>1, <1>3, <1>5
  <2>2. block_of(u + 1) = block_of(u)
    BY <2>1, <1>1, <1>3, InBlock
  <2> QED BY <1>1, <1>3, <1>4, <2>1, <2>2
<1>6. CASE u + 1 = cp_page(u)
  <2>1. CASE u + 2 < block_start(u) + ppb
    <3>1. u + 2 \in Nat /\ u + 2 \in Pages /\ block_of(u + 2) = block_of(u)
      BY <1>1, <1>3, <2>1, InBlock
    <3>2. next_upage(u) = u + 2
      BY <3>1, <1>1, <1>3, <1>6 DEF Pages
    <3> QED BY <1>1, <1>3, <1>4, <3>1, <3>2
  <2>2. CASE ~(u + 2 < block_start(u) + ppb)
    <3>1. u + 2 = block_start(u) + ppb
      BY <1>1, <1>3, <1>6, <2>2
    <3>2. next_upage(u) = first_page(next_block(block_of(u)))
      BY <3>1, <1>1, <1>3, <1>6, BlockBounds
    <3> QED BY <1>1, <1>4, <1>6, <3>1, <3>2
  <2> QED BY <2>1, <2>2
<1> QED BY <1>5, <1>6

\* The tail's way to the next user page does not pass the head.
LEMMA NextUser ==
  ASSUME NEW f \in Pages, NEW t \in UPages, NEW h \in UPages,
         Upto(f, t, h), t # h
  PROVE  /\ Upto(t, next_upage(t), h) /\ Before(t, t, next_upage(t))
         /\ Upto(f, next_upage(t), h) /\ Before(f, t, next_upage(t))
<1>1. /\ t \in Pages /\ cp_page(t) \in CpPages /\ t < cp_page(t)
      /\ next_upage(t) = IF t + 1 # cp_page(t) THEN t + 1
                         ELSE IF t + 2 >= chip_size THEN 0 ELSE t + 2
      /\ cp_page(t) \in Pages /\ cp_page(t) \in Nat
  BY GroupBounds, CpPage
<1>2. h \in Pages /\ cp_page(t) # h
  BY <1>1 DEF UPages, CpPages
<1>3. next_upage(t) \in Pages
  BY NextUPage DEF UPages
<1>4. cp_page(t) < chip_size /\ cp_page(t) >= ppc - 1 /\ ppc \in Nat /\ ppc >= 4
  BY <1>1, CpPage, Sizes
<1>5. /\ ring_distance(t, next_upage(t)) <= ring_distance(t, h)
      /\ ring_distance(t, t) < ring_distance(t, next_upage(t))
  <2> DEFINE n == next_upage(t)
  <2>1. n \in Pages
    BY <1>3
  <2>2. n = IF t + 1 # cp_page(t) THEN t + 1
            ELSE IF t + 2 >= chip_size THEN 0 ELSE t + 2
    BY <1>1
  <2> HIDE DEF n
  <2>3. /\ t \in Nat /\ n \in Nat /\ h \in Nat /\ chip_size \in Nat
        /\ t < chip_size /\ h < chip_size
        /\ ring_distance(t, t) = 0
        /\ ring_distance(t, h) = IF h >= t THEN h - t ELSE h + chip_size - t
        /\ ring_distance(t, n) = IF n >= t THEN n - t ELSE n + chip_size - t
    BY <1>1, <1>2, <2>1, Distance
  <2>4. ring_distance(t, n) = IF t + 1 # cp_page(t) THEN 1 ELSE 2
    BY <2>2, <2>3, <1>1, <1>4
  <2>5. ring_distance(t, h) >= 1 /\ (t + 1 = cp_page(t) => ring_distance(t, h) >= 2)
    BY <2>3, <1>1, <1>2, <1>4
  <2>6. ring_distance(t, n) <= ring_distance(t, h)
        /\ ring_distance(t, t) < ring_distance(t, n)
    BY <2>3, <2>4, <2>5
  <2> QED BY <2>6 DEF n
<1>6. Upto(t, next_upage(t), h) /\ Before(t, t, next_upage(t))
  BY <1>5 DEF Upto, Before
<1> HIDE DEF next_upage
<1>7. Upto(f, next_upage(t), h)
  BY <1>6, <1>1, <1>2, <1>3, TailMoves
<1>8. Upto(f, t, next_upage(t))
  BY <1>6, <1>1, <1>2, <1>3, TailMoves
<1>9. Before(f, t, next_upage(t))
  BY <1>8, <1>6, <1>1, <1>3, OrderTrans
<1> QED BY <1>6, <1>7, <1>9

\* The head moves to the next user page, unless that is in the tail's block.
LEMMA OnwardNext ==
  ASSUME num_blocks >= 2, NEW f \in Pages, NEW h \in UPages, ClearOf(f, h),
         ~(/\ align_eq(next_upage(h), f, ppb)
           /\ ~align_eq(next_upage(h), h, ppb))
  PROVE  Onward(f, h, next_upage(h)) /\ next_upage(h) # h
<1>1. h \in Pages /\ next_upage(h) \in Pages /\ block_of(h) \in Blocks
  BY NextInBlock, BlockBounds
<1>2. CASE h < next_upage(h) /\ block_of(next_upage(h)) = block_of(h)
  <2>1. h <= next_upage(h) /\ next_upage(h) # h
    BY <1>1, <1>2 DEF Pages
  <2> QED BY <1>1, <1>2, <2>1, OnwardInBlock
<1>3. CASE next_upage(h) = first_page(next_block(block_of(h)))
  <2>1. block_of(next_upage(h)) = next_block(block_of(h))
    BY <1>1, <1>3, BlockBounds
  <2>2. block_of(next_upage(h)) # block_of(h)
    BY <2>1, <1>1, NextBlockApart
  <2>3. block_of(f) # next_block(block_of(h))
    BY <1>1, <2>1, <2>2, SameBlock
  <2> QED BY <1>1, <1>3, <2>2, <2>3, OnwardNextBlock
<1> QED BY <1>2, <1>3, NextInBlock

\* The blocks dhara_journal_peek looks at lie between the tail and the head:
\* it stops in the head's block.
LEMMA PeekedTail ==
  ASSUME NEW t \in Pages, NEW h \in Pages, NEW n \in Nat, is_aligned(t, ppb),
         \A i \in 0 .. (n - 1) : (block_of(t) + i) % num_blocks # block_of(h)
  PROVE  LET b == (block_of(t) + n) % num_blocks
         IN  b \in Blocks /\ Upto(t, first_page(b), h)
<1> DEFINE nb == num_blocks
           bt == block_of(t)
           bh == block_of(h)
           d  == IF bh >= bt THEN bh - bt ELSE bh + nb - bt
           b  == (bt + n) % nb
<1>1. /\ nb \in Nat \ {0} /\ bt \in Nat /\ bh \in Nat /\ bt < nb /\ bh < nb
      /\ bt \in Blocks /\ bh \in Blocks
  <2>1. bt \in Blocks /\ bh \in Blocks
    BY BlockBounds
  <2> QED BY <2>1, GeometryAssumption DEF Blocks
<1>2. ASSUME NEW x \in Nat, x < nb + nb
      PROVE  x % nb = IF x < nb THEN x ELSE x - nb
  <2>1. ASSUME NEW r \in 0 .. (nb - 1)
        PROVE  ((0 * nb) + r) % nb = r /\ ((1 * nb) + r) % nb = r
    BY <1>1, ModUnique
  <2>2. CASE x < nb
    <3>1. x \in 0 .. (nb - 1) /\ (0 * nb) + x = x
      BY <2>2, <1>1
    <3> QED BY <3>1, <2>1, <2>2
  <2>3. CASE ~(x < nb)
    <3> DEFINE y == x - nb
    <3>1. y \in 0 .. (nb - 1) /\ (1 * nb) + y = x
      BY <2>3, <1>2, <1>1
    <3> HIDE DEF y
    <3>2. x % nb = y
      BY <3>1, <2>1
    <3> QED BY <3>2, <2>3 DEF y
  <2> QED BY <2>2, <2>3
<1>3. t = first_page(bt) /\ first_page(bh) <= h
      /\ first_page(bt) \in Nat /\ first_page(bh) \in Nat
  BY AlignedBlock, BlockBounds DEF block_start
<1>4. \A i \in 0 .. (n - 1) : (bt + i) % nb # bh
  OBVIOUS
<1> HIDE DEF bt, bh, nb
<1>5. d \in Nat /\ bt + d < nb + nb /\ (bt + d) % nb = bh
  <2>1. d \in Nat /\ bt + d \in Nat /\ bt + d < nb + nb
    BY <1>1
  <2>2. bh = IF bt + d < nb THEN bt + d ELSE bt + d - nb
    BY <1>1
  <2> HIDE DEF d
  <2> QED BY <2>1, <2>2, <1>1, <1>2
<1>6. n <= d
  <2> HIDE DEF d
  <2> QED BY <1>4, <1>5
<1>7. b = IF bt + n < nb THEN bt + n ELSE bt + n - nb
  BY <1>1, <1>2, <1>5, <1>6
<1> HIDE DEF b
<1>8. b \in Nat /\ b < nb
  BY <1>1, <1>5, <1>6, <1>7
<1>9. b \in Blocks
  BY <1>8, <1>1 DEF Blocks, nb
<1>10. first_page(b) \in Nat /\ first_page(b) < chip_size /\ first_page(b) \in Pages
  <2>1. first_page(b) \in UPages
    BY <1>9, FirstPage
  <2> QED BY <2>1, Distance DEF UPages
<1>11. \/ bh >= bt /\ bt <= b /\ b <= bh
       \/ bh < bt /\ (bt <= b \/ b <= bh)
  BY <1>1, <1>5, <1>6, <1>7
<1>12. ASSUME NEW x \in Blocks, NEW y \in Blocks, x <= y
       PROVE  first_page(x) <= first_page(y)
  <2>1. x \in Int /\ y \in Int /\ ppb \in Nat /\ first_page(x) \in Nat
        /\ first_page(y) \in Nat
    BY Sizes, BlocksApart DEF Blocks
  <2> QED BY <2>1, <1>12, BlocksApart
<1>13. /\ bt <= b => first_page(bt) <= first_page(b)
       /\ b <= bh => first_page(b) <= first_page(bh)
       /\ bh < bt => first_page(bh) + ppb <= first_page(bt)
  BY <1>1, <1>9, <1>12, BlocksApart
<1>14. h < first_page(bh) + ppb
  BY BlockBounds DEF block_start, bh
<1>15. ring_distance(t, first_page(b)) <= ring_distance(t, h)
  <2>1. CASE bh >= bt /\ bt <= b /\ b <= bh
    BY <2>1, <1>3, <1>10, <1>13, <1>14, Distance
  <2>2. CASE bh < bt /\ bt <= b
    BY <2>2, <1>3, <1>10, <1>13, <1>14, Distance
  <2>3. CASE bh < bt /\ b <= bh
    BY <2>3, <1>3, <1>10, <1>13, <1>14, Distance
  <2> QED BY <2>1, <2>2, <2>3, <1>11
<1> QED BY <1>9, <1>15 DEF Upto, b, bt, nb

\* find_head puts the tail behind the block of the head: what the tail passes is
\* in that block.
LEMMA ChasedTail ==
  ASSUME num_blocks >= 2, NEW f \in Pages, NEW r \in Pages, NEW q \in Pages,
         block_of(f) = next_block(block_of(r)),
         Upto(f, q, r), block_of(q) # next_block(block_of(r))
  PROVE  LET h == first_page(next_block(block_of(r)))
             t == first_page(next_block(next_block(block_of(r))))
         IN  Upto(t, q, r) /\ Before(t, r, h) /\ ClearOf(t, h)
<1> DEFINE h == first_page(next_block(block_of(r)))
           t == first_page(next_block(next_block(block_of(r))))
<1>1. /\ h \in Pages /\ block_of(h) = next_block(block_of(r)) /\ block_start(h) = h
      /\ h = IF block_start(r) + ppb >= chip_size THEN 0 ELSE block_start(r) + ppb
  BY BlockBounds DEF block_start
<1>2. /\ t \in Pages /\ block_of(t) = next_block(block_of(h))
      /\ t = IF h + ppb >= chip_size THEN 0 ELSE h + ppb
  <2>1. t = first_page(next_block(block_of(h)))
    BY <1>1
  <2> HIDE DEF t, h
  <2> QED BY <2>1, <1>1, BlockBounds
<1>3. block_of(h) \in Blocks
  BY <1>1, BlockBounds
<1> HIDE DEF t, h
<1>4. ClearOf(t, h)
  BY <1>2, <1>3, NextBlockApart DEF ClearOf
<1>5. /\ block_start(f) = h
      /\ h <= f /\ f < h + ppb
      /\ block_start(q) + ppb <= h \/ h + ppb <= block_start(q)
  <2>1. block_start(f) = h
    BY <1>1, SameBlock
  <2>2. block_start(q) # h
    BY <1>1, SameBlock
  <2> QED BY <2>1, <2>2, <1>1, BlockBounds, SameBlock
<1>6. /\ block_start(r) \in Nat /\ block_start(r) <= r /\ r < block_start(r) + ppb
      /\ block_start(r) + ppb <= chip_size /\ h + ppb <= chip_size
      /\ block_start(q) \in Nat /\ block_start(q) <= q /\ q < block_start(q) + ppb
      /\ block_start(q) + ppb <= chip_size
  BY <1>1, BlockBounds
<1>7. chip_size >= ppb + ppb
  BY Sizes, GeometryAssumption
<1>8. \/ block_start(r) = block_start(q)
      \/ block_start(r) + ppb <= block_start(q)
      \/ block_start(q) + ppb <= block_start(r)
  BY SameBlock
<1>9. block_start(r) + ppb <= h \/ h + ppb <= block_start(r)
  <2>1. block_of(h) # block_of(r)
    BY <1>1, NextBlockApart, BlockBounds
  <2> QED BY <2>1, <1>1, SameBlock
<1>10. ring_distance(f, q) <= ring_distance(f, r)
  BY DEF Upto
<1>11. /\ ring_distance(f, q) = IF q >= f THEN q - f ELSE q + chip_size - f
       /\ ring_distance(f, r) = IF r >= f THEN r - f ELSE r + chip_size - f
       /\ ring_distance(t, q) = IF q >= t THEN q - t ELSE q + chip_size - t
       /\ ring_distance(t, r) = IF r >= t THEN r - t ELSE r + chip_size - t
       /\ ring_distance(t, h) = IF h >= t THEN h - t ELSE h + chip_size - t
       /\ f \in Nat /\ q \in Nat /\ r \in Nat /\ t \in Nat /\ h \in Nat
       /\ chip_size \in Nat /\ ppb \in Nat /\ ppb >= 4
  BY <1>1, <1>2, Distance
<1>12. ring_distance(t, r) < ring_distance(t, h)
  BY <1>1, <1>2, <1>6, <1>7, <1>9, <1>11
<1>13. ring_distance(t, q) <= ring_distance(t, r)
  BY <1>1, <1>2, <1>5, <1>6, <1>7, <1>8, <1>9, <1>10, <1>11
<1> QED BY <1>4, <1>12, <1>13 DEF t, h, Upto, Before

-----------------------------------------------------------------------------
(* The number of user pages in a queue                                     *)

\* The number of user pages before page p, and those pages.
rank(p) == p - (p \div ppc)
Below(p) == {u \in UPages : u < p}

\* A page by its group g and its offset r in the group.
LEMMA RankOf ==
  ASSUME NEW g \in Nat, NEW r \in 0 .. (ppc - 2)
  PROVE  rank((g * ppc) + r) = (g * (ppc - 1)) + r /\ g * (ppc - 1) \in Nat
<1>1. ppc \in Nat \ {0} /\ ppc >= 4 /\ r \in 0 .. (ppc - 1) /\ g * ppc \in Nat
  BY Sizes
<1>2. ((g * ppc) + r) \div ppc = g
  BY <1>1, ModUnique
<1>3. g * (ppc - 1) = (g * ppc) - g /\ g * (ppc - 1) \in Nat
  BY <1>1
<1> QED BY <1>1, <1>2, <1>3 DEF rank

\* The end of a queue: a user page, or the end of the chip.
LEMMA EndOf ==
  ASSUME NEW p \in UPages \cup {chip_size}
  PROVE  \E g \in Nat, r \in 0 .. (ppc - 2) : p = (g * ppc) + r
<1>1. ppc \in Nat /\ ppc >= 4 /\ num_blocks * cpb \in Nat
      /\ chip_size = (num_blocks * cpb) * ppc /\ chip_size \in Nat
  BY Sizes
<1>2. CASE p \in UPages
  BY <1>2, UPageOffset
<1>3. CASE p = chip_size
  <2>1. p = ((num_blocks * cpb) * ppc) + 0 /\ 0 \in 0 .. (ppc - 2)
    BY <1>1, <1>3
  <2> QED BY <2>1, <1>1
<1> QED BY <1>2, <1>3

\* rank is strictly increasing on these.
LEMMA RankIncreases ==
  ASSUME NEW p \in UPages \cup {chip_size}, NEW q \in UPages \cup {chip_size}, p < q
  PROVE  rank(p) \in Nat /\ rank(q) \in Nat /\ rank(p) < rank(q)
<1>1. ppc \in Nat /\ ppc >= 4
  BY Sizes
<1>2. PICK g \in Nat, r \in 0 .. (ppc - 2) : p = (g * ppc) + r
  BY EndOf
<1>3. PICK k \in Nat, s \in 0 .. (ppc - 2) : q = (k * ppc) + s
  BY EndOf
<1>4. /\ rank(p) = (g * (ppc - 1)) + r /\ g * (ppc - 1) \in Nat
      /\ rank(q) = (k * (ppc - 1)) + s /\ k * (ppc - 1) \in Nat
  BY <1>2, <1>3, RankOf
<1>5. ~(k < g)
  <2> SUFFICES ASSUME k < g PROVE FALSE
    OBVIOUS
  <2>1. k * ppc \in Nat /\ g * ppc \in Nat /\ g - k - 1 \in Nat
    BY <1>1
  <2>2. (g - k - 1) * ppc >= 0
    BY <1>1, <2>1
  <2>3. (g - k - 1) * ppc = (g * ppc) - (k * ppc) - ppc
    BY <1>1, <2>1
  <2> QED BY <1>1, <1>2, <1>3, <2>1, <2>2, <2>3
<1>6. CASE g = k
  <2>1. g * ppc \in Nat
    BY <1>1
  <2> QED BY <1>1, <1>2, <1>3, <1>4, <1>6, <2>1
<1>7. CASE g < k
  <2>1. k - g - 1 \in Nat
    BY <1>7
  <2>2. (k - g - 1) * (ppc - 1) >= 0
    BY <1>1, <2>1
  <2>3. (k - g - 1) * (ppc - 1) = (k * (ppc - 1)) - (g * (ppc - 1)) - (ppc - 1)
    BY <1>1, <2>1
  <2> QED BY <1>1, <1>4, <2>2, <2>3
<1> QED BY <1>4, <1>5, <1>6, <1>7

\* Every number below the rank of a page is the rank of a user page before it.
LEMMA RankReaches ==
  ASSUME NEW p \in UPages \cup {chip_size}, NEW k \in Nat, k < rank(p)
  PROVE  \E u \in Below(p) : rank(u) = k
<1>1. ppc \in Nat /\ ppc >= 4 /\ ppc - 1 \in Nat \ {0} /\ chip_size \in Nat
      /\ num_blocks * cpb \in Nat /\ chip_size = (num_blocks * cpb) * ppc
  BY Sizes
<1> DEFINE g == k \div (ppc - 1)
           r == k % (ppc - 1)
           u == (g * ppc) + r
<1>2. g \in Nat /\ r \in 0 .. ((ppc - 1) - 1) /\ k = (g * (ppc - 1)) + r
  BY <1>1, DivMod
<1> HIDE DEF g, r
<1>3. r \in 0 .. (ppc - 2) /\ g * ppc \in Nat /\ u \in Nat
  BY <1>1, <1>2
<1>4. rank(u) = k
  BY <1>2, <1>3, RankOf
<1>5. PICK h \in Nat, s \in 0 .. (ppc - 2) : p = (h * ppc) + s
  BY EndOf
<1>6. rank(p) = (h * (ppc - 1)) + s /\ h * (ppc - 1) \in Nat
      /\ g * (ppc - 1) \in Nat
  BY <1>1, <1>2, <1>5, RankOf
<1>7. ~(h < g)
  <2> SUFFICES ASSUME h < g PROVE FALSE
    OBVIOUS
  <2>1. g - h - 1 \in Nat
    BY <1>2, <1>5
  <2>2. (g - h - 1) * (ppc - 1) >= 0
    BY <1>1, <2>1
  <2>3. (g - h - 1) * (ppc - 1) = (g * (ppc - 1)) - (h * (ppc - 1)) - (ppc - 1)
    BY <1>1, <1>2, <2>1
  <2> QED BY <1>1, <1>2, <1>6, <2>2, <2>3
<1>8. u < p
  <2>1. CASE g = h
    BY <2>1, <1>1, <1>2, <1>3, <1>5, <1>6
  <2>2. CASE g < h
    <3>1. h - g - 1 \in Nat
      BY <2>2, <1>2
    <3>2. (h - g - 1) * ppc >= 0
      BY <1>1, <3>1
    <3>3. (h - g - 1) * ppc = (h * ppc) - (g * ppc) - ppc /\ h * ppc \in Nat
      BY <1>1, <1>2, <3>1
    <3> QED BY <1>1, <1>3, <1>5, <3>2, <3>3
  <2> QED BY <2>1, <2>2, <1>2, <1>7
<1>9. p \in Nat /\ p <= chip_size
  BY <1>1, UPageOffset
<1>10. u \in UPages
  BY <1>2, <1>3, <1>8, <1>9, <1>1, GroupPage
<1> QED BY <1>4, <1>8, <1>10 DEF Below

\* The user pages before p are as many as its rank.
LEMMA BelowCount ==
  ASSUME NEW p \in UPages \cup {chip_size}
  PROVE  IsFiniteSet(Below(p)) /\ Cardinality(Below(p)) = rank(p) /\ rank(p) \in Nat
<1>1. 0 \in UPages /\ chip_size \in Nat /\ chip_size > 0
  <2>1. ppc \in Nat /\ ppc >= 4 /\ chip_size \in Nat /\ chip_size > 0
    BY Sizes
  <2> QED BY <2>1, GroupPage, 0 * ppc = 0, 0 \in 0 .. (ppc - 2), 0 \in Nat
<1>2. p \in Nat
  BY <1>1, UPageOffset
<1>3. rank(p) \in Nat
  <2>1. PICK g \in Nat, r \in 0 .. (ppc - 2) : p = (g * ppc) + r
    BY EndOf
  <2>2. rank(p) = (g * (ppc - 1)) + r /\ g * (ppc - 1) \in Nat
    BY <2>1, RankOf
  <2> QED BY <2>2, Sizes
<1> DEFINE S == Below(p)
           T == 0 .. (rank(p) - 1)
           f == [u \in S |-> rank(u)]
<1>4. \A u \in S : u \in UPages /\ rank(u) \in T
  <2> TAKE u \in S
  <2>1. u \in UPages /\ u < p
    BY DEF Below
  <2>2. rank(u) \in Nat /\ rank(u) < rank(p)
    BY <2>1, RankIncreases
  <2> QED BY <2>1, <2>2, <1>3
<1>5. \A u, v \in S : rank(u) = rank(v) => u = v
  <2> TAKE u, v \in S
  <2>1. u \in UPages /\ v \in UPages /\ u \in Nat /\ v \in Nat
    BY UPageOffset DEF Below
  <2>2. u < v => rank(u) # rank(v)
    BY <2>1, RankIncreases
  <2>3. v < u => rank(u) # rank(v)
    BY <2>1, RankIncreases
  <2> QED BY <2>1, <2>2, <2>3
<1>6. \A k \in T : \E u \in S : rank(u) = k
  <2> TAKE k \in T
  <2>1. k \in Nat /\ k < rank(p)
    BY <1>3
  <2> QED BY <2>1, RankReaches
<1>7. f \in Bijection(S, T)
  <2> HIDE DEF S, T
  <2> QED BY <1>4, <1>5, <1>6 DEF Bijection, Injection, Surjection, IsInjective
<1>8. ExistsBijection(S, T)
  BY <1>7 DEF ExistsBijection
<1>9. IsFiniteSet(T) /\ Cardinality(T) = rank(p)
  <2>1. 0 \in Int /\ rank(p) - 1 \in Int
    BY <1>3
  <2>2. IsFiniteSet(T)
        /\ Cardinality(T) = IF 0 > rank(p) - 1 THEN 0 ELSE (rank(p) - 1) - 0 + 1
    BY <2>1, FS_Interval
  <2> QED BY <2>2, <1>3
<1>10. ExistsBijection(T, S)
  BY <1>8, Fun_ExistsBijSymmetric
<1>11. IsFiniteSet(S) /\ Cardinality(S) = Cardinality(T)
  BY <1>9, <1>10, FS_Bijection
<1> QED BY <1>3, <1>9, <1>11

\* What is left of a finite set without a part of it.
LEMMA LessCount ==
  ASSUME NEW S, NEW T, IsFiniteSet(S), T \subseteq S
  PROVE  IsFiniteSet(S \ T) /\ Cardinality(S \ T) = Cardinality(S) - Cardinality(T)
<1>1. S \cap T = T
  OBVIOUS
<1> QED BY <1>1, FS_Difference

\* user_pages counts the user pages of a queue, across the end of the chip too.
LEMMA QueueCount ==
  ASSUME NEW t \in UPages, NEW h \in UPages
  PROVE  user_pages(t, h) = Cardinality(queue(t, h))
<1>1. /\ t \in Nat /\ h \in Nat /\ t < chip_size /\ h < chip_size
      /\ chip_size \in Nat
  BY UPageOffset, Sizes
<1>2. /\ IsFiniteSet(Below(t)) /\ Cardinality(Below(t)) = rank(t) /\ rank(t) \in Nat
      /\ IsFiniteSet(Below(h)) /\ Cardinality(Below(h)) = rank(h) /\ rank(h) \in Nat
      /\ IsFiniteSet(Below(chip_size)) /\ Cardinality(Below(chip_size)) = rank(chip_size)
      /\ rank(chip_size) \in Nat
  BY BelowCount
<1>3. \A x : x \in queue(t, h) <=>
        x \in UPages /\ IF h >= t THEN t <= x /\ x < h ELSE t <= x \/ x < h
  <2> SUFFICES ASSUME NEW x \in UPages
               PROVE  x \in queue(t, h) <=>
                        IF h >= t THEN t <= x /\ x < h ELSE t <= x \/ x < h
    BY DEF queue
  <2>1. x \in Nat /\ x < chip_size
    BY UPageOffset
  <2> QED BY <2>1, <1>1 DEF queue, ring_distance
<1>4. /\ \A x \in UPages : x \in Nat /\ x < chip_size
      /\ \A x, p : x \in Below(p) <=> x \in UPages /\ x < p
  BY UPageOffset DEF Below
<1>5. rank(h) = h - (h \div ppc) /\ rank(t) = t - (t \div ppc)
      /\ h \div ppc \in Nat /\ t \div ppc \in Nat
  BY UPageOffset DEF rank
<1>6. CASE h >= t
  <2>1. queue(t, h) = Below(h) \ Below(t)
    <3>1. SUFFICES ASSUME NEW x \in UPages
          PROVE  x \in queue(t, h) <=> x \in Below(h) /\ x \notin Below(t)
      BY <1>4, <1>3
    <3>2. x \in Nat /\ x < chip_size
      BY <1>4
    <3> QED BY <3>2, <1>1, <1>3, <1>4, <1>6
  <2>2. Below(t) \subseteq Below(h)
    <3>1. SUFFICES ASSUME NEW x \in UPages
          PROVE  x \in Below(t) => x \in Below(h)
      BY <1>4, <1>3
    <3>2. x \in Nat /\ x < chip_size
      BY <1>4
    <3> QED BY <3>2, <1>1, <1>4, <1>6
  <2>3. Cardinality(queue(t, h)) = rank(h) - rank(t)
    BY <1>2, <2>1, <2>2, LessCount
  <2>4. user_pages(t, h) = (h - t) - ((h \div ppc) - (t \div ppc))
    BY <1>1, <1>6 DEF user_pages
  <2> QED BY <1>1, <1>5, <2>3, <2>4
<1>7. CASE ~(h >= t)
  <2>1. queue(t, h) = Below(chip_size) \ (Below(t) \ Below(h))
    <3>1. SUFFICES ASSUME NEW x \in UPages
          PROVE  x \in queue(t, h) <=>
            x \in Below(chip_size) /\ ~(x \in Below(t) /\ x \notin Below(h))
      BY <1>4, <1>3
    <3>2. x \in Nat /\ x < chip_size
      BY <1>4
    <3> QED BY <3>2, <1>1, <1>3, <1>4, <1>7
  <2>2. Below(t) \ Below(h) \subseteq Below(chip_size)
    <3>1. \A x : x \in Below(t) => x \in Below(chip_size)
      BY <1>4
    <3> QED BY <3>1
  <2>3. Below(h) \subseteq Below(t)
    <3>1. SUFFICES ASSUME NEW x \in UPages
          PROVE  x \in Below(h) => x \in Below(t)
      BY <1>4, <1>3
    <3>2. x \in Nat /\ x < chip_size
      BY <1>4
    <3> QED BY <3>2, <1>1, <1>4, <1>7
  <2>4. Cardinality(Below(t) \ Below(h)) = rank(t) - rank(h)
    <3>1. Cardinality(Below(t) \ Below(h)) = Cardinality(Below(t)) - Cardinality(Below(h))
      BY <1>2, <2>3, LessCount, Zenon
    <3> QED BY <1>2, <3>1
  <2>5. Cardinality(queue(t, h)) = rank(chip_size) - (rank(t) - rank(h))
    BY <1>2, <2>1, <2>2, <2>4, LessCount
  <2> DEFINE groups == num_blocks * cpb
  <2>6. groups \in Nat /\ chip_size = groups * ppc /\ ppc \in Nat \ {0} /\ ppc >= 4
    BY Sizes
  <2> HIDE DEF groups
  <2>7. chip_size \div ppc = groups
    <3>1. ((groups * ppc) + 0) \div ppc = groups
      BY <2>6, ModUnique
    <3> QED BY <3>1, <2>6, <1>1
  <2>8. (h + chip_size) \div ppc = (h \div ppc) + groups
    <3> DEFINE g == h \div ppc
               r == h % ppc
    <3>1. g \in Nat /\ r \in 0 .. (ppc - 1) /\ h = (g * ppc) + r
      BY <1>1, <2>6, DivMod
    <3> HIDE DEF g, r
    <3>2. (g + groups) * ppc = (g * ppc) + (groups * ppc) /\ g + groups \in Nat
          /\ g * ppc \in Nat
      BY <3>1, <2>6
    <3>3. (((g + groups) * ppc) + r) \div ppc = g + groups
      BY <3>1, <3>2, <2>6, ModUnique
    <3>4. h + chip_size = ((g + groups) * ppc) + r
      BY <3>1, <3>2, <2>6
    <3>5. (h + chip_size) \div ppc = g + groups
      BY <3>3, <3>4
    <3> QED BY <3>5 DEF g
  <2>9. user_pages(t, h) =
          ((h + chip_size) - t) - (((h + chip_size) \div ppc) - (t \div ppc))
    BY <1>1, <1>7 DEF user_pages
  <2>10. rank(chip_size) = chip_size - groups
    BY <2>7 DEF rank
  <2> QED BY <1>1, <1>5, <2>5, <2>6, <2>8, <2>9, <2>10
<1> QED BY <1>6, <1>7
=============================================================================
