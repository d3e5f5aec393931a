------------------------------ MODULE Geometry ------------------------------
(***************************************************************************)
(* Page and block arithmetic of the Dhara journal (journal.c, "Page        *)
(* geometry helpers").  A page number is a 32-bit index into the chip; a   *)
(* block is ppb consecutive pages; a checkpoint group is ppc consecutive   *)
(* pages whose last one (the checkpoint page) holds the journal header and *)
(* the metadata of the other ppc - 1 (the user pages).                     *)
(*                                                                         *)
(* The C code works with base-2 logarithms and bit masks; here ppc and cpb *)
(* (checkpoint groups per block) are the powers themselves, so that        *)
(* p & (ppb - 1) is p % ppb and p >> log2_ppb is p \div ppb.               *)
(***************************************************************************)
EXTENDS Integers

CONSTANTS
  num_blocks,   \* eraseblocks in the chip
  cpb,          \* checkpoint groups per block, 1 << (log2_ppb - log2_ppc)
  ppc,          \* pages per checkpoint group, 1 << log2_ppc
  MAX_RETRIES,  \* DHARA_MAX_RETRIES
  PAGE_NONE     \* DHARA_PAGE_NONE, the page number with every bit set

\* Pages per eraseblock and pages in the chip.
ppb == cpb * ppc
chip_size == num_blocks * ppb

(***************************************************************************)
(* choose_ppc() never returns less than 1, and returns 2 or more whenever  *)
(* three metadata slices fit on a page (from 512-byte pages up); push_meta *)
(* relies on that ("we're not block-aligned").  PAGE_NONE is outside the   *)
(* chip and, all its bits being set, is the last page of its block.        *)
(***************************************************************************)
ASSUME GeometryAssumption ==
  /\ num_blocks \in Nat \ {0}
  /\ cpb \in Nat \ {0}
  /\ ppc \in Nat /\ ppc >= 4
  /\ MAX_RETRIES \in Nat \ {0}
  /\ PAGE_NONE \in Nat
  /\ PAGE_NONE >= chip_size
  /\ (PAGE_NONE + 1) % ppb = 0

Blocks == 0 .. (num_blocks - 1)
Pages  == 0 .. (chip_size - 1)

\* Is this page index aligned to n pages?
is_aligned(p, n) == p % n = 0

\* Are these two pages from the same alignment group?
align_eq(a, b, n) == a \div n = b \div n

\* User pages: every page that is not the last of its checkpoint group.
UPages == {p \in Pages : ~is_aligned(p + 1, ppc)}

\* The block a page lies in, and the first page of a block.
block_of(p) == p \div ppb
first_page(blk) == blk * ppb

\* The first page of a page's alignment group, p & ~(n - 1).
align_down(p, n) == p - (p % n)

\* The checkpoint page of a page's group, p | ppc_mask.
cp_page(p) == align_down(p, ppc) + (ppc - 1)

\* What is the successor of this block?
next_block(blk) == IF blk + 1 >= num_blocks THEN 0 ELSE blk + 1

\* Mutant: the checkpoint page at the end of a group is not skipped.
next_upage_raw(p) == IF p + 1 >= chip_size THEN 0 ELSE p + 1

\* What is the next user page?
next_upage(p) ==
  LET q == IF is_aligned(p + 2, ppc) THEN p + 2 ELSE p + 1
  IN  IF q >= chip_size THEN 0 ELSE q

=============================================================================
