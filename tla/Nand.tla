-------------------------------- MODULE Nand --------------------------------
(***************************************************************************)
(* The flash chip as the Dhara journal sees it through dhara/nand.c and    *)
(* mx35lf1_driver.c: pages that are programmed once between two erases,    *)
(* reads that succeed or report an uncorrectable ECC error, and the        *)
(* bad-block markers in the spare area of the first page of a block.       *)
(*                                                                         *)
(* What a page holds is reduced to what the journal tells apart.  A page   *)
(* whose program or erase failed, or was cut short by a power failure, is  *)
(* "torn": every read of it reports NAND_RET_ECC_ERR.                      *)
(***************************************************************************)
EXTENDS JournalOps

CONSTANTS
  Data,      \* contents of user pages
  Meta,      \* metadata slices the journal's client attaches to its pages
  NO_META,   \* the slice of 0xff bytes (filler, or never written)
  Cookies    \* values of the client's cookie

ASSUME NandAssumption == NO_META \notin Meta

VARIABLES
  page,      \* page[p]: what page p holds
  marked     \* blocks whose bad-block marker has been programmed

nandVars == <<page, marked>>

\* The metadata slots of a checkpoint group, one for each user page.
Slots == 0 .. (ppc - 2)
Slices == [Slots -> Meta \cup {NO_META}]

Erased == [kind |-> "erased"]
Torn   == [kind |-> "torn"]

\* A metadata page: the journal header (hdr_set_epoch, hdr_set_tail, ...),
\* the cookie, and one metadata slice for each user page of the group.
Checkpoints == [kind : {"cp"}, epoch : 0 .. (EPOCHS - 1), tail : UPages,
                bb_current : Nat, bb_last : Nat, cookie : Cookies,
                meta : Slices]

\* The metadata buffer dumped on a user page when recovery starts.
Dumps == [kind : {"dump"}, meta : Slices]

UserPages == [kind : {"user"}, data : Data]

Contents == {Erased, Torn} \cup UserPages \cup Dumps \cup Checkpoints

-----------------------------------------------------------------------------
(* Queries.  nand.c turns every failed query into the pessimistic answer.  *)

\* dhara_nand_read: the page lies in the chip and ECC corrects it.
readable(p) == p \in Pages /\ page[p].kind # "torn"

\* The marker of a block is read from the spare area of its first page; when
\* that page cannot be read the block counts as bad.
dhara_nand_is_bad(b) == b \in marked \/ ~readable(first_page(b))

\* Mutant: a page that cannot be read counts as free.
is_free_optimistic(p) == page[p].kind \in {"erased", "torn"}

\* Main and spare area are all 0xff: a marked first page is not free.
dhara_nand_is_free(p) ==
  /\ page[p].kind = "erased"
  /\ ~(is_aligned(p, ppb) /\ block_of(p) \in marked)

-----------------------------------------------------------------------------
(* Commands, as the next contents of the chip.                             *)

\* A page that is programmed a second time holds the new contents or, since
\* program only clears bits, a mix that ECC cannot correct.
programmed(p, content) ==
  IF page[p].kind = "erased"
    THEN {[page EXCEPT ![p] = content]}
    ELSE {[page EXCEPT ![p] = c] : c \in {content, Torn}}

\* NAND_RET_P_FAIL, or power lost while the page is programmed.
program_torn(p) == [page EXCEPT ![p] = Torn]

\* nand_mx35lf1_block_erase, successful, and failed (NAND_RET_E_FAIL) or cut
\* short by a power failure.
erase_done(b) == [p \in Pages |-> IF block_of(p) = b THEN Erased ELSE page[p]]
erase_torn(b) == [p \in Pages |-> IF block_of(p) = b THEN Torn ELSE page[p]]

\* dhara_nand_mark_bad programs the marker "or attempts to": nobody looks at
\* the result.  A block number outside the chip is refused by the driver.
mark_bad(bs) == {marked \cup s : s \in SUBSET (bs \cap Blocks)}

=============================================================================
