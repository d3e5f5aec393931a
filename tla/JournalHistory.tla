--------------------------- MODULE JournalHistory ---------------------------
(***************************************************************************)
(* The journal together with what its client may rely on: the pages it has *)
(* accepted and not yet released, and the synchronization point it has to  *)
(* come back to after a power failure.  The history variables observe the  *)
(* journal and never constrain it.                                         *)
(***************************************************************************)
EXTENDS Journal, Functions

VARIABLES
  accepted,  \* metadata of the pages whose enqueue or copy has succeeded
  saved,     \* the last checkpoint made outside recovery
  mids,      \* the checkpoints made since then, during recovery
  owed       \* pages of the block in recovery the client has yet to be handed

hvars == <<vars, accepted, saved, mids, owed>>

NoPages == [p \in {} |-> NO_META]
NothingSaved == [root |-> PAGE_NONE, tail |-> 0, cookie |-> 0, live |-> NoPages]

HInit ==
  /\ Init
  /\ accepted = NoPages
  /\ saved = NothingSaved
  /\ mids = {}
  /\ owed = {}

-----------------------------------------------------------------------------
(* What a step of the journal does to its client                           *)

\* The running call succeeds: the page it wrote becomes the root.
Accepts == pc \in {"prog", "cp"} /\ pc' = "idle" /\ j'.root = j.head

\* It also completes a checkpoint group.
Commits == pc = "cp" /\ Accepts

\* Power fails; the restart that follows ends.
Crashes == crashes' # crashes
Resumes == pc \in {"resume", "r_group", "r_head"} /\ pc' = "idle"

\* A recovery begins, or begins again after another failure.  (A failure with
\* the last-synced tail in the next block ends in JOURNAL_FULL instead.)
StartsRecovery ==
  j'.recovery /\ (call.dumping \/ (fails' # fails /\ can_skip(j)))
Restarts == StartsRecovery /\ j.recovery

\* A recovery hands out its next page.
HandsOut == pc = "idle" /\ client = "recovering" /\ ~j.enum_done /\ ~Crashes

\* What is left of f when a tail moves from one page to another.
Past(f, from, to) == Restrict(f, DOMAIN f \ queue(from, to))

InRecoveredBlock(p) == align_eq(p, j.recover_root, ppb)

\* Finishing a recovery releases the pages of the block that was recovered
\* (the client has rewritten those it still needs); restarting one abandons
\* the pages written since recovery began, which all lie behind its root.
Released ==
  CASE Commits /\ j.enum_done -> {p \in Pages : InRecoveredBlock(p)}
    [] Restarts -> {p \in Pages : ring_distance(j.tail, p) >
                                  ring_distance(j.tail, j.recover_root)}
    [] OTHER -> {}

AcceptedNow ==
  LET added == IF Accepts THEN {j.head} ELSE {}
      kept  == (DOMAIN accepted \ Released) \cup added
  IN  [p \in kept \ queue(j.tail, j'.tail) |->
         IF p \in added THEN call.meta ELSE accepted[p]]

Snapshot == [root |-> j.head, tail |-> j.tail, cookie |-> buf.cookie,
             live |-> AcceptedNow]

\* The checkpoints whose root a restart has found.
Found == {s \in {saved} \cup mids : s.root = j'.root}

Observe ==
  CASE Crashes ->
         accepted' = NoPages /\ owed' = {} /\ UNCHANGED <<saved, mids>>
    [] Resumes ->
         LET s == IF Found = {} THEN NothingSaved ELSE CHOOSE s \in Found : TRUE
         IN  accepted' = s.live /\ saved' = s /\ mids' = {} /\ UNCHANGED owed
    [] pc \in Resuming /\ ~Crashes /\ ~Resumes ->
         UNCHANGED <<accepted, saved, mids, owed>>
    [] OTHER ->
         /\ accepted' = AcceptedNow
         /\ saved' = IF Commits /\ ~j'.recovery THEN Snapshot
                     ELSE IF j.dirty \/ j.recovery THEN saved
                     \* a clean journal gives a dequeued page up at once
                     ELSE [saved EXCEPT !.live =
                             Past(@, j.tail_sync, j'.tail_sync)]
         /\ mids' = IF ~Commits THEN mids
                    ELSE IF j'.recovery THEN mids \cup {Snapshot} ELSE {}
         /\ owed' = IF StartsRecovery
                      THEN {p \in DOMAIN accepted :
                              align_eq(p, j'.recover_root, ppb)}
                    ELSE IF HandsOut THEN owed \ {j.recover_next}
                    ELSE owed

\* Next, one action at a time.
HNext ==
  \/ SkipBad /\ Observe
  \/ EraseOk /\ Observe
  \/ EraseFails /\ Observe
  \/ PushMeta /\ Observe
  \/ DumpMeta /\ Observe
  \/ ProgramFails /\ Observe
  \/ CopyUnreadable /\ Observe
  \/ Checkpoint /\ Observe
  \/ CheckpointFails /\ Observe
  \/ FindFirst /\ Observe
  \/ FindLast /\ Observe
  \/ FindGroup /\ Observe
  \/ FindHead /\ Observe
  \/ Enqueue /\ Observe
  \/ Copy /\ Observe
  \/ Pad /\ Observe
  \/ Gc /\ Observe
  \/ Clear /\ Observe
  \/ Recover /\ Observe
  \/ Crash /\ Observe

HSpec == HInit /\ [][HNext]_hvars

HFairSpec == HSpec /\ Fairness

-----------------------------------------------------------------------------
(* Properties                                                              *)

\* Between calls the last-synced tail, the tail and the head lie in ring order,
\* and the root between the first and the last of them; and every accepted page,
\* and every page the last synchronization point needs, is in the part of the
\* ring the tails keep: the head never catches up with them.
RingOrder ==
  pc = "idle" =>
    /\ ring_distance(j.tail_sync, j.tail) <= ring_distance(j.tail_sync, j.head)
    /\ j.root # PAGE_NONE => j.root \in queue(j.tail_sync, j.head)
    /\ DOMAIN accepted \subseteq queue(j.tail, j.head)
    /\ DOMAIN saved.live \subseteq queue(j.tail_sync, j.head)

\* Between calls the root is a page of the queue, the check of jt_check
\* (tests/jtutil.c) made relative to the ring.
RootInQueue ==
  pc = "idle" /\ j.root # PAGE_NONE => j.root \in queue(j.tail, j.head)

\* Between calls every accepted page can be read and has the metadata it was
\* accepted with: buffered, dumped during a recovery, or in its checkpoint.
AcceptedIntact ==
  pc = "idle" =>
    \A p \in DOMAIN accepted :
      /\ meta_readable(p)
      /\ read_meta(p) = accepted[p]
      /\ readable(p)

\* The same for a journal that has met failed commands or power failures, not
\* both: together they can lose metadata that only the dump page has
\* (RecoveryReadsMeta and ResumeIsIntact below).
IntactUnlessBoth == fails = 0 \/ crashes = 0 => AcceptedIntact

\* prepare_head never erases a block with a page that is accepted or that the
\* last synchronization point, to which a power failure returns, still needs.
EraseSparesLive ==
  erasing => \A p \in DOMAIN accepted \cup DOMAIN saved.live :
               block_of(p) # block_of(j.head)

\* "Pages will be programmed sequentially within a block, and will not be
\* reprogrammed" (nand.h), nor programmed in a block that is marked bad (the
\* simulator of tests/sim.c aborts on either).
ProgramsInOrder ==
  LET target == IF pc = "cp" THEN j.head + 1 ELSE j.head
  IN  pc = "cp" \/ (pc = "prog" /\ programs /\ source_readable) =>
        /\ block_of(target) \notin marked
        /\ \A q \in Pages : align_eq(q, target, ppb) /\ q >= target =>
                              page[q].kind = "erased"

\* A restart comes back to the last synchronization point, or to a checkpoint
\* made since by a recovery: its root, its cookie, and a queue that still has
\* every page that was live there.  The tail is the one of the checkpoint
\* unless find_head has moved it out of the way of the head.
ResumeFindsCheckpoint ==
  [][Resumes => \E s \in {saved} \cup mids :
       /\ j'.root = s.root
       /\ s.root # PAGE_NONE => buf'.cookie = s.cookie
       /\ DOMAIN s.live \subseteq queue(j'.tail, j'.head)
       /\ j'.tail = s.tail \/ align_eq(j'.head, s.tail, ppb)]_hvars

\* A recovery finishes only after every accepted page of the failed block has
\* been handed to the client since the last restart of the recovery.
RecoveryIsComplete == [][Commits /\ j.enum_done => owed = {}]_hvars

-----------------------------------------------------------------------------
(* What documents and headers say and the code does not keep: a run shows  *)
(* it for ResumeIsIntact, the README has the instances for the others.     *)

\* While a block is being recovered, its client can read the metadata of each
\* accepted page that is still in it; without them it takes a page for garbage
\* and does not rewrite it ("Valid pages are repacked into healthy blocks at
\* the head of the journal", docs/ftl_nand.md).
RecoveryReadsMeta ==
  pc = "idle" /\ client = "recovering" =>
    \A p \in owed : meta_readable(p) /\ read_meta(p) = accepted[p]

\* After a restart the pages of the checkpoint it came back to have their
\* metadata (README: "the state rolls back to the last synchronization point").
ResumeIsIntact ==
  [][Resumes => \A p \in DOMAIN accepted' :
       meta_readable(p)' /\ (read_meta(p) = accepted[p])']_hvars

\* Every page of the queue that dhara_journal_peek does not drop with its block
\* can be garbage collected, for which raw_gc has to read its metadata; also
\* pages that were written after the checkpoint a restart has come back to
\* ("Any uncommitted writes occurring after the last sync point are discarded
\* cleanly", docs/ftl_nand.md).
GarbageReadable ==
  pc = "idle" => \A p \in queue(j.tail, j.head) :
                   ~dhara_nand_is_bad(block_of(p)) => meta_readable(p)

\* A page handed out for recovery is a page of the chip ("recover_next points
\* to the next user page needing recovery", journal.h).
RecoverableInChip ==
  pc = "idle" /\ client = "recovering" /\ ~j.enum_done => j.recover_next \in Pages

=============================================================================
