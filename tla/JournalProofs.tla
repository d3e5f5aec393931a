---------------------------- MODULE JournalProofs ----------------------------
(***************************************************************************)
(* The journal keeps its types and its recovery state, for every geometry, *)
(* every client and any number of failed commands and power failures.      *)
(*                                                                         *)
(* The inductive invariant is the conjunction of TypeOK and RecoveryState: *)
(* neither is inductive alone, because a walk through the block in         *)
(* recovery stays on user pages only while recover_next is one, and the    *)
(* flags stay in step only while the types of the fields they guard hold.  *)
(* It is split into what the NAND commands and searches change (StoreOK)   *)
(* and what the control flow changes (ControlOK).                          *)
(***************************************************************************)
EXTENDS Journal, RingProofs

StoreOK ==
  /\ page \in [Pages -> Contents]
  /\ marked \subseteq Blocks
  /\ buf \in [cookie : Cookies, meta : Slices]
  /\ search \in [low : Nat, high : Int, at : Blocks]
  /\ fails \in Nat /\ crashes \in Nat

ControlOK ==
  /\ j \in Journals
  /\ pc \in {"idle", "scan", "prog", "cp"} \cup Resuming
  /\ call \in CallRecords
  /\ client \in {"normal", "recovering"}
  /\ RecoveryState

\* The control state outside a restart.
CallOK == ControlOK /\ pc \notin Resuming

Inv == TypeOK /\ RecoveryState

\* The invariant in the parts the proofs below treat separately: what is stored,
\* where control is, and the bound of the search for the last group.
LEMMA InvSplit ==
  Inv <=> StoreOK /\ ControlOK /\ (pc = "r_group" => search.high < cpb)
  BY DEF Inv, TypeOK, StoreOK, ControlOK

\* Outside a restart the bound of that search is not at stake.
LEMMA CallInv == (StoreOK /\ CallOK => Inv)'
  BY InvSplit DEF CallOK, Resuming, Inv, TypeOK, StoreOK, ControlOK

-----------------------------------------------------------------------------
(* The journal record                                                      *)

\* What a step of the control flow other than recovery itself leaves alone.
SameRecovery(a, b) ==
  /\ b.recover_next = a.recover_next /\ b.recover_root = a.recover_root
  /\ b.recover_meta = a.recover_meta /\ b.bad_meta = a.bad_meta
  /\ b.recovery = a.recovery /\ b.enum_done = a.enum_done

\* A step that leaves the recovery fields alone keeps them consistent.
LEMMA SameRecoveryFields ==
  ASSUME NEW a, NEW b, SameRecovery(a, b), RecoveryFields(a)
  PROVE  RecoveryFields(b)
  BY DEF SameRecovery, RecoveryFields

\* roll_stats keeps the journal well formed and its recovery fields as they are.
LEMMA RollStatsType ==
  ASSUME NEW jj \in Journals
  PROVE  roll_stats(jj) \in Journals /\ SameRecovery(jj, roll_stats(jj))
         /\ roll_stats(jj).head = jj.head /\ roll_stats(jj).root = jj.root
<1>1. (jj.epoch + 1) % EPOCHS \in 0 .. (EPOCHS - 1)
  BY EpochAssumption DEF Journals
<1> QED
  BY <1>1 DEF roll_stats, Journals, SameRecovery

\* So does moving the head to another user page.
LEMMA MoveHeadType ==
  ASSUME NEW jj \in Journals, NEW p \in UPages
  PROVE  move_head(jj, p) \in Journals /\ SameRecovery(jj, move_head(jj, p))
         /\ move_head(jj, p).head = p /\ move_head(jj, p).root = jj.root
<1> DEFINE moved == [jj EXCEPT !.head = p]
<1>1. moved \in Journals /\ SameRecovery(jj, moved)
      /\ moved.head = p /\ moved.root = jj.root
  BY DEF Journals, SameRecovery
<1>2. /\ roll_stats(moved) \in Journals /\ SameRecovery(moved, roll_stats(moved))
      /\ roll_stats(moved).head = p /\ roll_stats(moved).root = jj.root
  BY <1>1, RollStatsType
<1>3. SameRecovery(jj, roll_stats(moved))
  BY <1>1, <1>2 DEF SameRecovery
<1> QED
  BY <1>1, <1>2, <1>3 DEF move_head

\* skip_block moves the head to the first page of a block.
LEMMA SkipBlockType ==
  ASSUME NEW jj \in Journals
  PROVE  skip_block(jj) \in Journals /\ SameRecovery(jj, skip_block(jj))
         /\ skip_block(jj).root = jj.root
<1>1. block_of(jj.head) \in Blocks
  BY BlockOf DEF Journals, UPages
<1>2. first_page(next_block(block_of(jj.head))) \in UPages
  BY <1>1, NextBlock, FirstPage
<1> QED
  BY <1>2, MoveHeadType DEF skip_block

\* dequeue moves tails and root and nothing else.
LEMMA DequeueType ==
  ASSUME NEW jj \in Journals
  PROVE  dequeue(jj) \in Journals /\ SameRecovery(jj, dequeue(jj))
         /\ dequeue(jj).head = jj.head
<1>1. next_upage(jj.tail) \in UPages
  BY NextUPage DEF Journals
<1> QED
  BY <1>1 DEF dequeue, Journals, SameRecovery, UPagesOrNone

\* clear_recovery leaves a journal whose recovery fields are all reset.
LEMMA ClearRecoveryType ==
  ASSUME NEW jj \in Journals
  PROVE  clear_recovery(jj) \in Journals /\ RecoveryFields(clear_recovery(jj))
         /\ ~clear_recovery(jj).recovery
         /\ clear_recovery(jj).head = jj.head
  BY DEF clear_recovery, Journals, RecoveryFields, UPagesOrNone, RecoverPages

\* Counting a bad block in prepare_head changes bb_current only.
LEMMA CountedType ==
  ASSUME j \in Journals
  PROVE  counted \in Journals /\ SameRecovery(j, counted)
         /\ counted.head = j.head /\ counted.root = j.root
  BY DEF counted, Journals, SameRecovery

\* The page a recovery starts with.
LEMMA RecoverStart ==
  ASSUME NEW p \in UPagesOrNone
  PROVE  recover_start(p) \in RecoverPages /\ recover_start(p) # PAGE_NONE
<1>1. CASE p \in UPages
  <2>1. p \in Pages
    BY <1>1 DEF UPages
  <2>2. recover_start(p) \in UPages
    BY <2>1, AlignDownBlock, BlockOf, FirstPage DEF recover_start
  <2> QED
    BY <2>2, PageNone DEF RecoverPages, UPagesOrNone
<1>2. CASE p = PAGE_NONE
  BY <1>2, PageNone DEF recover_start, RecoverPages
<1> QED
  BY <1>1, <1>2 DEF UPagesOrNone

-----------------------------------------------------------------------------
(* Steps of a call                                                         *)

\* Between calls the call record is a record, and dumps nothing.
LEMMA NoCallOK == NoCall \in CallRecords /\ ~NoCall.dumping
  BY DEF NoCall, CallRecords, RecoverPages, UPagesOrNone

\* A call returns with a well-formed journal; E_RECOVER comes from a journal
\* that is in recovery.
LEMMA ReturnControl ==
  ASSUME NEW jj \in Journals, NEW err, Return(jj, err), RecoveryFields(jj),
         err = "RECOVER" => jj.recovery, client \in {"normal", "recovering"}
  PROVE  CallOK'
<1>1. j' \in Journals /\ SameRecovery(jj, j')
  BY DequeueType DEF Return, SameRecovery
<1>2. RecoveryFields(j')
  BY <1>1, SameRecoveryFields
<1>3. call' \in CallRecords /\ ~call'.dumping /\ pc' = "idle"
  BY NoCallOK DEF Return
<1>4. client' \in {"normal", "recovering"}
  BY DEF Return
<1>5. client' = "recovering" => jj.recovery
  BY DEF Return
<1>6. client' = "recovering" => j'.recovery
  BY <1>1, <1>5 DEF SameRecovery
<1>7. pc' \notin Resuming
  BY <1>3 DEF Resuming
<1>8. RecoveryState'
  BY <1>2, <1>3, <1>6, <1>7 DEF RecoveryState, RecoveryFields
<1> QED
  BY <1>1, <1>3, <1>4, <1>7, <1>8 DEF CallOK, ControlOK

\* prepare_head, for a call that dumps metadata or for any other.
LEMMA PrepareHeadControl ==
  ASSUME NEW jj \in Journals, NEW c \in CallRecords, prepare_head(jj, c),
         RecoveryFields(jj), client \in {"normal", "recovering"},
         client = "recovering" => jj.recovery,
         c.dumping => ~jj.recovery /\ jj.recover_next # PAGE_NONE
  PROVE  CallOK'
<1>1. CASE Return(jj, "JOURNAL_FULL")
  BY <1>1, ReturnControl
<1>2. CASE /\ j' = [jj EXCEPT !.dirty = TRUE]
           /\ pc' = IF is_aligned(jj.head, ppb) THEN "scan" ELSE "prog"
           /\ call' = [c EXCEPT !.scans = 0]
           /\ UNCHANGED client
  <2>1. j' \in Journals /\ SameRecovery(jj, j')
    BY <1>2 DEF Journals, SameRecovery
  <2>2. RecoveryFields(j')
    BY <2>1, SameRecoveryFields
  <2>3. call' \in CallRecords /\ call'.dumping = c.dumping
    BY <1>2 DEF CallRecords
  <2>4. pc' \in {"scan", "prog"}
    BY <1>2
  <2>5. RecoveryState'
    BY <1>2, <2>1, <2>2, <2>3, <2>4
    DEF RecoveryState, RecoveryFields, SameRecovery, Resuming
  <2> QED
    BY <1>2, <2>1, <2>3, <2>4, <2>5 DEF CallOK, ControlOK, Resuming
<1> QED
  BY <1>1, <1>2 DEF prepare_head

\* dump_meta after a failed program: another try, or the call returns.
LEMMA DumpFailedControl ==
  ASSUME ControlOK, dump_failed, call.dumping
  PROVE  CallOK'
<1> DEFINE k == skip_block(counted)
<1>1. counted \in Journals /\ SameRecovery(j, counted) /\ RecoveryFields(counted)
  BY CountedType, SameRecoveryFields DEF ControlOK, RecoveryState
<1>2. k \in Journals /\ SameRecovery(counted, k) /\ RecoveryFields(k)
  BY <1>1, SkipBlockType, SameRecoveryFields
<1>3. ~k.recovery /\ k.recover_next # PAGE_NONE
  BY <1>1, <1>2 DEF SameRecovery, ControlOK, RecoveryState
<1>4. client \in {"normal", "recovering"} /\ client # "recovering"
  BY DEF ControlOK, RecoveryState
<1>5. [call EXCEPT !.dumps = @ + 1] \in CallRecords
  BY DEF ControlOK, CallRecords
<1> HIDE DEF k
<1>6. CASE Return(counted, "JOURNAL_FULL")
  BY <1>1, <1>4, <1>6, ReturnControl
<1>7. CASE Return(k, "TOO_BAD")
  BY <1>2, <1>4, <1>7, ReturnControl
<1>8. CASE prepare_head(k, [call EXCEPT !.dumps = @ + 1])
  BY <1>2, <1>3, <1>4, <1>5, <1>8, PrepareHeadControl
<1> QED
  BY <1>6, <1>7, <1>8 DEF dump_failed, k

\* recover_from after a failed erase or program: restart the recovery, begin one
\* or dump the buffered metadata first; none leaves a recovery without a next page.
LEMMA RecoverFromControl ==
  ASSUME ControlOK, recover_from, ~call.dumping
  PROVE  CallOK'
<1> DEFINE k == skip_block(counted)
           start == [k EXCEPT !.recover_root = j.root,
                              !.recover_next = recover_start(j.root)]
           again == [k EXCEPT
                       !.bad_meta = @ \/ (k.recover_meta # PAGE_NONE
                                          /\ align_eq(k.recover_meta, j.head, ppb)),
                       !.enum_done = FALSE,
                       !.recover_next = recover_start(k.recover_root),
                       !.root = k.recover_root]
<1>1. counted \in Journals /\ SameRecovery(j, counted) /\ RecoveryFields(counted)
  BY CountedType, SameRecoveryFields DEF ControlOK, RecoveryState
<1>2. k \in Journals /\ SameRecovery(counted, k) /\ RecoveryFields(k)
  BY <1>1, SkipBlockType, SameRecoveryFields
<1>3. SameRecovery(j, k)
  BY <1>1, <1>2 DEF SameRecovery
<1>4. client \in {"normal", "recovering"} /\ (client = "recovering" => k.recovery)
  BY <1>3 DEF ControlOK, RecoveryState, SameRecovery
<1>5. call \in CallRecords
  BY DEF ControlOK
<1> HIDE DEF k
<1>6. CASE Return(counted, "JOURNAL_FULL")
  BY <1>1, <1>4, <1>6, ReturnControl
<1>7. CASE j.recovery /\ restart_recovery(k, j.head)
  <2>1. /\ recover_start(k.recover_root) \in RecoverPages
        /\ recover_start(k.recover_root) # PAGE_NONE
    BY <1>2, RecoverStart DEF Journals
  <2>2. again \in Journals
    BY <1>2, <2>1 DEF Journals
  <2>3. again.recovery /\ RecoveryFields(again)
    BY <1>2, <1>3, <1>7, <2>1 DEF RecoveryFields, SameRecovery, Journals
  <2>4. Return(again, "RECOVER")
    BY <1>7 DEF restart_recovery
  <2> HIDE DEF again
  <2> QED
    BY <2>2, <2>3, <2>4, <1>4, ReturnControl
<1>8. CASE Return(k, "TOO_BAD")
  BY <1>2, <1>4, <1>8, ReturnControl
<1>9. CASE prepare_head(k, [call EXCEPT !.tries = @ + 1])
  <2>1. [call EXCEPT !.tries = @ + 1] \in CallRecords
        /\ ~[call EXCEPT !.tries = @ + 1].dumping
    BY <1>5 DEF CallRecords
  <2> QED
    BY <1>2, <1>4, <1>9, <2>1, PrepareHeadControl
<1>10. ~j.recovery => /\ start \in Journals /\ RecoveryFields(start)
                      /\ ~start.recovery /\ start.recover_next # PAGE_NONE
  <2>1. j.root \in UPagesOrNone
    BY DEF ControlOK, Journals
  <2>2. recover_start(j.root) \in RecoverPages /\ recover_start(j.root) # PAGE_NONE
    BY <2>1, RecoverStart
  <2>3. start \in Journals
    BY <1>2, <2>1, <2>2 DEF Journals
  <2> QED
    BY <1>2, <1>3, <2>2, <2>3 DEF RecoveryFields, SameRecovery, Journals
<1>11. CASE ~j.recovery /\ Return([start EXCEPT !.recovery = TRUE], "RECOVER")
  <2> DEFINE s == [start EXCEPT !.recovery = TRUE]
  <2>1. s \in Journals /\ s.recovery /\ RecoveryFields(s)
    BY <1>10, <1>11 DEF Journals, RecoveryFields
  <2> HIDE DEF s
  <2> QED
    BY <2>1, <1>4, <1>11, ReturnControl DEF s
<1>12. CASE ~j.recovery /\ prepare_head(start, [call EXCEPT !.dumping = TRUE])
  <2>1. [call EXCEPT !.dumping = TRUE] \in CallRecords
    BY <1>5 DEF CallRecords
  <2>2. client # "recovering"
    BY <1>12 DEF ControlOK, RecoveryState
  <2> HIDE DEF start
  <2> QED
    BY <1>4, <1>10, <1>12, <2>1, <2>2, PrepareHeadControl
<1> QED
  BY <1>6, <1>7, <1>8, <1>9, <1>11, <1>12 DEF recover_from, k, start

\* A failed command, while dumping metadata or not.
LEMMA BadBlockControl ==
  ASSUME ControlOK, BadBlock
  PROVE  CallOK'
<1>1. CASE call.dumping
  BY <1>1, DumpFailedControl DEF BadBlock
<1>2. CASE ~call.dumping
  BY <1>2, RecoverFromControl DEF BadBlock
<1> QED
  BY <1>1, <1>2

\* Marking a block bad adds a block of the chip to the marked ones, or none.
LEMMA MarkBad ==
  ASSUME NEW bs, NEW m \in mark_bad(bs), marked \subseteq Blocks
  PROVE  m \subseteq Blocks
  BY DEF mark_bad

\* What a failed command stores.
LEMMA BadBlockStore ==
  ASSUME StoreOK, BadBlock, page' \in [Pages -> Contents]
  PROVE  StoreOK'
<1>1. marked' \subseteq Blocks
  BY MarkBad DEF BadBlock, dump_failed, recover_from, restart_recovery, StoreOK
<1> QED
  BY <1>1 DEF BadBlock, StoreOK

\* The chip after a program or an erase, successful or not.
LEMMA ProgrammedType ==
  ASSUME page \in [Pages -> Contents], NEW p, NEW c \in Contents,
         NEW q \in programmed(p, c)
  PROVE  q \in [Pages -> Contents]
  BY DEF programmed, Contents

\* Torn pages and erased blocks are contents a chip can have.
LEMMA TornType ==
  ASSUME page \in [Pages -> Contents], NEW x
  PROVE  /\ program_torn(x) \in [Pages -> Contents]
         /\ erase_torn(x) \in [Pages -> Contents]
         /\ erase_done(x) \in [Pages -> Contents]
  BY DEF program_torn, erase_torn, erase_done, Contents

\* What a call programs at the head is something a page can hold.
LEMMA ContentsType ==
  ASSUME StoreOK, source_readable, NEW c \in contents
  PROVE  c \in Contents
<1>1. CASE call.dumping
  BY <1>1 DEF contents, StoreOK, Contents, Dumps
<1>2. CASE ~call.dumping /\ call.op = "copy"
  <2>1. call.src \in Pages
    BY <1>2 DEF source_readable, readable
  <2> QED
    BY <1>2, <2>1 DEF contents, StoreOK
<1>3. CASE ~call.dumping /\ call.op # "copy"
  BY <1>3 DEF contents, Contents
<1> QED
  BY <1>1, <1>2, <1>3

\* The chip after the program at the head, which holds what the call writes.
LEMMA ProgramOkType ==
  ASSUME StoreOK, ProgramOk
  PROVE  page' \in [Pages -> Contents]
<1>1. CASE programs
  <2>1. PICK c \in contents : page' \in programmed(j.head, c)
    BY <1>1 DEF ProgramOk
  <2>2. c \in Contents
    BY <2>1, ContentsType DEF ProgramOk
  <2> QED
    BY <2>1, <2>2, ProgrammedType DEF StoreOK
<1>2. CASE ~programs
  BY <1>2 DEF ProgramOk, StoreOK
<1> QED
  BY <1>1, <1>2

-----------------------------------------------------------------------------
(* Each step of a call preserves the invariant                             *)

\* prepare_head passing a bad block preserves the invariant.
LEMMA SkipBadInv ==
  ASSUME Inv, SkipBad
  PROVE  Inv'
<1>1. StoreOK /\ ControlOK
  BY InvSplit
<1>2. StoreOK'
  BY <1>1 DEF SkipBad, StoreOK
<1> DEFINE k == skip_block(counted)
<1>3. counted \in Journals /\ SameRecovery(j, counted) /\ RecoveryFields(counted)
  BY <1>1, CountedType, SameRecoveryFields DEF ControlOK, RecoveryState
<1>4. k \in Journals /\ SameRecovery(counted, k) /\ RecoveryFields(k)
  BY <1>3, SkipBlockType, SameRecoveryFields
<1>5. client \in {"normal", "recovering"}
  BY <1>1 DEF ControlOK
<1> HIDE DEF k
<1>6. CASE Return(counted, "JOURNAL_FULL")
  BY <1>2, <1>3, <1>5, <1>6, ReturnControl, CallInv
<1>7. CASE Return(k, "TOO_BAD")
  BY <1>2, <1>4, <1>5, <1>7, ReturnControl, CallInv
<1>8. CASE /\ j' = k
           /\ call' = [call EXCEPT !.scans = @ + 1]
           /\ UNCHANGED <<pc, client>>
  <2>1. pc = "scan"
    BY DEF SkipBad
  <2>2. call' \in CallRecords /\ call'.dumping = call.dumping
    BY <1>1, <1>8 DEF ControlOK, CallRecords
  <2>3. SameRecovery(j, j')
    BY <1>3, <1>4, <1>8 DEF SameRecovery
  <2>4. RecoveryState'
    BY <1>1, <1>4, <1>8, <2>1, <2>2, <2>3
    DEF ControlOK, RecoveryState, RecoveryFields, SameRecovery, Resuming
  <2>5. CallOK'
    BY <1>1, <1>4, <1>5, <1>8, <2>1, <2>2, <2>4 DEF CallOK, ControlOK, Resuming
  <2> QED
    BY <1>2, <2>5, CallInv
<1> QED
  BY <1>6, <1>7, <1>8 DEF SkipBad, k

\* prepare_head erasing the block, or finding nothing to erase, preserves it.
LEMMA EraseOkInv ==
  ASSUME Inv, EraseOk
  PROVE  Inv'
<1>1. StoreOK /\ ControlOK
  BY InvSplit
<1>2. page' \in [Pages -> Contents]
  BY <1>1, TornType DEF EraseOk, StoreOK
<1>3. StoreOK'
  BY <1>1, <1>2 DEF EraseOk, StoreOK
<1>4. call' \in CallRecords /\ call'.dumping = call.dumping
  BY <1>1 DEF EraseOk, ControlOK, CallRecords
<1>5. RecoveryState'
  BY <1>1, <1>4 DEF EraseOk, ControlOK, RecoveryState, RecoveryFields, Resuming
<1>6. CallOK'
  BY <1>1, <1>4, <1>5 DEF EraseOk, CallOK, ControlOK, Resuming
<1> QED
  BY <1>3, <1>6, CallInv

\* A program or erase that fails.
LEMMA FailureInv ==
  ASSUME Inv, EraseFails \/ ProgramFails \/ CheckpointFails
  PROVE  Inv'
<1>1. StoreOK /\ ControlOK
  BY InvSplit
<1>2. BadBlock
  BY DEF EraseFails, ProgramFails, CheckpointFails
<1>3. page' \in [Pages -> Contents]
  BY <1>1, TornType DEF EraseFails, ProgramFails, CheckpointFails, StoreOK
<1>4. StoreOK' /\ CallOK'
  BY <1>1, <1>2, <1>3, BadBlockStore, BadBlockControl
<1> QED
  BY <1>4, CallInv

\* push_meta after a successful program of a user page preserves it.
LEMMA PushMetaInv ==
  ASSUME Inv, PushMeta
  PROVE  Inv'
<1>1. StoreOK /\ ControlOK
  BY InvSplit
<1>2. page' \in [Pages -> Contents]
  BY <1>1, ProgramOkType DEF PushMeta
<1>3. buf' \in [cookie : Cookies, meta : Slices]
  <2>1. call.meta \in Meta \cup {NO_META}
    BY <1>1 DEF ControlOK, CallRecords
  <2> QED
    BY <1>1, <2>1 DEF PushMeta, StoreOK, Slices
<1>4. StoreOK'
  BY <1>1, <1>2, <1>3 DEF PushMeta, StoreOK
<1>5. pc = "prog" /\ ~call.dumping /\ j \in Journals /\ j.head \in UPages
  BY <1>1 DEF PushMeta, ProgramOk, ControlOK, Journals
<1>6. CASE is_aligned(j.head + 2, ppc)
  <2>1. pc' = "cp" /\ UNCHANGED <<j, call, client>>
    BY <1>6 DEF PushMeta
  <2>2. RecoveryState'
    BY <1>1, <1>5, <1>6, <2>1 DEF ControlOK, RecoveryState, RecoveryFields, Resuming
  <2>3. CallOK'
    BY <1>1, <2>1, <2>2 DEF CallOK, ControlOK, Resuming
  <2> QED
    BY <1>4, <2>3, CallInv
<1>7. CASE ~is_aligned(j.head + 2, ppc)
  <2> DEFINE k == [j EXCEPT !.root = j.head, !.head = j.head + 1]
  <2>1. j.head + 1 \in UPages
    <3>1. j.head \in Nat /\ j.head + 1 < chip_size /\ chip_size \in Nat
      BY <1>5, UPageOffset, Sizes
    <3>2. (j.head + 1) + 1 = j.head + 2
      BY <3>1
    <3> QED
      BY <1>7, <3>1, <3>2 DEF UPages, Pages
  <2>2. k \in Journals /\ SameRecovery(j, k)
    BY <1>5, <2>1 DEF Journals, SameRecovery, UPagesOrNone
  <2>3. RecoveryFields(k)
    BY <1>1, <2>2, SameRecoveryFields DEF ControlOK, RecoveryState
  <2>4. Return(k, "OK") /\ client \in {"normal", "recovering"}
    BY <1>1, <1>7 DEF PushMeta, ControlOK
  <2> HIDE DEF k
  <2>5. CallOK'
    BY <2>2, <2>3, <2>4, ReturnControl
  <2> QED
    BY <1>4, <2>5, CallInv
<1> QED
  BY <1>6, <1>7

\* The metadata buffer filled with 0xff is a metadata buffer.
LEMMA NoMetaType == NoMeta \in Slices
  BY DEF NoMeta, Slices

\* dump_meta, successful, preserves the invariant and begins the recovery.
LEMMA DumpMetaInv ==
  ASSUME Inv, DumpMeta
  PROVE  Inv'
<1>1. StoreOK /\ ControlOK
  BY InvSplit
<1>2. page' \in [Pages -> Contents]
  BY <1>1, ProgramOkType DEF DumpMeta
<1>3. StoreOK'
  BY <1>1, <1>2, NoMetaType DEF DumpMeta, StoreOK
<1> DEFINE m == move_head(j, next_upage(j.head))
           k == [m EXCEPT !.recover_meta = j.head, !.recovery = TRUE]
<1>4. j \in Journals /\ j.head \in UPages
  BY <1>1 DEF ControlOK, Journals
<1>5. m \in Journals /\ SameRecovery(j, m)
  BY <1>4, NextUPage, MoveHeadType
<1> HIDE DEF m
<1>6. k \in Journals
  BY <1>4, <1>5 DEF Journals, UPagesOrNone
<1>7. k.recovery /\ RecoveryFields(k)
  <2>1. ~j.enum_done /\ ~j.bad_meta /\ j.recover_next # PAGE_NONE
    BY <1>1 DEF DumpMeta, ControlOK, RecoveryState, RecoveryFields
  <2> QED
    BY <1>5, <2>1 DEF SameRecovery, RecoveryFields, Journals
<1>8. Return(k, "RECOVER") /\ client \in {"normal", "recovering"}
  BY <1>1 DEF DumpMeta, ControlOK, m
<1> HIDE DEF k
<1>9. CallOK'
  BY <1>6, <1>7, <1>8, ReturnControl
<1> QED
  BY <1>3, <1>9, CallInv

\* A copy whose source cannot be read returns without a trace.
LEMMA CopyUnreadableInv ==
  ASSUME Inv, CopyUnreadable
  PROVE  Inv'
<1>1. StoreOK /\ ControlOK
  BY InvSplit
<1>2. StoreOK'
  BY <1>1 DEF CopyUnreadable, StoreOK
<1>3. CallOK'
  BY <1>1, ReturnControl DEF CopyUnreadable, ControlOK, RecoveryState
<1> QED
  BY <1>2, <1>3, CallInv

\* push_meta after a successful program of the checkpoint page preserves the
\* invariant, also when it finishes a recovery.
LEMMA CheckpointInv ==
  ASSUME Inv, Checkpoint
  PROVE  Inv'
<1>1. StoreOK /\ ControlOK
  BY InvSplit
<1>2. j \in Journals /\ j.head \in UPages /\ RecoveryFields(j)
  BY <1>1 DEF ControlOK, Journals, RecoveryState
<1>3. checkpoint \in Contents
  BY <1>1, <1>2 DEF checkpoint, Checkpoints, Contents, StoreOK, Journals
<1>4. page' \in [Pages -> Contents]
  BY <1>1, <1>3, ProgrammedType DEF Checkpoint, StoreOK
<1>5. marked' \subseteq Blocks
  BY <1>1, MarkBad DEF Checkpoint, StoreOK
<1>6. StoreOK'
  BY <1>1, <1>4, <1>5 DEF Checkpoint, StoreOK
<1> DEFINE d == [j EXCEPT !.dirty = FALSE, !.root = j.head]
           clean == move_head(d, next_upage(j.head))
           after == IF j.enum_done THEN clear_recovery(clean) ELSE clean
           k == [after EXCEPT !.tail_sync =
                   IF after.recovery THEN @ ELSE after.tail]
<1>7. d \in Journals /\ SameRecovery(j, d)
  BY <1>2 DEF Journals, SameRecovery, UPagesOrNone
<1> HIDE DEF d
<1>8. clean \in Journals /\ SameRecovery(d, clean) /\ RecoveryFields(clean)
  <2>1. clean \in Journals /\ SameRecovery(d, clean)
    BY <1>2, <1>7, NextUPage, MoveHeadType
  <2> HIDE DEF clean
  <2> QED
    BY <1>2, <1>7, <2>1, SameRecoveryFields
<1> HIDE DEF clean
<1>9. after \in Journals /\ RecoveryFields(after)
  BY <1>8, ClearRecoveryType
<1> HIDE DEF after
<1>10. k \in Journals /\ SameRecovery(after, k)
  BY <1>9 DEF Journals, SameRecovery
<1>11. RecoveryFields(k)
  BY <1>9, <1>10, SameRecoveryFields
<1>12. Return(k, "OK") /\ client \in {"normal", "recovering"}
  BY <1>1 DEF Checkpoint, ControlOK, d, clean, after
<1> HIDE DEF k
<1>13. CallOK'
  BY <1>10, <1>11, <1>12, ReturnControl
<1> QED
  BY <1>6, <1>13, CallInv

-----------------------------------------------------------------------------
(* Each call of the client preserves the invariant                         *)

\* Beginning a call, on a journal jj that differs from j in its tail and root
\* or in the page next to be recovered.
LEMMA BeginInv ==
  ASSUME Inv, NEW jj \in Journals, RecoveryFields(jj),
         client = "recovering" => jj.recovery,
         NEW op \in {"enqueue", "copy", "pad"}, NEW src \in RecoverPages,
         NEW m \in Meta \cup {NO_META}, NEW deq \in BOOLEAN,
         Begin(jj, op, src, m, deq)
  PROVE  Inv'
<1>1. StoreOK /\ ControlOK
  BY InvSplit
<1>2. StoreOK'
  BY <1>1 DEF Begin, StoreOK
<1> DEFINE c == [NoCall EXCEPT !.op = op, !.src = src, !.meta = m, !.dequeue = deq]
<1>3. c \in CallRecords /\ ~c.dumping
  BY NoCallOK DEF CallRecords
<1>4. prepare_head(jj, c) /\ client \in {"normal", "recovering"}
  BY <1>1 DEF Begin, ControlOK
<1> HIDE DEF c
<1>5. CallOK'
  BY <1>3, <1>4, PrepareHeadControl
<1> QED
  BY <1>2, <1>5, CallInv

\* A step between calls that starts none.
LEMMA BetweenCallsInv ==
  ASSUME Inv, pc = "idle", UNCHANGED <<pc, call>>, StoreOK',
         j' \in Journals, RecoveryFields(j'),
         client' \in {"normal", "recovering"},
         client' = "recovering" => j'.recovery
  PROVE  Inv'
<1>1. StoreOK /\ ControlOK
  BY InvSplit
<1>2. pc' = "idle" /\ call' = call /\ call \in CallRecords /\ ~call.dumping
  BY <1>1 DEF ControlOK, RecoveryState
<1>3. RecoveryState'
  BY <1>2 DEF RecoveryState, RecoveryFields, Resuming
<1>4. CallOK'
  BY <1>2, <1>3 DEF CallOK, ControlOK, Resuming
<1> QED
  BY <1>4, CallInv

\* A step that only looks changes nothing that is stored.
LEMMA QuietStore ==
  ASSUME Inv, Quiet
  PROVE  StoreOK' /\ UNCHANGED <<pc, call>>
  BY InvSplit DEF Quiet, StoreOK

\* The metadata of a user page that can be read is a metadata slice.
LEMMA ReadMetaType ==
  ASSUME StoreOK, NEW p \in UPages, meta_readable(p)
  PROVE  read_meta(p) \in Meta \cup {NO_META}
<1>1. p % ppc \in Slots
  BY UPageOffset DEF Slots
<1>2. CASE buffered(p)
  BY <1>1, <1>2 DEF read_meta, StoreOK, Slices
<1>3. CASE ~buffered(p)
  <2> DEFINE c == page[meta_page(p)]
  <2>1. c \in Contents
    BY <1>3 DEF meta_readable, readable, StoreOK
  <2>2. c.kind \in {"cp", "dump"} => c.meta \in Slices
    BY <2>1 DEF Contents, Erased, Torn, UserPages, Dumps, Checkpoints
  <2> HIDE DEF c
  <2>3. read_meta(p) = IF c.kind \in {"cp", "dump"} THEN c.meta[p % ppc] ELSE NO_META
    BY <1>3 DEF read_meta, c
  <2> QED
    BY <1>1, <2>2, <2>3 DEF Slices
<1> QED
  BY <1>2, <1>3

\* pad_queue, by itself or at the end of a recovery, preserves the invariant.
LEMMA PadQueueInv ==
  ASSUME Inv, pc = "idle", pad_queue(j)
  PROVE  Inv'
<1>1. StoreOK /\ ControlOK
  BY InvSplit
<1>2. /\ j \in Journals /\ RecoveryFields(j) /\ (client = "recovering" => j.recovery)
      /\ j.root \in UPagesOrNone
  BY <1>1 DEF ControlOK, RecoveryState, Journals
<1>3. PAGE_NONE \in RecoverPages /\ UPages \subseteq RecoverPages
  BY DEF RecoverPages, UPagesOrNone
<1>4. CASE Begin(j, "pad", PAGE_NONE, NO_META, FALSE)
  BY <1>2, <1>3, <1>4, BeginInv
<1>5. CASE /\ j.root # PAGE_NONE /\ meta_readable(j.root)
           /\ Begin(j, "copy", j.root, read_meta(j.root), FALSE)
  <2>1. j.root \in UPages
    BY <1>2, <1>5 DEF UPagesOrNone
  <2>2. read_meta(j.root) \in Meta \cup {NO_META}
    BY <1>1, <1>5, <2>1, ReadMetaType
  <2>3. j.root \in RecoverPages
    BY <2>1, <1>3
  <2> QED
    BY <1>2, <1>5, <2>2, <2>3, BeginInv
<1>6. CASE /\ \E c \in Cookies : buf' = [buf EXCEPT !.cookie = c]
           /\ j' = j /\ client' = "normal"
           /\ UNCHANGED <<page, marked, pc, call, search, fails, crashes>>
  <2>1. StoreOK'
    BY <1>1, <1>6 DEF StoreOK
  <2> QED
    BY <1>2, <1>6, <2>1, BetweenCallsInv
<1> QED
  BY <1>4, <1>5, <1>6 DEF pad_queue

\* Enqueue, copy, pad and clear preserve the invariant.
LEMMA ClientInv ==
  ASSUME Inv, Enqueue \/ Copy \/ Pad \/ Clear
  PROVE  Inv'
<1>1. StoreOK /\ ControlOK
  BY InvSplit
<1>2. j \in Journals /\ RecoveryFields(j) /\ (client = "recovering" => j.recovery)
  BY <1>1 DEF ControlOK, RecoveryState
<1>3. PAGE_NONE \in RecoverPages /\ UPages \subseteq RecoverPages
  BY DEF RecoverPages, UPagesOrNone
<1>4. CASE Enqueue
  <2>1. PICK m \in Meta : Begin(j, "enqueue", PAGE_NONE, m, FALSE)
    BY <1>4 DEF Enqueue
  <2> QED
    BY <1>2, <1>3, <2>1, BeginInv
<1>5. CASE Copy
  <2>1. PICK p \in queue(j.tail, j.head), m \in Meta : Begin(j, "copy", p, m, FALSE)
    BY <1>5 DEF Copy
  <2>2. p \in RecoverPages
    BY <1>3, <2>1 DEF queue
  <2> QED
    BY <1>2, <2>1, <2>2, BeginInv
<1>6. CASE Pad
  BY <1>6, PadQueueInv DEF Pad
<1>7. CASE Clear
  <2>1. StoreOK'
    BY <1>1, <1>7, NoMetaType DEF Clear, StoreOK
  <2>2. j' \in Journals /\ SameRecovery(j, j')
    BY <1>2, <1>7 DEF Clear, Journals, SameRecovery, UPagesOrNone
  <2>3. RecoveryFields(j')
    BY <1>2, <2>2, SameRecoveryFields
  <2> QED
    BY <1>7, <2>1, <2>2, <2>3, BetweenCallsInv DEF Clear
<1> QED
  BY <1>4, <1>5, <1>6, <1>7

\* A garbage collection step preserves the invariant.
LEMMA GcInv ==
  ASSUME Inv, Gc
  PROVE  Inv'
<1>1. StoreOK /\ ControlOK
  BY InvSplit
<1>2. j \in Journals /\ RecoveryFields(j) /\ j.root \in UPagesOrNone
  BY <1>1 DEF ControlOK, RecoveryState, Journals
<1>3. pc = "idle" /\ client = "normal"
  BY DEF Gc
<1>4. PICK h \in UPages, r \in {j.root, PAGE_NONE} :
        LET jj == [j EXCEPT !.tail = h, !.root = r]
        IN  \/ j' = jj /\ Quiet /\ UNCHANGED client
            \/ j' = dequeue(jj) /\ Quiet /\ UNCHANGED client
            \/ \E m \in Meta : Begin(jj, "copy", h, m, TRUE)
  BY DEF Gc
<1> DEFINE jj == [j EXCEPT !.tail = h, !.root = r]
<1>5. jj \in Journals /\ SameRecovery(j, jj)
  BY <1>2, <1>4 DEF Journals, SameRecovery, UPagesOrNone
<1>6. RecoveryFields(jj)
  BY <1>2, <1>5, SameRecoveryFields
<1>7. h \in RecoverPages
  BY DEF RecoverPages, UPagesOrNone
<1>8. \/ j' = jj /\ Quiet /\ UNCHANGED client
      \/ j' = dequeue(jj) /\ Quiet /\ UNCHANGED client
      \/ \E m \in Meta : Begin(jj, "copy", h, m, TRUE)
  BY <1>4
<1> HIDE DEF jj
<1>9. CASE j' = jj /\ Quiet /\ UNCHANGED client
  BY <1>3, <1>5, <1>6, <1>9, QuietStore, BetweenCallsInv
<1>10. CASE j' = dequeue(jj) /\ Quiet /\ UNCHANGED client
  <2>1. j' \in Journals /\ RecoveryFields(j')
    BY <1>5, <1>6, <1>10, DequeueType, SameRecoveryFields
  <2> QED
    BY <1>3, <1>10, <2>1, QuietStore, BetweenCallsInv
<1>11. CASE \E m \in Meta : Begin(jj, "copy", h, m, TRUE)
  <2>1. PICK m \in Meta : Begin(jj, "copy", h, m, TRUE)
    BY <1>11
  <2> QED
    BY <1>3, <1>5, <1>6, <1>7, <2>1, BeginInv
<1> QED
  BY <1>8, <1>9, <1>10, <1>11

\* One iteration of try_recover preserves the invariant: the enumeration ends
\* only at recover_root.
LEMMA RecoverInv ==
  ASSUME Inv, Recover
  PROVE  Inv'
<1>1. StoreOK /\ ControlOK
  BY InvSplit
<1>2. j \in Journals /\ RecoveryFields(j) /\ pc = "idle" /\ client = "recovering"
      /\ j.recovery
  BY <1>1 DEF ControlOK, RecoveryState, Recover
<1>3. j.recover_next \in RecoverPages
  BY <1>2 DEF Journals
<1>4. CASE j.enum_done
  BY <1>2, <1>4, PadQueueInv DEF Recover
<1>5. CASE ~j.enum_done
  <2> DEFINE jj == next_recoverable
  <2>1. next_upage(j.recover_next) \in UPages
    <3>1. CASE j.recover_next \in UPages
      BY <3>1, NextUPage
    <3>2. CASE j.recover_next \notin UPages
      BY <1>3, <3>2, PageNone, NextUPageOutside, Sizes, GeometryAssumption
      DEF RecoverPages, UPagesOrNone
    <3> QED
      BY <3>1, <3>2
  <2>2. jj \in Journals
    BY <1>2, <2>1 DEF next_recoverable, Journals, RecoverPages, UPagesOrNone
  <2>3. jj.recovery /\ RecoveryFields(jj)
    <3>1. next_upage(j.recover_next) # PAGE_NONE
      BY <2>1, PageNone
    <3> QED
      BY <1>2, <1>5, <3>1 DEF next_recoverable, RecoveryFields, Journals
  <2>4. \/ j' = jj /\ Quiet /\ client' \in {"normal", "recovering"}
        \/ \E m \in Meta : Begin(jj, "copy", j.recover_next, m, FALSE)
    BY <1>2, <1>5 DEF Recover
  <2> HIDE DEF jj
  <2>5. CASE j' = jj /\ Quiet /\ client' \in {"normal", "recovering"}
    BY <1>2, <2>2, <2>3, <2>5, QuietStore, BetweenCallsInv
  <2>6. CASE \E m \in Meta : Begin(jj, "copy", j.recover_next, m, FALSE)
    <3>1. PICK m \in Meta : Begin(jj, "copy", j.recover_next, m, FALSE)
      BY <2>6
    <3> QED
      BY <1>3, <2>2, <2>3, <3>1, BeginInv
  <2> QED
    BY <2>4, <2>5, <2>6
<1> QED
  BY <1>4, <1>5

-----------------------------------------------------------------------------
(* Power failure and restart preserve the invariant                        *)

\* The parts of InvSplit, after a step, give the invariant.
LEMMA InvJoin ==
  (StoreOK /\ ControlOK /\ (pc = "r_group" => search.high < cpb) => Inv)'
  BY DEF Inv, TypeOK, StoreOK, ControlOK

\* reset_journal leaves a well-formed journal.
LEMMA EmptyJournalType ==
  EmptyJournal \in Journals /\ RecoveryFields(EmptyJournal)
<1>1. num_blocks \div 64 \in Nat
  BY GeometryAssumption
<1>2. 0 \in UPages
  <2>1. 0 \in Blocks
    BY GeometryAssumption DEF Blocks
  <2>2. first_page(0) = 0
    BY Sizes DEF first_page
  <2> QED
    BY <2>1, <2>2, FirstPage
<1>3. 0 \in 0 .. (EPOCHS - 1)
  BY EpochAssumption
<1> QED
  BY <1>1, <1>2, <1>3
  DEF EmptyJournal, Journals, RecoveryFields, UPagesOrNone, RecoverPages

\* The locals of a search that is not running are in range.
LEMMA NoSearchType == NoSearch \in [low : Nat, high : Int, at : Blocks]
  BY GeometryAssumption DEF NoSearch, Blocks

\* A power failure, wherever it falls, preserves the invariant.
LEMMA CrashInv ==
  ASSUME Inv, Crash
  PROVE  Inv'
<1>1. StoreOK /\ ControlOK
  BY InvSplit
<1>2. page' \in [Pages -> Contents]
  BY <1>1, TornType DEF Crash, torn_pages, StoreOK
<1>3. StoreOK'
  BY <1>1, <1>2, NoMetaType, NoSearchType DEF Crash, StoreOK
<1>4. /\ j' \in Journals /\ RecoveryFields(j') /\ call' \in CallRecords
      /\ ~call'.dumping /\ pc' = "resume" /\ client' = "normal"
  BY EmptyJournalType, NoCallOK DEF Crash
<1>5. RecoveryState'
  BY <1>4 DEF RecoveryState, RecoveryFields
<1>6. ControlOK'
  BY <1>4, <1>5 DEF ControlOK, Resuming
<1> QED
  BY <1>3, <1>4, <1>6, InvJoin

\* A step of the restart: it leaves the call and the client alone.
LEMMA RestartControl ==
  ASSUME ControlOK, pc \in Resuming, pc' \in Resuming \cup {"idle"},
         j' \in Journals, RecoveryFields(j'), UNCHANGED <<call, client>>
  PROVE  ControlOK'
<1>1. client' = "normal" /\ ~call'.dumping /\ call' \in CallRecords
  BY DEF ControlOK, RecoveryState, Resuming
<1>2. RecoveryState'
  BY <1>1 DEF RecoveryState, RecoveryFields, Resuming
<1> QED
  BY <1>1, <1>2 DEF ControlOK

\* A restart that finds no checkpoint preserves the invariant.
LEMMA ResumeFailedInv ==
  ASSUME Inv, pc \in Resuming, ResumeFailed,
         UNCHANGED <<page, marked, call, client, fails, crashes>>
  PROVE  Inv'
<1>1. StoreOK /\ ControlOK
  BY InvSplit
<1>2. StoreOK'
  BY <1>1, NoMetaType, NoSearchType DEF ResumeFailed, StoreOK
<1>3. pc' = "idle" /\ j' \in Journals /\ RecoveryFields(j')
  BY EmptyJournalType DEF ResumeFailed
<1>4. ControlOK'
  BY <1>1, <1>3, RestartControl
<1> QED
  BY <1>2, <1>3, <1>4, InvJoin

\* A checkpoint page the restart can read.
LEMMA ReadCheckpoint ==
  ASSUME StoreOK, NEW p, readable(p), page[p].kind = "cp"
  PROVE  page[p] \in Checkpoints
<1>1. page[p] \in Contents
  BY DEF readable, StoreOK
<1> QED
  BY <1>1 DEF Contents, Erased, Torn, UserPages, Dumps, Checkpoints

\* find_checkblock from block 0 preserves the invariant.
LEMMA FindFirstInv ==
  ASSUME Inv, FindFirst
  PROVE  Inv'
<1>1. StoreOK /\ ControlOK /\ pc \in Resuming
  BY InvSplit DEF FindFirst, Resuming
<1>2. CASE ResumeFailed
  BY <1>1, <1>2, ResumeFailedInv DEF FindFirst
<1>3. CASE \E b \in Blocks :
             /\ find_checkblock(0, b)
             /\ j' = [j EXCEPT !.epoch = page[first_cp(b)].epoch]
             /\ search' = [low |-> b, high |-> num_blocks - 1, at |-> b]
             /\ pc' = "r_last"
             /\ UNCHANGED buf
  <2>1. PICK b \in Blocks :
             /\ find_checkblock(0, b)
             /\ j' = [j EXCEPT !.epoch = page[first_cp(b)].epoch]
             /\ search' = [low |-> b, high |-> num_blocks - 1, at |-> b]
             /\ pc' = "r_last"
             /\ UNCHANGED buf
    BY <1>3
  <2>2. page[first_cp(b)] \in Checkpoints
    BY <1>1, <2>1, ReadCheckpoint DEF find_checkblock, has_checkpoint
  <2>3. j' \in Journals /\ SameRecovery(j, j')
    BY <1>1, <2>1, <2>2 DEF ControlOK, Journals, Checkpoints, SameRecovery
  <2>4. RecoveryFields(j')
    BY <1>1, <2>3, SameRecoveryFields DEF ControlOK, RecoveryState
  <2>5. ControlOK'
    BY <1>1, <2>1, <2>3, <2>4, RestartControl DEF FindFirst, Resuming
  <2>6. search' \in [low : Nat, high : Int, at : Blocks]
    BY <2>1, GeometryAssumption DEF Blocks
  <2>7. StoreOK'
    BY <1>1, <2>1, <2>6 DEF FindFirst, StoreOK
  <2> QED
    BY <2>1, <2>5, <2>7, InvJoin
<1> QED
  BY <1>2, <1>3 DEF FindFirst

\* An iteration of find_last_checkblock preserves the invariant: it stays in the
\* chip.
LEMMA FindLastInv ==
  ASSUME Inv, FindLast
  PROVE  Inv'
<1>1. StoreOK /\ ControlOK /\ pc = "r_last" /\ pc \in Resuming
  BY InvSplit DEF FindLast, Resuming
<1>2. search \in [low : Nat, high : Int, at : Blocks] /\ cpb \in Nat \ {0}
  BY <1>1, GeometryAssumption DEF StoreOK
<1> DEFINE mid == (search.low + search.high) \div 2
<1>3. search.low <= search.high => mid \in Int
  BY <1>2
<1> HIDE DEF mid
<1>4. \/ \E b \in Blocks : /\ pc' = "r_group"
                            /\ search' = [low |-> 0, high |-> cpb - 1, at |-> b]
      \/ /\ search.low <= search.high
         /\ search' = [search EXCEPT !.high = mid - 1] /\ UNCHANGED pc
      \/ \E n \in Blocks : search' = [search EXCEPT !.low = n] /\ UNCHANGED pc
  BY <1>2 DEF FindLast, search_above, mid
<1>5. /\ search' \in [low : Nat, high : Int, at : Blocks]
      /\ pc' \in {"r_last", "r_group"}
      /\ pc' = "r_group" => search'.high < cpb
  BY <1>1, <1>2, <1>3, <1>4 DEF Blocks
<1>6. StoreOK'
  BY <1>1, <1>5 DEF FindLast, StoreOK
<1>7. j' \in Journals /\ RecoveryFields(j') /\ UNCHANGED <<call, client>>
  BY <1>1 DEF FindLast, ControlOK, RecoveryState, RecoveryFields
<1>8. ControlOK'
  BY <1>1, <1>5, <1>7, RestartControl DEF Resuming
<1> QED
  BY <1>5, <1>6, <1>8, InvJoin

\* find_root and the settings of the checkpoint it finds.
LEMMA RestoreInv ==
  ASSUME Inv, pc \in Resuming, NEW b \in Blocks, NEW g \in 0 .. (cpb - 1),
         restore(b, g), UNCHANGED <<page, marked, call, client, fails, crashes>>
  PROVE  Inv'
<1>1. StoreOK /\ ControlOK
  BY InvSplit
<1>2. CASE ResumeFailed
  BY <1>2, ResumeFailedInv
<1>3. CASE \E i \in 0 .. g :
             LET p == first_page(b) + (i + 1) * ppc - 1
             IN  /\ good_cp(b, i)
                 /\ j' = [j EXCEPT !.root = p - 1, !.tail = page[p].tail,
                                   !.bb_current = page[p].bb_current,
                                   !.bb_last = page[p].bb_last,
                                   !.head = next_upage(first_page(b) + g * ppc)]
                 /\ buf' = [cookie |-> page[p].cookie, meta |-> NoMeta]
                 /\ pc' = "r_head"
                 /\ search' = NoSearch
  <2>1. PICK i \in 0 .. g :
             LET p == first_page(b) + (i + 1) * ppc - 1
             IN  /\ good_cp(b, i)
                 /\ j' = [j EXCEPT !.root = p - 1, !.tail = page[p].tail,
                                   !.bb_current = page[p].bb_current,
                                   !.bb_last = page[p].bb_last,
                                   !.head = next_upage(first_page(b) + g * ppc)]
                 /\ buf' = [cookie |-> page[p].cookie, meta |-> NoMeta]
                 /\ pc' = "r_head"
                 /\ search' = NoSearch
    BY <1>3
  <2> DEFINE p == first_page(b) + (i + 1) * ppc - 1
  <2>2. page[p] \in Checkpoints
    BY <1>1, <2>1, ReadCheckpoint DEF good_cp
  <2>3. i \in 0 .. (cpb - 1) /\ ppc \in Nat /\ ppc >= 4 /\ cpb \in Nat
    BY <2>1, Sizes, GeometryAssumption
  <2>4. p - 1 \in UPages
    <3>1. ppc - 2 \in 0 .. (ppc - 2)
      BY <2>3
    <3>2. first_page(b) + (i * ppc) + (ppc - 2) \in UPages
      BY <2>3, <3>1, BlockGroupPage
    <3>3. first_page(b) \in Int /\ i * ppc \in Int /\ (i + 1) * ppc = (i * ppc) + ppc
      BY <2>3, Sizes DEF first_page, Blocks
    <3>4. p - 1 = first_page(b) + (i * ppc) + (ppc - 2)
      BY <2>3, <3>3
    <3> QED
      BY <3>2, <3>4
  <2>5. next_upage(first_page(b) + g * ppc) \in UPages
    <3>1. 0 \in 0 .. (ppc - 2) /\ first_page(b) + (g * ppc) \in Int
      BY <2>3, Sizes DEF first_page, Blocks
    <3>2. first_page(b) + (g * ppc) + 0 \in UPages
      BY <3>1, BlockGroupPage
    <3>3. first_page(b) + g * ppc \in UPages
      BY <3>1, <3>2
    <3> QED
      BY <3>3, NextUPage
  <2>6. j' \in Journals /\ SameRecovery(j, j')
    <3> HIDE DEF p
    <3>1. j' = [j EXCEPT !.root = p - 1, !.tail = page[p].tail,
                         !.bb_current = page[p].bb_current,
                         !.bb_last = page[p].bb_last,
                         !.head = next_upage(first_page(b) + g * ppc)]
      BY <2>1 DEF p
    <3> QED
      BY <1>1, <2>2, <2>4, <2>5, <3>1
      DEF ControlOK, Journals, Checkpoints, SameRecovery, UPagesOrNone
  <2>7. RecoveryFields(j')
    BY <1>1, <2>6, SameRecoveryFields DEF ControlOK, RecoveryState
  <2>8. ControlOK'
    BY <1>1, <2>1, <2>6, <2>7, RestartControl DEF Resuming
  <2>9. buf' \in [cookie : Cookies, meta : Slices]
    BY <2>1, <2>2, NoMetaType DEF Checkpoints
  <2>10. StoreOK'
    BY <1>1, <2>1, <2>9, NoSearchType DEF StoreOK
  <2> QED
    BY <2>1, <2>8, <2>10, InvJoin
<1> QED
  BY <1>2, <1>3 DEF restore

\* An iteration of find_last_group preserves the invariant: it stays in the block.
LEMMA FindGroupInv ==
  ASSUME Inv, FindGroup
  PROVE  Inv'
<1>1. /\ StoreOK /\ ControlOK /\ pc = "r_group" /\ pc \in Resuming
      /\ search.high < cpb
  BY InvSplit DEF FindGroup, Resuming
<1>2. /\ search \in [low : Nat, high : Int, at : Blocks] /\ cpb \in Nat \ {0}
      /\ search.at \in Blocks
  BY <1>1, GeometryAssumption DEF StoreOK
<1> DEFINE mid == (search.low + search.high) \div 2
<1>3. search.low <= search.high =>
        mid \in Nat /\ mid <= search.high /\ mid \in 0 .. (cpb - 1)
  BY <1>1, <1>2
<1> HIDE DEF mid
<1>4. UNCHANGED <<page, marked, call, client, fails, crashes>>
  BY DEF FindGroup
<1>5. CASE restore(search.at, 0)
  <2>1. 0 \in 0 .. (cpb - 1)
    BY <1>2
  <2> QED
    BY <1>1, <1>2, <1>4, <1>5, <2>1, RestoreInv
<1>6. CASE search.low <= search.high /\ restore(search.at, mid)
  BY <1>1, <1>2, <1>3, <1>4, <1>6, RestoreInv
<1>7. CASE /\ search.low <= search.high
           /\ \/ search' = [search EXCEPT !.high = mid - 1]
              \/ search' = [search EXCEPT !.low = mid + 1]
           /\ UNCHANGED <<j, buf, pc>>
  <2>1. /\ search' \in [low : Nat, high : Int, at : Blocks]
        /\ search'.high < cpb
    BY <1>1, <1>2, <1>3, <1>7
  <2>2. StoreOK'
    BY <1>1, <1>4, <1>7, <2>1 DEF StoreOK
  <2>3. j' \in Journals /\ RecoveryFields(j') /\ pc' \in Resuming
    BY <1>1, <1>7 DEF ControlOK, RecoveryState, RecoveryFields
  <2>4. ControlOK'
    BY <1>1, <1>4, <2>3, RestartControl
  <2> QED
    BY <2>1, <2>2, <2>4, InvJoin
<1> QED
  BY <1>5, <1>6, <1>7 DEF FindGroup, mid

\* An iteration of find_head preserves the invariant: the head it reaches is a
\* user page, and so is the tail it moves out of the way.
LEMMA FindHeadInv ==
  ASSUME Inv, FindHead
  PROVE  Inv'
<1>1. StoreOK /\ ControlOK /\ pc = "r_head" /\ pc \in Resuming
  BY InvSplit DEF FindHead, Resuming
<1>2. /\ j \in Journals /\ j.head \in UPages /\ j.tail \in UPages
      /\ RecoveryFields(j)
  BY <1>1 DEF ControlOK, RecoveryState, Journals
<1> DEFINE first == align_down(j.head, ppc)
           after == IF first + ppc >= chip_size THEN 0 ELSE first + ppc
           moved == move_head(j, after)
           chased == [moved EXCEPT !.tail = first_page(next_block(block_of(@)))]
<1>3. /\ ppc \in Nat /\ ppc >= 4 /\ chip_size \in Nat
      /\ j.head \div ppc \in Nat /\ first = (j.head \div ppc) * ppc
      /\ first + ppc <= chip_size
  BY <1>2, Sizes, UPageOffset, AlignDownGroup
<1> HIDE DEF first
<1>4. \A n \in 2 .. ppc : first + ppc - n \in UPages
  <2> TAKE n \in 2 .. ppc
  <2> DEFINE q == j.head \div ppc
             r == ppc - n
  <2>1. q \in Nat /\ first = q * ppc
    BY <1>3
  <2> HIDE DEF q
  <2>2. r \in 0 .. (ppc - 2) /\ q * ppc \in Nat
    BY <1>3, <2>1
  <2>3. (q * ppc) + r < chip_size /\ first + ppc - n = (q * ppc) + r
    BY <1>3, <2>1, <2>2
  <2> HIDE DEF r
  <2> QED
    BY <2>1, <2>2, <2>3, GroupPage
<1>5. after \in UPages
  <2>1. 0 \in UPages
    BY EmptyJournalType DEF EmptyJournal, Journals
  <2>2. CASE first + ppc < chip_size
    <3> DEFINE q == j.head \div ppc
    <3>1. q \in Nat /\ first = q * ppc
      BY <1>3
    <3> HIDE DEF q
    <3>2. /\ q + 1 \in Nat /\ (q + 1) * ppc = (q * ppc) + ppc /\ q * ppc \in Nat
          /\ 0 \in 0 .. (ppc - 2)
      BY <1>3, <3>1
    <3>3. ((q + 1) * ppc) + 0 < chip_size /\ first + ppc = ((q + 1) * ppc) + 0
      BY <1>3, <2>2, <3>1, <3>2
    <3>4. ((q + 1) * ppc) + 0 \in UPages
      BY <3>2, <3>3, GroupPage
    <3>5. first + ppc \in UPages
      BY <3>3, <3>4
    <3> QED
      BY <2>2, <3>5, <3>1, <3>2, <1>3
  <2>3. CASE ~(first + ppc < chip_size)
    <3>1. first \in Int
      BY <1>3
    <3> QED
      BY <2>1, <2>3, <1>3, <3>1
  <2> QED
    BY <2>2, <2>3
<1> HIDE DEF after
<1>6. moved \in Journals /\ SameRecovery(j, moved) /\ RecoveryFields(moved)
  BY <1>2, <1>5, MoveHeadType, SameRecoveryFields
<1> HIDE DEF moved
<1>7. chased \in Journals
  <2>1. block_of(moved.tail) \in Blocks
    BY <1>6, BlockOf DEF Journals, UPages
  <2>2. first_page(next_block(block_of(moved.tail))) \in UPages
    BY <2>1, NextBlock, FirstPage
  <2> QED
    BY <1>6, <2>2 DEF Journals
<1> HIDE DEF chased
<1>8. \A n \in 2 .. ppc : [j EXCEPT !.head = first + ppc - n] \in Journals
  BY <1>2, <1>4 DEF Journals
<1>9. \/ \E k \in Journals : Resumed(k)
      \/ j' = moved /\ UNCHANGED pc
  <2>1. PICK n \in 0 .. ppc :
          \/ n > 1 /\ Resumed([j EXCEPT !.head = first + ppc - n])
          \/ Resumed(IF align_eq(after, moved.tail, ppb) THEN chased ELSE moved)
          \/ j' = moved /\ UNCHANGED pc
    BY DEF FindHead, first, after, moved, chased
  <2>2. n > 1 => n \in 2 .. ppc
    BY <1>3, <2>1
  <2> QED
    BY <1>6, <1>7, <1>8, <2>1, <2>2
<1>10. j' \in Journals /\ RecoveryFields(j') /\ pc' \in {"idle", "r_head"}
  <2>1. CASE \E k \in Journals : Resumed(k)
    <3>1. PICK k \in Journals : Resumed(k)
      BY <2>1
    <3>2. [k EXCEPT !.dirty = FALSE, !.tail_sync = k.tail] \in Journals
      BY <3>1 DEF Journals
    <3> QED
      BY <3>1, <3>2, ClearRecoveryType DEF Resumed
  <2>2. CASE j' = moved /\ UNCHANGED pc
    BY <1>1, <1>6, <2>2
  <2> QED
    BY <1>9, <2>1, <2>2
<1>11. StoreOK' /\ UNCHANGED <<call, client>>
  BY <1>1 DEF FindHead, StoreOK
<1>12. ControlOK'
  BY <1>1, <1>10, <1>11, RestartControl DEF Resuming
<1> QED
  BY <1>10, <1>11, <1>12, InvJoin

-----------------------------------------------------------------------------
(* The invariant                                                           *)

\* A chip from the factory and an empty journal satisfy the invariant.
LEMMA InitInv == Init => Inv
<1> SUFFICES ASSUME Init PROVE Inv
  OBVIOUS
<1>1. page \in [Pages -> Contents]
  BY DEF Init, Contents
<1>2. buf \in [cookie : Cookies, meta : Slices]
  BY NoMetaType DEF Init
<1>3. StoreOK
  BY <1>1, <1>2, NoSearchType DEF Init, StoreOK
<1>4. /\ j \in Journals /\ RecoveryFields(j) /\ call \in CallRecords
      /\ ~call.dumping /\ pc = "resume" /\ client = "normal"
  BY EmptyJournalType, NoCallOK DEF Init
<1>5. RecoveryState
  BY <1>4 DEF RecoveryState
<1>6. ControlOK
  BY <1>4, <1>5 DEF ControlOK, Resuming
<1> QED
  BY <1>3, <1>4, <1>6, InvSplit

\* Every step of the journal, its client or the power supply preserves it.
LEMMA NextInv ==
  ASSUME Inv, [Next]_vars
  PROVE  Inv'
<1>1. CASE CallStep
  BY <1>1, SkipBadInv, EraseOkInv, FailureInv, PushMetaInv, DumpMetaInv,
     CopyUnreadableInv, CheckpointInv DEF CallStep
<1>2. CASE ResumeStep
  BY <1>2, FindFirstInv, FindLastInv, FindGroupInv, FindHeadInv DEF ResumeStep
<1>3. CASE ClientStep
  BY <1>3, ClientInv, GcInv DEF ClientStep
<1>4. CASE Recover
  BY <1>4, RecoverInv
<1>5. CASE Crash
  BY <1>5, CrashInv
<1>6. CASE UNCHANGED vars
  BY <1>6 DEF vars, Inv, TypeOK, RecoveryState, RecoveryFields
<1> QED
  BY <1>1, <1>2, <1>3, <1>4, <1>5, <1>6 DEF Next

\* The inductive invariant: types and recovery state together.  Neither is
\* inductive alone: where a search or a recovery goes next depends on both.
THEOREM Invariance == Spec => []Inv
<1>1. Init => Inv
  BY InitInv
<1>2. Inv /\ [Next]_vars => Inv'
  BY NextInv
<1> QED
  BY <1>1, <1>2, PTL DEF Spec

\* Whatever is interrupted, and whatever fails: the head, the tails and the root
\* of the journal are user pages of the chip, never checkpoint pages, and the
\* searches of a restart stay inside the chip and inside the block.
THEOREM TypeCorrect == Spec => []TypeOK
<1>1. Inv => TypeOK
  BY DEF Inv
<1> QED
  BY <1>1, Invariance, PTL

\* The recovery fields of the journal agree with its flags and with what its
\* client is doing, through failures, restarts of a recovery and power failures.
THEOREM RecoveryStateInvariant == Spec => []RecoveryState
<1>1. Inv => RecoveryState
  BY DEF Inv
<1> QED
  BY <1>1, Invariance, PTL

\* dhara_journal_size counts user pages: the pages between the last-synced tail
\* and the head, less one for each checkpoint page between them, are as many as
\* the queue has user pages, also across the end of the chip.
THEOREM SizeIsExact == Spec => []SizeCounts
<1>1. Inv => SizeCounts
  BY QueueCount DEF Inv, TypeOK, Journals, SizeCounts, dhara_journal_size
<1> QED
  BY <1>1, Invariance, PTL

=============================================================================
