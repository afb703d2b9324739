--------------------------- MODULE FbHandoffProofs ---------------------------
(***************************************************************************)
(* Proofs about FbHandoff, for every set of modes, every width of          *)
(* publish_seq and every bound, and about its history, for as many frames  *)
(* as publish_seq counts.                                                  *)
(***************************************************************************)
EXTENDS FbHandoffHistory, TLAPS

(* The inductive invariant, in the order of the argument.                  *)

\* publish_seq counts the publications since the last successful claim.
SeqCountsBehind ==
  /\ cur # NoSlot =>
       seq = IF last + behind < SeqMod THEN last + behind ELSE last + behind - SeqMod
  /\ cur = NoSlot => behind = 0

\* A published slot keeps its frame until CPU1 has chosen another to paint.
PublishedSlotKept ==
  /\ seq # 0 \/ rpc \in {"word", "reserve", "word2", "seq2"} \/ cur # NoSlot
       => offered # 0
  /\ wpc # "idle" => frame # 0 /\ pixels[wslot].mode = wmode
  /\ wpc \in {"bump", "pick"} => wslot = published.slot /\ offered # 0
  /\ offered # 0 => /\ wpc \in {"idle", "paint"} => wslot # published.slot
                    /\ pixels[published.slot].mode = published.mode

\* Until a claim succeeds, something newer than the held frame is published.
ClaimIsBehind ==
  rpc \in {"word", "reserve", "word2", "seq2"} /\ cur # NoSlot => behind > 0

\* A slot reserved, and found published again after that, is out of CPU1's way.
ReservedSlotSafe ==
  /\ rpc \in {"word2", "seq2"} => active = rword.slot
  /\ rpc = "seq2" /\ rword2 = rword =>
       /\ wpc \in {"idle", "paint"} => wslot # rword.slot
       /\ pixels[rword.slot].mode = rword.mode

\* The same for the slot a claim has returned.
HeldSlotSafe ==
  /\ rpc = "show" => cur # NoSlot
  /\ rpc = "show" \/ (cur # NoSlot /\ behind = 0) =>
       /\ active = cur
       /\ wpc \in {"idle", "paint"} => wslot # cur
       /\ pixels[cur].mode = rmode

IInv == /\ TypeOK /\ SeqCountsBehind /\ PublishedSlotKept
        /\ ClaimIsBehind /\ ReservedSlotSafe /\ HeldSlotSafe

(* What pick_third is for: a slot that is neither of the two it avoids,     *)
(* whichever value reader_active had when CPU1 loaded it.                   *)
LEMMA PickThirdAvoids ==
  ASSUME NEW a \in Slots, NEW b \in Slots \cup {NoSlot}
  PROVE  /\ pick_third(a, b) \in Slots
         /\ pick_third(a, b) # a
         /\ pick_third(a, b) # b
BY DEF pick_third, Slots, NoSlot

LEMMA InitIInv == Init => IInv
<1> SUFFICES ASSUME Init PROVE IInv
  OBVIOUS
<1>1. SomeMode \in Modes
  BY ModesAssumption DEF SomeMode
<1>2. TypeOK
  BY <1>1, SeqAssumption DEF Init, TypeOK, Words, Slots, NoSlot
<1>3. QED
  BY <1>2 DEF Init, IInv, SeqCountsBehind, PublishedSlotKept, ClaimIsBehind,
    ReservedSlotSafe, HeldSlotSafe, Slots, NoSlot

(* One step of the proof per action, in the order of the module.            *)
LEMMA WriterKeepsIInv == IInv /\ Writer => IInv'
<1> SUFFICES ASSUME IInv, Writer PROVE IInv'
  OBVIOUS
<1> USE SeqAssumption DEF IInv, TypeOK, shared, writer, reader, ghost, Words
<1>1. CASE StartFrame
  BY <1>1 DEF StartFrame, SeqCountsBehind, PublishedSlotKept, ClaimIsBehind,
    ReservedSlotSafe, HeldSlotSafe
<1>2. CASE DropFrame
  BY <1>2 DEF DropFrame, SeqCountsBehind, PublishedSlotKept, ClaimIsBehind,
    ReservedSlotSafe, HeldSlotSafe
<1>3. CASE StorePublished
  BY <1>3 DEF StorePublished, SeqCountsBehind, PublishedSlotKept, ClaimIsBehind,
    ReservedSlotSafe, HeldSlotSafe
<1>4. CASE BumpSeq
  BY <1>4 DEF BumpSeq, NextSeq, SeqCountsBehind, PublishedSlotKept, ClaimIsBehind,
    ReservedSlotSafe, HeldSlotSafe
<1>5. CASE PickNext
  <2>1. /\ wslot' \in Slots
        /\ wslot' # wslot
        /\ wslot' # active
    BY <1>5, PickThirdAvoids DEF PickNext
  <2>2. QED
    BY <1>5, <2>1 DEF PickNext, SeqCountsBehind, PublishedSlotKept, ClaimIsBehind,
      ReservedSlotSafe, HeldSlotSafe
<1>6. QED
  BY <1>1, <1>2, <1>3, <1>4, <1>5 DEF Writer, PublishStep

LEMMA ReaderKeepsIInv == IInv /\ Reader => IInv'
<1> SUFFICES ASSUME IInv, Reader PROVE IInv'
  OBVIOUS
<1> USE SeqAssumption DEF IInv, TypeOK, shared, writer, reader, ghost, Words
<1>1. CASE BeginClaim
  BY <1>1 DEF BeginClaim, SeqCountsBehind, PublishedSlotKept, ClaimIsBehind,
    ReservedSlotSafe, HeldSlotSafe
<1>2. CASE ReadSeq
  BY <1>2 DEF ReadSeq, SeqCountsBehind, PublishedSlotKept, ClaimIsBehind,
    ReservedSlotSafe, HeldSlotSafe
<1>3. CASE SkipBlit
  BY <1>3 DEF SkipBlit, SeqCountsBehind, PublishedSlotKept, ClaimIsBehind,
    ReservedSlotSafe, HeldSlotSafe
<1>4. CASE ReadPublished
  BY <1>4 DEF ReadPublished, SeqCountsBehind, PublishedSlotKept, ClaimIsBehind,
    ReservedSlotSafe, HeldSlotSafe
<1>5. CASE StoreActive
  BY <1>5 DEF StoreActive, SeqCountsBehind, PublishedSlotKept, ClaimIsBehind,
    ReservedSlotSafe, HeldSlotSafe
<1>6. CASE ReadPublishedAgain
  BY <1>6 DEF ReadPublishedAgain, SeqCountsBehind, PublishedSlotKept, ClaimIsBehind,
    ReservedSlotSafe, HeldSlotSafe
<1>7. CASE ReadSeqAgain
  BY <1>7 DEF ReadSeqAgain, SeqCountsBehind, PublishedSlotKept, ClaimIsBehind,
    ReservedSlotSafe, HeldSlotSafe, Slots, NoSlot
<1>8. CASE EndBlit
  BY <1>8 DEF EndBlit, SeqCountsBehind, PublishedSlotKept, ClaimIsBehind,
    ReservedSlotSafe, HeldSlotSafe
<1>9. QED
  BY <1>1, <1>2, <1>3, <1>4, <1>5, <1>6, <1>7, <1>8 DEF Reader, ClaimStep

LEMMA Inductive == Spec => []IInv
<1>1. IInv /\ [Next]_vars => IInv'
  <2> SUFFICES ASSUME IInv, [Next]_vars PROVE IInv'
    OBVIOUS
  <2>1. CASE UNCHANGED vars
    BY <2>1 DEF vars, shared, writer, reader, ghost, IInv, TypeOK, SeqCountsBehind,
      PublishedSlotKept, ClaimIsBehind, ReservedSlotSafe, HeldSlotSafe
  <2>2. QED
    BY <2>1, WriterKeepsIInv, ReaderKeepsIInv DEF Next
<1>2. QED
  BY <1>1, InitIInv, PTL DEF Spec

(* Type correctness of the shared words and of both cores' locals.          *)
THEOREM TypeCorrect == Spec => []TypeOK
<1>1. IInv => TypeOK
  BY DEF IInv
<1>2. QED
  BY <1>1, Inductive, PTL

(* The renderer never paints the slot the compositor reads, for every width *)
(* of the sequence number and every interleaving of the two cores.          *)
THEOREM Exclusion == Spec => []NoTornRead
<1>1. IInv => NoTornRead
  BY DEF IInv, HeldSlotSafe, NoTornRead
<1>2. QED
  BY <1>1, Inductive, PTL

(* The compositor draws each frame with the mode it was painted in.         *)
THEOREM ModeCoherence == Spec => []ModeMatchesPixels
<1>1. IInv => ModeMatchesPixels
  BY DEF IInv, HeldSlotSafe, ModeMatchesPixels
<1>2. QED
  BY <1>1, Inductive, PTL

-----------------------------------------------------------------------------
(* The exchange of frames.                                                 *)

\* The frames are painted and published in their order, and a published slot keeps its
\* own until CPU1 has chosen another.
Painted ==
  /\ complete \in Nat /\ complete <= offered /\ offered <= frame /\ frame <= MaxFrames
  /\ wpc = "bump" <=> complete < offered
  /\ wpc = "paint" => offered < frame /\ pixels[wslot].frame = frame
  /\ offered # 0 => pixels[published.slot].frame = offered

\* publish_seq is zero until a publication is complete, and never goes back.
Counting ==
  /\ seq <= complete /\ rseq <= seq /\ (seq = 0 => complete = 0)
  /\ floor \in 0 .. complete
  /\ rpc \in {"word", "reserve", "word2", "seq2"} => rseq # 0

\* While publish_seq has not moved, the word a claim has read leads to a frame that is
\* not older than the last complete one.
Current ==
  rpc \in {"reserve", "word2", "seq2"} /\ seq = rseq =>
    /\ wpc # "bump" => rword.slot = published.slot
    /\ pixels[rword.slot].frame \in complete .. offered

\* What the compositor holds is newer than the last complete frame only until the next
\* publication is complete.
Shown ==
  /\ shown \in 0 .. offered /\ (cur = NoSlot <=> shown = 0)
  /\ behind > 0 => shown <= complete
  /\ cur # NoSlot /\ behind = 0 => shown >= complete
  /\ rpc = "show" \/ (cur # NoSlot /\ behind = 0) => shown = pixels[cur].frame

HistInv == Painted /\ Counting /\ Current /\ Shown

\* Before the first frame.
LEMMA InitHistInv == HInit => HistInv
<1> SUFFICES ASSUME HInit PROVE HistInv
  OBVIOUS
<1>1. IInv
  BY InitIInv DEF HInit
<1> QED
  BY <1>1, SeqAssumption
     DEF HInit, Init, HistInv, Painted, Counting, Current, Shown, IInv, TypeOK, NoSlot

\* What the history records at each step.
LEMMA Recorded ==
  ASSUME HNext
  PROVE  /\ BumpSeq => complete' = offered
         /\ wpc' = wpc \/ wpc # "bump" => complete' = complete
         /\ BeginClaim => floor' = complete
         /\ rpc' = rpc \/ rpc # "idle" => floor' = floor
         /\ shown' = IF rpc' = "show" THEN pixels[cur'].frame ELSE shown
BY DEF HNext, BumpSeq, BeginClaim

\* The writer's steps keep what is said of the history.
LEMMA WriterKeepsHistory ==
  ASSUME IInv, IInv', HistInv, HNext, Writer
  PROVE  HistInv'
<1> USE SeqAssumption, FramesAssumption DEF shared, writer, reader, ghost
<1>0. UNCHANGED reader /\ floor' = floor
      /\ shown' = IF rpc = "show" THEN pixels[cur].frame ELSE shown
  BY Recorded DEF Writer, PublishStep, StartFrame, DropFrame, StorePublished, BumpSeq, PickNext
<1>1. CASE StartFrame
  BY <1>0, <1>1, Recorded
     DEF StartFrame, HistInv, Painted, Counting, Current, Shown, IInv, TypeOK,
         PublishedSlotKept, HeldSlotSafe, Words
<1>2. CASE DropFrame
  BY <1>0, <1>2, Recorded
     DEF DropFrame, HistInv, Painted, Counting, Current, Shown, IInv, TypeOK
<1>3. CASE StorePublished
  BY <1>0, <1>3, Recorded
     DEF StorePublished, HistInv, Painted, Counting, Current, Shown, IInv, TypeOK
<1>4. CASE BumpSeq
  BY <1>0, <1>4, Recorded
     DEF BumpSeq, NextSeq, HistInv, Painted, Counting, Current, Shown, IInv, TypeOK
<1>5. CASE PickNext
  BY <1>0, <1>5, Recorded
     DEF PickNext, HistInv, Painted, Counting, Current, Shown, IInv, TypeOK
<1> QED
  BY <1>1, <1>2, <1>3, <1>4, <1>5 DEF Writer, PublishStep

\* The reader's too.
LEMMA ReaderKeepsHistory ==
  ASSUME IInv, IInv', HistInv, HNext, Reader
  PROVE  HistInv'
<1> USE SeqAssumption, FramesAssumption DEF shared, writer, reader, ghost
<1>0. complete' = complete /\ UNCHANGED <<published, seq, writer, pixels, offered>>
  BY Recorded
     DEF Reader, ClaimStep, BeginClaim, ReadSeq, SkipBlit, ReadPublished, StoreActive,
         ReadPublishedAgain, ReadSeqAgain, EndBlit
<1>1. CASE BeginClaim
  BY <1>0, <1>1, Recorded
     DEF BeginClaim, HistInv, Painted, Counting, Current, Shown, IInv, TypeOK
<1>2. CASE ReadSeq
  BY <1>0, <1>2, Recorded
     DEF ReadSeq, HistInv, Painted, Counting, Current, Shown, IInv, TypeOK, SeqCountsBehind
<1>3. CASE SkipBlit
  BY <1>0, <1>3, Recorded
     DEF SkipBlit, HistInv, Painted, Counting, Current, Shown, IInv, TypeOK
<1>4. CASE ReadPublished
  BY <1>0, <1>4, Recorded
     DEF ReadPublished, HistInv, Painted, Counting, Current, Shown, IInv, TypeOK
<1>5. CASE StoreActive
  BY <1>0, <1>5, Recorded
     DEF StoreActive, HistInv, Painted, Counting, Current, Shown, IInv, TypeOK
<1>6. CASE ReadPublishedAgain
  BY <1>0, <1>6, Recorded
     DEF ReadPublishedAgain, HistInv, Painted, Counting, Current, Shown, IInv, TypeOK
<1>7. CASE ReadSeqAgain
  BY <1>0, <1>7, Recorded
     DEF ReadSeqAgain, HistInv, Painted, Counting, Current, Shown, IInv, TypeOK, NoSlot, Slots,
         Words
<1>8. CASE EndBlit
  BY <1>0, <1>8, Recorded
     DEF EndBlit, HistInv, Painted, Counting, Current, Shown, IInv, TypeOK
<1> QED
  BY <1>1, <1>2, <1>3, <1>4, <1>5, <1>6, <1>7, <1>8 DEF Reader, ClaimStep

\* Each step of the handoff is one of the exchange, or changes nothing of it.
ExchangeStep == Abstract!Next \/ UNCHANGED Abstract!avars

\* CPU1 offers frames and completes them.
LEMMA WriterRefines ==
  ASSUME IInv, HistInv, HNext, Writer
  PROVE  ExchangeStep
<1> USE DEF ExchangeStep, Abstract!Next, Abstract!avars, claiming, shared, writer, reader, ghost
<1>0. /\ claiming' = claiming /\ floor' = floor
      /\ shown' = IF rpc = "show" THEN pixels[cur].frame ELSE shown
  BY Recorded DEF Writer, PublishStep, StartFrame, DropFrame, StorePublished, BumpSeq, PickNext
<1>1. shown' = shown
  BY <1>0 DEF HistInv, Shown
<1>2. CASE StartFrame \/ DropFrame \/ PickNext
  BY <1>0, <1>1, <1>2, Recorded DEF StartFrame, DropFrame, PickNext
<1>3. CASE StorePublished
  <2>1. Abstract!Offer
    BY <1>0, <1>1, <1>3, Recorded
       DEF StorePublished, Abstract!Offer, HistInv, Painted, IInv, TypeOK
  <2> QED
    BY <2>1
<1>4. CASE BumpSeq
  <2>1. Abstract!Complete
    BY <1>0, <1>1, <1>4, Recorded
       DEF BumpSeq, Abstract!Complete, HistInv, Painted, IInv, TypeOK
  <2> QED
    BY <2>1
<1> QED
  BY <1>2, <1>3, <1>4 DEF Writer, PublishStep

\* CPU0's claims are claims of the exchange.
LEMMA ReaderRefines ==
  ASSUME IInv, HistInv, HNext, Reader
  PROVE  ExchangeStep
<1> USE SeqAssumption
    DEF ExchangeStep, Abstract!Next, Abstract!avars, claiming, shared, writer, reader, ghost
<1>0. complete' = complete /\ offered' = offered
  BY Recorded
     DEF Reader, ClaimStep, BeginClaim, ReadSeq, SkipBlit, ReadPublished, StoreActive,
         ReadPublishedAgain, ReadSeqAgain, EndBlit
<1>1. CASE BeginClaim
  <2>1. Abstract!BeginClaim
    BY <1>0, <1>1, Recorded DEF BeginClaim, Abstract!BeginClaim
  <2> QED
    BY <2>1
<1>2. CASE ReadSeq
  <2>1. floor' = floor /\ claiming = TRUE
    BY <1>2, Recorded DEF ReadSeq
  <2>2. CASE seq = 0
    <3>1. Abstract!EndClaim
      BY <1>0, <1>2, <2>1, <2>2, Recorded
         DEF ReadSeq, Abstract!EndClaim, HistInv, Painted, Counting
    <3> QED
      BY <3>1
  <2>3. CASE seq # 0 /\ seq = last /\ cur # NoSlot
    <3>1. behind = 0
      BY <2>3 DEF IInv, TypeOK, SeqCountsBehind
    <3>2. shown' = shown /\ claiming' = FALSE
      BY <1>2, <2>3, <3>1, Recorded DEF ReadSeq, HistInv, Shown
    <3>3. Abstract!EndClaim
      BY <1>0, <2>1, <2>3, <3>1, <3>2
         DEF Abstract!EndClaim, HistInv, Painted, Counting, Shown, IInv, TypeOK
    <3> QED
      BY <3>3
  <2>4. CASE seq # 0 /\ ~(seq = last /\ cur # NoSlot)
    BY <1>0, <1>2, <2>1, <2>4, Recorded DEF ReadSeq
  <2> QED
    BY <2>2, <2>3, <2>4
<1>3. CASE SkipBlit \/ ReadPublished \/ StoreActive \/ ReadPublishedAgain \/ EndBlit
  BY <1>0, <1>3, Recorded
     DEF SkipBlit, ReadPublished, StoreActive, ReadPublishedAgain, EndBlit
<1>4. CASE ReadSeqAgain
  <2>1. floor' = floor /\ claiming = TRUE
    BY <1>4, Recorded DEF ReadSeqAgain
  <2>2. CASE rword2 = rword /\ seq = rseq
    <3>1. shown' = pixels[rword.slot].frame /\ claiming' = FALSE
      BY <1>4, <2>2, Recorded DEF ReadSeqAgain
    <3>2. shown' \in complete .. offered /\ rseq # 0
      BY <1>4, <2>2, <3>1 DEF ReadSeqAgain, HistInv, Current, Counting
    <3>3. shown <= complete
      <4>1. cur # NoSlot => behind > 0
        BY <1>4 DEF ReadSeqAgain, IInv, ClaimIsBehind
      <4> QED
        BY <4>1 DEF HistInv, Shown, Painted
    <3>4. Abstract!EndClaim
      <4>1. PICK f \in complete .. offered : shown' = f
        BY <3>2
      <4> QED
        BY <1>0, <2>1, <2>2, <3>1, <3>2, <3>3, <4>1
           DEF Abstract!EndClaim, HistInv, Painted, Counting, Shown, IInv, TypeOK
    <3> QED
      BY <3>4
  <2>3. CASE ~(rword2 = rword /\ seq = rseq)
    BY <1>0, <1>4, <2>1, <2>3, Recorded DEF ReadSeqAgain
  <2> QED
    BY <2>2, <2>3
<1> QED
  BY <1>1, <1>2, <1>3, <1>4 DEF Reader, ClaimStep

\* The handoff implements the exchange: whole frames, none older than the newest at the
\* start of the claim, never going back, for every interleaving of the two cores.
THEOREM ExchangeRefined == HSpec => ImplementsFrameExchange
<1>1. HInit => IInv /\ HistInv /\ Abstract!Init
  BY InitIInv, InitHistInv DEF HInit, Init, Abstract!Init, claiming
<1>2. IInv /\ HistInv /\ [HNext]_hvars => IInv' /\ HistInv' /\ [Abstract!Next]_(Abstract!avars)
  <2> SUFFICES ASSUME IInv, HistInv, [HNext]_hvars
               PROVE  IInv' /\ HistInv' /\ ExchangeStep
    BY DEF ExchangeStep
  <2>1. CASE HNext /\ Writer
    BY <2>1, WriterKeepsIInv, WriterKeepsHistory, WriterRefines
  <2>2. CASE HNext /\ Reader
    BY <2>2, ReaderKeepsIInv, ReaderKeepsHistory, ReaderRefines
  <2>3. CASE UNCHANGED hvars
    <3>1. UNCHANGED vars /\ UNCHANGED <<complete, floor, shown>>
      BY <2>3 DEF hvars
    <3>2. IInv'
      BY <3>1 DEF vars, shared, writer, reader, ghost, IInv, TypeOK, SeqCountsBehind,
        PublishedSlotKept, ClaimIsBehind, ReservedSlotSafe, HeldSlotSafe
    <3>3. HistInv'
      BY <3>1 DEF vars, shared, writer, reader, ghost, HistInv, Painted, Counting, Current, Shown
    <3>4. ExchangeStep
      BY <3>1 DEF vars, shared, writer, reader, ghost, ExchangeStep, Abstract!avars, claiming
    <3> QED
      BY <3>2, <3>3, <3>4
  <2> QED
    BY <2>1, <2>2, <2>3 DEF HNext, Next
<1> QED
  BY <1>1, <1>2, PTL DEF HSpec, ImplementsFrameExchange, Abstract!Spec

==============================================================================
