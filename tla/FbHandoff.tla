------------------------------ MODULE FbHandoff ------------------------------
(***************************************************************************)
(* The three-slot framebuffer handoff of frontend/apple_fb_handoff.c: CPU1 *)
(* (apple_cycle_renderer.c) paints and publishes, CPU0 (compositor.c,      *)
(* screenshot_service.c) claims and reads, over strongly ordered words     *)
(* with no cross-core atomic operation.  Every load and every store of a   *)
(* shared word is a step of its own; the barriers of the code make the     *)
(* program order of those steps the order the other core sees.             *)
(***************************************************************************)
EXTENDS Integers

CONSTANTS Modes,        \* display modes carried with a slot
          SeqMod,       \* values of publish_seq (2^32 in the code)
          MaxBehind,    \* most publications between two successful claims
          MaxFrames     \* bound on the frames painted

Slots == 0 .. 2         \* 3 slots; the code writes the third one as 3 - a - b
NoSlot == 255           \* APPLE_FB_NO_SLOT and READER_NONE are both 0xFF

\* publish_seq of 32 bits at 60 frames a second wraps after 2.2 years: that
\* the reader claims once in that many publications is the one timing
\* assumption the handoff needs.
ASSUME SeqAssumption == /\ SeqMod \in Nat \ {0, 1}
                        /\ MaxBehind \in 1 .. SeqMod - 1
                        /\ MaxFrames \in Nat
ASSUME ModesAssumption == Modes # {}

VARIABLES
  published,    \* shared word s_published_slot: the slot and its mode
  seq,          \* shared word s_publish_seq
  active,       \* shared word s_reader_active
  wpc, wslot,   \* CPU1: program point, s_writer_current_slot
  frame, wmode, \* CPU1: number (ghost) and mode of the frame being painted
  rpc,          \* CPU0: program point in apple_fb_reader_claim
  rseq, rword, rword2,  \* CPU0: the locals seq, published, published_after
  last, cur, rmode,     \* CPU0: s_reader_last_seq, _current_slot, _display_mode
  pixels,       \* ghost: slot -> frame and mode of its pixels
  offered,      \* ghost: number of the frame in s_published_slot, 0 before one
  behind        \* ghost: publications since the last successful claim

shared == <<published, seq, active>>
writer == <<wpc, wslot, frame, wmode>>
reader == <<rpc, rseq, rword, rword2, last, cur, rmode>>
ghost  == <<pixels, offered, behind>>
vars   == <<shared, writer, reader, ghost>>

Words == [slot : Slots, mode : Modes]
SomeMode == CHOOSE m \in Modes : TRUE
NextSeq(s) == IF s + 1 = SeqMod THEN 0 ELSE s + 1

\* Mutant: the reader's slot is forgotten.
Mut_pick_third_blind(a, b) == IF a = 0 THEN 1 ELSE 0

pick_third(a, b) ==
  IF b \notin Slots \/ a = b THEN (IF a = 0 THEN 1 ELSE 0) ELSE 3 - a - b

Init ==
  /\ published = [slot |-> 0, mode |-> SomeMode]
  /\ seq = 0 /\ active = NoSlot
  /\ wpc = "idle" /\ wslot = 0 /\ frame = 0 /\ wmode = SomeMode
  /\ rpc = "idle" /\ rseq = 0 /\ rword = published /\ rword2 = published
  /\ last = 0 /\ cur = NoSlot /\ rmode = SomeMode
  /\ pixels = [s \in Slots |-> [frame |-> 0, mode |-> SomeMode]]
  /\ offered = 0 /\ behind = 0
-----------------------------------------------------------------------------
(* CPU1, the writer.                                                        *)

\* on_frame_start: bind the writer slot and derive the mode of the frame.
StartFrame ==
  /\ wpc = "idle" /\ frame < MaxFrames
  /\ frame' = frame + 1
  /\ wmode' \in Modes
  /\ pixels' = [pixels EXCEPT ![wslot] = [frame |-> frame + 1, mode |-> wmode']]
  /\ wpc' = "paint"
  /\ UNCHANGED <<shared, reader, wslot, offered, behind>>

\* on_frame_end with frame_ready = 0: the slot is painted over by the next.
DropFrame ==
  /\ wpc = "paint"
  /\ wpc' = "idle"
  /\ UNCHANGED <<shared, reader, ghost, wslot, frame, wmode>>

\* apple_fb_writer_publish_frame_detail, first store: the slot word.
StorePublished ==
  /\ wpc = "paint"
  /\ published' = [slot |-> wslot, mode |-> wmode]
  /\ offered' = frame
  /\ wpc' = "bump"
  /\ UNCHANGED <<seq, active, wslot, frame, wmode, reader, pixels, behind>>

\* Mutant: the publication never advances the sequence.
Mut_BumpSeq_lost ==
  /\ wpc = "bump"
  /\ wpc' = "pick"
  /\ UNCHANGED <<shared, wslot, frame, wmode, reader, ghost>>

\* Second store: publish_seq + 1, in 32 bits.
BumpSeq ==
  /\ wpc = "bump" /\ (cur = NoSlot \/ behind < MaxBehind)
  /\ seq' = NextSeq(seq)
  /\ behind' = IF cur = NoSlot THEN behind ELSE behind + 1
  /\ wpc' = "pick"
  /\ UNCHANGED <<published, active, wslot, frame, wmode, reader, pixels, offered>>

\* Load reader_active and choose the slot to paint next.
PickNext ==
  /\ wpc = "pick"
  /\ wslot' = pick_third(wslot, active)
  /\ wpc' = "idle"
  /\ UNCHANGED <<shared, frame, wmode, reader, ghost>>
-----------------------------------------------------------------------------
(* CPU0, the reader: apple_fb_reader_claim, then the blit of the slot.       *)

\* The caller invokes apple_fb_reader_claim.
BeginClaim ==
  /\ rpc = "idle"
  /\ rpc' = "seq"
  /\ UNCHANGED <<shared, writer, ghost, rseq, rword, rword2, last, cur, rmode>>

\* Mutant: a slot once held is shown again whatever the sequence says.
Mut_ReadSeq_hold ==
  /\ rpc = "seq"
  /\ rseq' = seq
  /\ rpc' = IF seq = 0 THEN "none" ELSE IF cur # NoSlot THEN "show" ELSE "word"
  /\ UNCHANGED <<shared, writer, ghost, rword, rword2, last, cur, rmode>>

\* First load of publish_seq: nothing yet, nothing new, or go on.
ReadSeq ==
  /\ rpc = "seq"
  /\ rseq' = seq
  /\ rpc' = IF seq = 0 THEN "none"
            ELSE IF seq = last /\ cur # NoSlot THEN "show" ELSE "word"
  /\ UNCHANGED <<shared, writer, ghost, rword, rword2, last, cur, rmode>>

\* NO_SLOT: the caller skips the blit of the Apple window.
SkipBlit ==
  /\ rpc = "none"
  /\ rpc' = "idle"
  /\ UNCHANGED <<shared, writer, ghost, rseq, rword, rword2, last, cur, rmode>>

ReadPublished ==
  /\ rpc = "word"
  /\ rword' = published
  /\ rpc' = "reserve"
  /\ UNCHANGED <<shared, writer, ghost, rseq, rword2, last, cur, rmode>>

StoreActive ==
  /\ rpc = "reserve"
  /\ active' = rword.slot
  /\ rpc' = "word2"
  /\ UNCHANGED <<published, seq, writer, ghost, rseq, rword, rword2, last, cur, rmode>>

ReadPublishedAgain ==
  /\ rpc = "word2"
  /\ rword2' = published
  /\ rpc' = "seq2"
  /\ UNCHANGED <<shared, writer, ghost, rseq, rword, last, cur, rmode>>

\* Mutant: the reservation is trusted without reading the words again.
Mut_ReadSeqAgain_trust ==
  /\ rpc = "seq2"
  /\ rpc' = "show"
  /\ last' = rseq /\ cur' = rword.slot /\ rmode' = rword.mode
  /\ behind' = 0
  /\ UNCHANGED <<shared, writer, pixels, offered, rseq, rword, rword2>>

\* Second load of publish_seq: retry, or keep the slot and its mode.
ReadSeqAgain ==
  /\ rpc = "seq2"
  /\ \/ /\ rword2 # rword \/ seq # rseq
        /\ rpc' = "seq"
        /\ UNCHANGED <<last, cur, rmode, behind>>
     \/ /\ rword2 = rword /\ seq = rseq
        /\ rpc' = "show"
        /\ last' = rseq /\ cur' = rword.slot /\ rmode' = rword.mode
        /\ behind' = 0
  /\ UNCHANGED <<shared, writer, pixels, offered, rseq, rword, rword2>>

\* The blit of the claimed slot is done (draw_apple_subwindow, screenshot).
EndBlit ==
  /\ rpc = "show"
  /\ rpc' = "idle"
  /\ UNCHANGED <<shared, writer, ghost, rseq, rword, rword2, last, cur, rmode>>
-----------------------------------------------------------------------------
PublishStep == StorePublished \/ BumpSeq \/ PickNext
Writer == StartFrame \/ DropFrame \/ PublishStep
ClaimStep == ReadSeq \/ ReadPublished \/ StoreActive \/ ReadPublishedAgain \/ ReadSeqAgain
Reader == BeginClaim \/ ClaimStep \/ SkipBlit \/ EndBlit
Next == Writer \/ Reader

Spec == Init /\ [][Next]_vars

\* Both cores run endless loops (frontend_core1/main.c, the compositor tick):
\* a core never stops between two of its steps.  Nothing forces CPU1 to start
\* a frame, since the Apple may be off.
Fairness == WF_vars(PublishStep) /\ WF_vars(Reader)
FairSpec == Spec /\ Fairness
-----------------------------------------------------------------------------
TypeOK ==
  /\ published \in Words
  /\ seq \in 0 .. SeqMod - 1
  /\ active \in Slots \cup {NoSlot}
  /\ wpc \in {"idle", "paint", "bump", "pick"}
  /\ wslot \in Slots /\ frame \in Nat /\ wmode \in Modes
  /\ rpc \in {"idle", "seq", "none", "word", "reserve", "word2", "seq2", "show"}
  /\ rseq \in 0 .. SeqMod - 1 /\ rword \in Words /\ rword2 \in Words
  /\ last \in 0 .. SeqMod - 1 /\ cur \in Slots \cup {NoSlot} /\ rmode \in Modes
  /\ pixels \in [Slots -> [frame : Nat, mode : Modes]]
  /\ offered \in Nat /\ behind \in 0 .. MaxBehind

\* The slot bound to the renderer (in use from one publication to the next,
\* on_frame_start and the deferred PAL lines write to it) is never the slot the
\* compositor is reading: no torn frame, although no lock or atomic is used.
NoTornRead == rpc = "show" /\ wpc \in {"idle", "paint"} => wslot # cur

\* The mode the compositor draws with is the mode of the pixels in the slot
\* (the word is read once for both), whatever was published meanwhile.
ModeMatchesPixels == rpc = "show" => rmode = pixels[cur].mode

==============================================================================
