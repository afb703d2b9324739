--------------------------- MODULE FbHandoffHistory ---------------------------
(***************************************************************************)
(* FbHandoff with the history its abstract specification FrameExchange     *)
(* speaks of, and the refinement mapping.  The history only records what   *)
(* the handoff does: it constrains no step.                                *)
(***************************************************************************)
EXTENDS FbHandoff

VARIABLES complete,   \* the last frame whose publish_seq store was made
          floor,      \* value of complete when the current claim began
          shown       \* the frame in the slot the last claim returned

\* publish_seq does not wrap while the history is kept: after 2^32 publications it is 0
\* for the time of one, which a claim takes for "nothing published yet".
ASSUME FramesAssumption == MaxFrames < SeqMod

hvars == <<vars, complete, floor, shown>>

HInit == Init /\ complete = 0 /\ floor = 0 /\ shown = 0

HNext ==
  /\ Next
  /\ complete' = IF BumpSeq THEN offered ELSE complete
  /\ floor' = IF BeginClaim THEN complete ELSE floor
  /\ shown' = IF rpc' = "show" THEN pixels[cur'].frame ELSE shown

HSpec == HInit /\ [][HNext]_hvars
HFairSpec == HSpec /\ Fairness

claiming == rpc \in {"seq", "word", "reserve", "word2", "seq2"}

Abstract == INSTANCE FrameExchange

\* The three words and the retry loop of apple_fb_handoff.c implement the
\* exchange: whole, newest-at-the-start-of-the-claim frames, never going back.
ImplementsFrameExchange == Abstract!Spec

\* Freshness in the end: once CPU1 publishes no more (the Apple is switched
\* off, or hangs), the compositor comes to hold the last frame published.
LatestFrameShown == <>[](shown = offered)
==============================================================================
