---------------------------- MODULE FrameExchange ----------------------------
(***************************************************************************)
(* What the frame handoff between the Apple renderer (CPU1) and the        *)
(* compositor (CPU0) promises, without slots, words or sequence numbers.   *)
(* Frames are numbered in the order they are painted; one becomes visible  *)
(* (offered), then its publication completes.  A claim gives the           *)
(* compositor one visible frame, never older than the last one completed   *)
(* when the claim began and never older than the one shown before; it      *)
(* gives none only when none was complete.                                 *)
(***************************************************************************)
EXTENDS Integers

CONSTANT MaxFrames      \* bound on the number of frames painted

VARIABLES offered,      \* the newest frame the reader could see
          complete,     \* the newest frame whose publication has finished
          claiming,     \* the reader is inside a claim
          floor,        \* value of complete when the claim began
          shown         \* the frame the compositor holds, 0 before the first

avars == <<offered, complete, claiming, floor, shown>>

Init == offered = 0 /\ complete = 0 /\ claiming = FALSE /\ floor = 0 /\ shown = 0

\* A painted frame becomes visible; frames dropped while painting leave gaps.
Offer == /\ offered = complete
         /\ offered' \in (offered + 1) .. MaxFrames
         /\ UNCHANGED <<complete, claiming, floor, shown>>

Complete == /\ complete # offered
            /\ complete' = offered
            /\ UNCHANGED <<offered, claiming, floor, shown>>

BeginClaim == /\ ~claiming
              /\ claiming' = TRUE /\ floor' = complete
              /\ UNCHANGED <<offered, complete, shown>>

EndClaim == /\ claiming
            /\ claiming' = FALSE
            /\ \/ shown' \in floor .. offered /\ shown' >= shown /\ shown' # 0
               \/ shown' = shown /\ floor = 0
            /\ UNCHANGED <<offered, complete, floor>>

Next == Offer \/ Complete \/ BeginClaim \/ EndClaim

Spec == Init /\ [][Next]_avars
==============================================================================
