----------------------------- MODULE CycleFrames -----------------------------
(***************************************************************************)
(* The record path of CycleRing with the renderer at its end: what         *)
(* apple_cycle_renderer_dispatch_record makes of the records and markers   *)
(* that the poll hands to it, in the clean (not accurate-PAL) legacy       *)
(* display modes.                                                          *)
(***************************************************************************)
EXTENDS CycleRing

CONSTANTS LateFrom  \* position from which a frame counts as scanned out

ASSUME CycleFramesAssumption == LateFrom \in 1..(FrameLen - 1)

VARIABLES
  resync,    \* g_resync_pending
  armed,     \* s_render_armed
  closing,   \* s_frame_end_pending
  line,      \* position of the last frame record (s_prev_line), or None
  prev,      \* history: the record up to which the renderer missed none
             \* since the last frame record
  hole,      \* history: whether the frame being painted misses a record
  torn       \* history: whether a published frame missed a record

renderer == <<resync, armed, closing, line, prev, hole, torn>>

FramesInit ==
  /\ Init
  /\ resync = FALSE /\ armed = FALSE /\ closing = FALSE
  /\ line = None /\ prev = 0
  /\ hole = FALSE /\ torn = FALSE

\* A gap marker stops the output until the next frame edge.
RenderGap ==
  /\ resync' = TRUE /\ armed' = FALSE /\ closing' = FALSE
  /\ UNCHANGED <<line, prev, hole, torn>>

\* A record without a frame part goes to the shadow or to a handler of its
\* own; the frame logic does not see it.
RenderPlain(n) ==
  /\ prev' = IF n = prev + 1 THEN n ELSE prev
  /\ UNCHANGED <<resync, armed, closing, line, hole, torn>>

\* A frame edge after a scanned-out frame asks for publication, which
\* follows with the first record past the border; an edge also arms a
\* renderer that waits for one.
RenderFrame(n) ==
  LET edge   == Position(n) = 0
      ends   == edge /\ line # None /\ line >= LateFrom /\ armed
      arms   == edge /\ (resync \/ ~armed)
      paints == arms \/ (armed /\ ~resync)
      closes == closing /\ ~edge /\ paints
      misses == prev # 0 /\ n # prev + 1
  IN /\ line' = Position(n) /\ prev' = n
     /\ resync' = (resync /\ ~arms)
     /\ armed' = (armed \/ arms)
     /\ closing' = ((closing \/ ends) /\ ~closes)
     /\ hole' = IF arms THEN FALSE ELSE IF closing THEN IF closes THEN misses ELSE hole
               ELSE hole \/ misses
     /\ torn' = (torn \/ (closes /\ hole))

DeliverRecord ==
  /\ Deliver
  /\ \/ ring[rd] = Gap /\ RenderGap
     \/ IsFrame(ring[rd]) /\ RenderFrame(ring[rd])
     \/ ring[rd] \in Plain /\ RenderPlain(ring[rd])

FramesNext ==
  \/ (Clock \/ Poll \/ Publish) /\ UNCHANGED renderer
  \/ DeliverRecord

FramesSpec == FramesInit /\ [][FramesNext]_<<vars, renderer>>
FramesFairSpec == FramesSpec /\ Fairness
=============================================================================
