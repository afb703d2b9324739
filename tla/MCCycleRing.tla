----------------------------- MODULE MCCycleRing -----------------------------
(***************************************************************************)
(* What TLC checks of the record path, with the renderer at its end.       *)
(***************************************************************************)
EXTENDS CycleFrames, MCCycleTail

InFlight == e.st \in {"aw", "w", "b"}

\* A burst that is on the bus starts at the producer, stays inside the ring
\* and inside one 4 KB page, carries staged records only, and never reaches
\* a slot that CPU1 has not given back; records leave one more slot for a
\* marker.  The caps it was sized with are up to two clocks old: the notify
\* burst between two bursts is what makes them current
\* (apple_cycle_egress.sv:196-239, 428-465).
BurstLegal ==
  InFlight /\ e.kind # "notify" =>
    LET used == (e.producer - consumerReg) % R IN
    /\ e.addr = e.producer
    /\ e.addr + e.size <= R
    /\ (e.addr % PageBeats) + e.size <= PageBeats
    /\ e.kind = "ring" => e.size <= Len(stage) /\ used + e.size <= R - 2
    /\ e.kind = "gap" => used + 1 <= R - 1

Stream == INSTANCE MarkedStream WITH queue <- Unconsumed \o stage \o fifo \o held

\* The whole path is a queue that keeps order, loses only by dropping a
\* record at its entry, puts a marker ahead of every record that follows a
\* loss, and, when lossless, a marker only if a record was dropped
\* (apple_cycle_egress.sv, apple_cycle_egress.c:195-338).
ImplementsMarkedStream == Stream!Spec

\* As long as the capture FIFO has dropped nothing, every published frame
\* holds every record of its frame, whatever the bursts, wraps, stalls and
\* polls did on the way (apple_cycle_renderer.c:3275-3367).
WholeWithoutDrops == ~dropped => ~torn

\* What apple_cycle_capture.sv:52-54 and apple_cycle_renderer.c:3024-3027 say
\* of a dropped record: its frame is invalidated, so that every published
\* frame was painted completely.
PublishedFramesWhole == ~torn
=============================================================================
