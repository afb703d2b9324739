------------------------------ MODULE MCPsram ------------------------------
(***************************************************************************)
(* The two sides of the PSRAM for TLC.  A behaviour shows one of them.     *)
(* data: PsramQueue with two lines of two bytes; the Apple uses two bytes  *)
(* of one line, or the same byte of two lines; the accelerator writes the  *)
(* first line and the DMA engine reads it.                                 *)
(* schedule: PsramTiming, clock by clock, with the queue of the hardware.  *)
(***************************************************************************)
EXTENDS PsramQueue

CONSTANTS l1, l2, k1, k2, b0, b1,
          CycleClks, QueueDepth     \* of PsramTiming

VARIABLES
  side,       \* which of the two this behaviour shows
  used,       \* the addresses the Apple uses in it
  t, tSt, budget, queued, tPending, tPark, cmd, op, slot, busy, rest, rvalid, bus, tDrain

tvars == <<t, tSt, budget, queued, tPending, tPark, cmd, op, slot, busy, rest, rvalid,
           bus, tDrain>>

Timing == INSTANCE PsramTiming WITH Depth <- QueueDepth, st <- tSt, pending <- tPending,
                                    park <- tPark, drain <- tDrain

\* A queue of one byte is enough, if the data of a write come within its cycle.
ASSUME ClocksAssumption == /\ QueueDepth \in Nat \ {0}
                           /\ \A l \in CycleClks : l \in Nat /\ l > Timing!DataEn

Filled(b) == [k \in Lane |-> b]

MCBusAddr == {[line |-> l1, lane |-> k1], [line |-> l1, lane |-> k2], [line |-> l2, lane |-> k1]}

MCPortOps ==
    [p \in Port |->
        {[rw |-> IF p = "vtw" THEN "write" ELSE "read", line |-> l1, data |-> Filled(b1)]}]

MCInit ==
    /\ side \in {"data", "schedule"}
    /\ Init
    /\ mem = [l \in Line |-> Filled(b0)]
    /\ used \in {{a \in MCBusAddr : a.line = l1}, {a \in MCBusAddr : a.lane = k1}}
    /\ Timing!Init
    /\ IF side = "data" THEN t = 0 ELSE used = {a \in MCBusAddr : a.line = l1}

\* A port takes its data on the clock on which they come.
DataStep ==
    /\ \/ \E p \in Port : PortTake(p)
       \/ (\A p \in Port : port[p].st # "done") /\ Next
    /\ {pending', serve'} \subseteq used \cup {None}

MCNext ==
    \/ side = "data" /\ DataStep /\ UNCHANGED <<side, used, tvars>>
    \/ side = "schedule" /\ Timing!Next /\ UNCHANGED <<side, used, vars>>

MCSpec == MCInit /\ [][MCNext]_<<vars, side, used, tvars>>

\* A native cycle that asks for a byte finds the chip free, and has the byte before
\* the card must drive it (dbg_deadline_miss_count, dbg_serve_late_count stay 0).
ServedInTime == Timing!ServedInTime

\* The write queue has room for every byte the Apple writes (dbg_wq_drop_count stays 0).
NoWriteDropped == Timing!NoWriteDropped

=============================================================================
