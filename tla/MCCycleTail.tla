----------------------------- MODULE MCCycleTail -----------------------------
(***************************************************************************)
(* What TLC checks of the arrival of records at the renderer, whose phase   *)
(* lookahead keeps the last of them in the ring.                           *)
(***************************************************************************)
EXTENDS CycleRing

Unconsumed == [i \in 1..((e.producer - rd) % R) |-> ring[(rd + i - 1) % R]]

\* What the phase lookahead may keep from the renderer until more records
\* come: a frame record with at most one other behind it, nothing among them
\* that ends the search, and no more than one batch.
HeldTail(s) ==
  s # <<>> => /\ IsFrame(s[1])
              /\ Cardinality({i \in DOMAIN s : IsFrame(s[i])}) <= 2
              /\ \A i \in DOMAIN s : s[i] # Gap /\ s[i] \notin C029
              /\ Len(s) <= LookaheadBatch

\* Every accepted record and every owed marker reaches the ring, and all of
\* them the renderer but for the tail that waits for its lookahead: the
\* reserved slots, the markers, the stall of a full ring and the tail held
\* back in it never wait for each other (apple_cycle_egress.sv:402-426,
\* apple_cycle_egress.c:238-261).
EverythingArrives == <>[](/\ stage \o fifo \o held = <<>>
                          /\ lost = {}
                          /\ HeldTail(Unconsumed))
=============================================================================
