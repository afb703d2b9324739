------------------------------ MODULE CycleRing ------------------------------
(***************************************************************************)
(* The record path of the renderer, clock by clock: the capture FIFO and   *)
(* its drop flag (apple_cycle_capture.sv), the egress engine that stages    *)
(* records and writes them in AXI bursts to a ring in DDR                   *)
(* (apple_cycle_egress.sv), and the poll by which CPU1 drains that ring     *)
(* (apple_cycle_egress.c).                                                  *)
(*                                                                         *)
(* Pointers count 8-byte slots.  Every clock is one step; all registers    *)
(* take their next value from the present one, so a value that the code    *)
(* registers is one clock old here too.                                    *)
(***************************************************************************)
EXTENDS Integers, Sequences, FiniteSets

CONSTANTS R,          \* slots of the ring
          MaxBurst,   \* beats of the longest burst, and depth of the stage
          Trigger,    \* staged records that start a burst at once
          PageBeats,  \* beats between two 4 KB boundaries
          FifoDepth,  \* entries of the capture FIFO
          Reserve,    \* FIFO entries a direct record may not take
          Lossless,   \* cfg_lossless
          Turbo,      \* whether the direct port of TURBO may offer records
          Stalls,     \* whether the AXI port may delay an answer
          MaxRecords, \* bound on the records the bus produces
          Plain,      \* records without a frame part: I/O, direct writes
          C029,       \* those of them that write $C029
          FrameLen,   \* frame records of a frame
          LookaheadBatch, \* ACE_LOOKAHEAD_BATCH_RECORDS
          Gap, None

ASSUME CycleRingAssumption ==
  /\ R \in Nat /\ MaxBurst \in Nat /\ Trigger \in 1..MaxBurst /\ R > 3
  /\ PageBeats \in Nat /\ PageBeats >= MaxBurst /\ R % PageBeats = 0
  /\ FifoDepth \in Nat /\ Reserve \in 0..FifoDepth
  /\ {Lossless, Turbo, Stalls} \subseteq BOOLEAN /\ MaxRecords \in Nat
  /\ C029 \subseteq Plain /\ Plain \subseteq Nat
  /\ FrameLen \in Nat /\ FrameLen > 1
  /\ LookaheadBatch \in Nat \ {0} /\ LookaheadBatch < R - 2
  /\ Gap \notin Int /\ None \notin Int /\ Gap # None

VARIABLES
  produced,     \* records the bus and the direct port have produced
  held,         \* pending_record_q: the second of two simultaneous records
  fifo,         \* the capture FIFO
  sticky,       \* capture_drop_sticky
  stage,        \* the staged records
  e,            \* the registers of the egress engine
  caps,         \* the registered burst caps and ring-full flags
  consumerQ,    \* consumer_ptr_q
  ring, slot,   \* DDR: the ring and the producer-pointer word
  rd, limit,    \* CPU1: s_consumer_ptr and its snapshot of the producer
  consumerReg,  \* ACE_REG_CFG_CONSUMER_PTR
  lost, dropped \* history: losses without a marker; whether any happened

capture == <<produced, held, fifo, sticky, lost, dropped>>
engine == <<stage, e, caps, consumerQ>>
cpu == <<rd, limit, consumerReg>>
vars == <<capture, engine, ring, slot, cpu>>

Least(S) == CHOOSE x \in S : \A y \in S : x <= y

Used == (e.producer - consumerQ) % R

Init ==
  /\ produced = 0 /\ held = <<>> /\ fifo = <<>> /\ sticky = FALSE
  /\ lost = {} /\ dropped = FALSE
  /\ stage = <<>> /\ consumerQ = 0
  /\ e = [st |-> "idle", kind |-> "ring", size |-> 0, left |-> 0, addr |-> 0,
          producer |-> 0, notify |-> 0, gap |-> FALSE, source |-> FALSE,
          ack |-> FALSE, capSize |-> 0, capAddr |-> 0]
  /\ caps = [addr |-> 0, page |-> MaxBurst, wrap |-> MaxBurst, free |-> 0,
             fullRecord |-> FALSE, fullGap |-> FALSE]
  /\ ring = [i \in 0..(R - 1) |-> Gap] /\ slot = 0
  /\ rd = 0 /\ limit = None /\ consumerReg = 0

(***************************************************************************)
(* Capture.                                                                *)
(***************************************************************************)
FifoFull == Len(fifo) = FifoDepth

\* stage_pull
Pull == fifo # <<>> /\ Len(stage) < MaxBurst /\ e.st = "drain" /\ ~e.gap

DirectReady(bus) ==
  ~FifoFull /\ Len(fifo) < FifoDepth - Reserve /\ held = <<>> /\ bus = 0

\* The burst of a marker is acknowledged on this clock.
MarkerDone == e.st = "b" /\ e'.st = "notify" /\ e.kind = "gap"

\* A drop sets the flag also in the clock that acknowledges the last one.
AckWins(drops) == (drops \/ sticky) /\ ~e.ack
StickyNext(drops) == drops \/ (sticky /\ ~e.ack)

\* "bus" counts the registered requests of this clock: none, one record, or
\* an I/O record and the record of the same Apple cycle.  "direct" says that
\* the TURBO port offers a record.  A new Apple cycle finds an occupied
\* pending register only when the FIFO is full, since cycles are 133 clocks
\* apart.
Captures(bus, direct) ==
  LET arrivals == IF direct /\ DirectReady(bus) THEN 1 ELSE bus
      fresh   == (produced + 1)..(produced + arrivals)
      written == IF FifoFull THEN <<>> ELSE IF held # <<>> THEN held
                 ELSE IF arrivals > 0 THEN <<produced + 1>> ELSE <<>>
      keeps   == IF held # <<>> /\ FifoFull THEN held
                 ELSE IF held = <<>> /\ bus = 2 /\ ~FifoFull THEN <<produced + 2>>
                 ELSE <<>>
      drops   == (bus > 0 /\ FifoFull /\ held = <<>>) \/ (held # <<>> /\ bus > 0)
      losses  == {n \in fresh : <<n>> \notin {written, keeps}}
  IN /\ held = <<>> \/ FifoFull \/ bus = 0
     /\ produced + arrivals <= MaxRecords
     /\ produced' = produced + arrivals
     /\ fifo' = (IF Pull THEN Tail(fifo) ELSE fifo) \o written
     /\ held' = keeps
     /\ sticky' = StickyNext(drops)
     /\ dropped' = (dropped \/ losses # {})
     /\ lost' = (IF MarkerDone THEN {} ELSE lost) \cup losses

(***************************************************************************)
(* Egress.                                                                 *)
(***************************************************************************)
\* A bug: only the slot that tells a full ring from an empty one is reserved.
OneReserved == R - 1 - Used

\* Slots that records may still take; two stay reserved, one for a marker and
\* one that tells a full ring from an empty one.
Free == R - 2 - Used

\* The caps are recomputed on every clock from registered values, the page
\* cap from an address that is itself one clock old.
RegisterCaps ==
  /\ consumerQ' = consumerReg
  /\ caps' = [addr |-> e.producer,
              page |-> Least({MaxBurst, PageBeats - (caps.addr % PageBeats)}),
              wrap |-> Least({MaxBurst, R - e.producer}),
              free |-> IF Free <= 0 THEN 0 ELSE Least({MaxBurst, Free}),
              fullRecord |-> Free <= 0,
              fullGap |-> Used >= R - 1]

\* A bug: a lone record waits for another, whatever the timers say.
FullBursts(flush) == Len(stage) >= Trigger

\* ring_burst_trigger; "flush" stands for the two timers.
BurstTrigger(flush) == Len(stage) >= Trigger \/ (stage # <<>> /\ flush)

\* That a drop flag still up while its acknowledgement is on the way is
\* latched again repeats the marker, and keeps the losses of that window.
LatchesDrop == sticky /\ ~e.gap

\* The engine's registers with a drop latched as a pending marker, the
\* assignment that precedes the state machine in the clocked block.
Latched == [e EXCEPT !.ack = FALSE, !.gap = e.gap \/ LatchesDrop,
                     !.source = e.source \/ LatchesDrop]

Goes(st) == e' = [Latched EXCEPT !.st = st]

Idle == e.st = "idle" /\ Goes("drain")

Drain(flush) ==
  /\ e.st = "drain"
  /\ \/ e.gap /\ Goes(IF caps.fullGap THEN "drain" ELSE "gap")
     \/ ~e.gap /\ ~BurstTrigger(flush) /\ Goes("drain")
     \/ ~e.gap /\ BurstTrigger(flush) /\ ~caps.fullRecord /\ Goes("cap")
     \/ /\ ~e.gap /\ BurstTrigger(flush) /\ caps.fullRecord
        /\ e' = IF Lossless THEN Latched
                ELSE [Latched EXCEPT !.gap = TRUE, !.source = FALSE]

BurstCap ==
  /\ e.st = "cap"
  /\ e' = [Latched EXCEPT
             !.capSize = Least({Len(stage), caps.page, caps.wrap, caps.free}),
             !.capAddr = caps.addr, !.st = "prep"]

BurstPrep ==
  /\ e.st = "prep"
  /\ IF e.capSize = 0 THEN Goes("drain")
     ELSE e' = [Latched EXCEPT !.kind = "ring", !.size = e.capSize,
                               !.addr = e.capAddr, !.st = "aw"]

NotifyPrep ==
  /\ e.st = "notify"
  /\ e' = [Latched EXCEPT !.kind = "notify", !.size = 1, !.st = "aw"]

GapPrep ==
  /\ e.st = "gap"
  /\ e' = [Latched EXCEPT !.kind = "gap", !.size = 1, !.addr = e.producer, !.st = "aw"]

Address(axi) ==
  /\ e.st = "aw"
  /\ e' = IF axi THEN [Latched EXCEPT !.left = e.size, !.st = "w"] ELSE Latched

\* One beat.  The burst runs on from its address: it does not wrap with the
\* ring.
Beat(axi) ==
  /\ e.st = "w"
  /\ e' = IF axi THEN [Latched EXCEPT !.left = e.left - 1,
                                      !.st = IF e.left = 1 THEN "b" ELSE "w"]
                 ELSE Latched

\* The producer moves when a burst of records or a marker is acknowledged,
\* and the new value is then written for CPU1.
Moved == LET to == (e.producer + e.size) % R IN
         [Latched EXCEPT !.producer = to, !.notify = to, !.st = "notify"]

AcksDrop == e.source

Response(axi) ==
  /\ e.st = "b"
  /\ \/ ~axi /\ e' = Latched
     \/ axi /\ e.kind = "notify" /\ Goes("drain")
     \/ axi /\ e.kind = "ring" /\ e' = Moved
     \/ axi /\ e.kind = "gap" /\ e' = [Moved EXCEPT !.gap = FALSE, !.ack = AcksDrop]

Engine(flush, axi) ==
  \/ Idle \/ Drain(flush) \/ BurstCap \/ BurstPrep \/ NotifyPrep \/ GapPrep
  \/ Address(axi) \/ Beat(axi) \/ Response(axi)

\* A bug: a burst that a cap made shorter than the stage empties it.
StagesNone ==
  stage' = IF e.st = "b" /\ e'.st = "notify" /\ e.kind = "ring" THEN <<>>
           ELSE IF Pull THEN Append(stage, Head(fifo)) ELSE stage

\* Records enter the stage from the FIFO and leave it when their burst is
\* acknowledged.
Stages ==
  stage' = IF e.st = "b" /\ e'.st = "notify" /\ e.kind = "ring"
             THEN SubSeq(stage, e.size + 1, Len(stage))
             ELSE IF Pull THEN Append(stage, Head(fifo)) ELSE stage

\* A beat that the port takes lands in DDR.
BeatLands == e.st = "w" /\ e'.left # e.left

Lands ==
  LET beat == e.size - e.left IN
  /\ ring' = IF BeatLands /\ e.kind # "notify"
               THEN [ring EXCEPT ![e.addr + beat] =
                       IF e.kind = "gap" THEN Gap ELSE stage[beat + 1]]
               ELSE ring
  /\ slot' = IF BeatLands /\ e.kind = "notify" THEN e.notify ELSE slot

\* The inputs of a clock, where they make a difference: the timers count while
\* records wait, the port answers a request, a direct record needs room.
Flushes == {FALSE, e.st = "drain" /\ stage # <<>>}
Answers == {TRUE, ~(Stalls /\ e.st \in {"aw", "w", "b"})}
Offers == {FALSE, Turbo /\ DirectReady(0)}

Clock ==
  /\ \E flush \in Flushes, axi \in Answers : Engine(flush, axi)
  /\ \E bus \in 0..2, direct \in Offers : Captures(bus, direct)
  /\ RegisterCaps /\ Stages /\ Lands
  /\ UNCHANGED cpu

(***************************************************************************)
(* CPU1: apple_cycle_egress_poll.                                          *)
(***************************************************************************)
Poll ==
  /\ limit = None /\ slot # rd
  /\ limit' = slot
  /\ UNCHANGED <<capture, engine, ring, slot, rd, consumerReg>>

Unread == limit # None /\ rd # limit

\* A frame record carries its place in the scan.
IsFrame(r) == r # Gap /\ r \notin Plain
Position(n) == Cardinality({m \in 1..(n - 1) : IsFrame(m)}) % FrameLen
Consecutive(a, b) == Position(b) = (Position(a) + 1) % FrameLen

\* The cached batch, which ends at the snapshot of the producer or earlier.
Backlog == (limit - rd) % R
Batch == [i \in 1..Least({Backlog, LookaheadBatch}) |-> ring[(rd + i - 1) % R]]

\* egress_find_phase_lookahead: the snapshots that decide the video phase of
\* the first record are known when a second frame record follows, or when a
\* gap, a $C029 write or a jump in the scan cuts the search short.
Settled(s) ==
  \E i \in 2..Len(s) :
    \/ s[i] = Gap \/ s[i] \in C029
    \/ IsFrame(s[i]) /\ (\/ ~Consecutive(s[1], s[i])
                         \/ \E j \in 2..(i - 1) : IsFrame(s[j]))

\* A bug: a record waits for its lookahead however full the ring is.
NeverForced == FALSE

\* A full batch that does not reach the producer is not waited for.
Forced == Backlog > LookaheadBatch

\* A frame record is held back until its lookahead is settled; the search
\* starts anew from it in every batch.
Ready == IsFrame(ring[rd]) => Settled(Batch) \/ Forced

Following == (rd + 1) % R

Deliver ==
  /\ Unread /\ Ready
  /\ rd' = Following
  /\ UNCHANGED <<capture, engine, ring, slot, limit, consumerReg>>

\* The poll ends at its snapshot or at a record that it holds back.
Publish ==
  /\ limit # None /\ ~(Unread /\ Ready)
  /\ consumerReg' = rd /\ limit' = None
  /\ UNCHANGED <<capture, engine, ring, slot, rd>>

Next == Clock \/ Poll \/ Deliver \/ Publish

\* The port answers a request, the timers fire while records wait, and CPU1
\* keeps polling.
AxiClock == Clock /\ e.st \in {"aw", "w", "b"} /\ e' # Latched
FlushClock == Clock /\ e.st = "drain" /\ e'.st # "drain"

Fairness ==
  /\ WF_vars(Clock) /\ WF_vars(AxiClock) /\ WF_vars(FlushClock)
  /\ WF_vars(Poll) /\ WF_vars(Deliver) /\ WF_vars(Publish)

Spec == Init /\ [][Next]_vars
FairSpec == Spec /\ Fairness

\* A loss that no marker announces yet is remembered by the drop flag or by
\* the pending marker, also when it falls into the clocks between a marker's
\* burst and the acknowledgement of the drop flag
\* (apple_cycle_egress.sv:382-388, apple_cycle_capture.sv:313-339).
LossRemembered == lost # {} => sticky \/ e.gap
=============================================================================
