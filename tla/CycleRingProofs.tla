--------------------------- MODULE CycleRingProofs ---------------------------
(***************************************************************************)
(* The record path of the renderer, for rings, bursts, pages and FIFOs of  *)
(* any size and for either use of the egress engine.                       *)
(*                                                                         *)
(* LossesAnnounced: no loss is forgotten before a marker announces it.     *)
(* BurstsLegal: every burst starts at the producer, stays inside the ring  *)
(*   and its page and reaches no slot that CPU1 may still read.            *)
(* FramesWhole: until the FIFO drops a record, published frames miss none. *)
(* PathKeepsOrder: the whole path implements MarkedStream.                 *)
(***************************************************************************)
EXTENDS MCCycleRing, SequenceTheorems, TLAPS

(***************************************************************************)
(* No loss is forgotten.  The delicate steps are the clocks around the end *)
(* of a marker's burst, where the pending bit falls one clock before the   *)
(* flag does.                                                              *)
(***************************************************************************)
\* The engine's registers are a record that keeps the fields of the argument.
Registers == {"st", "gap", "source", "ack"} \subseteq DOMAIN e

Flags == e.gap \in BOOLEAN /\ sticky \in BOOLEAN /\ produced \in Nat

IInv == Registers /\ Flags /\ LossRemembered

LEMMA InitInv == Init => IInv
<1> SUFFICES ASSUME Init PROVE IInv
  OBVIOUS
<1>1. e.gap = FALSE /\ {"st", "gap", "source", "ack"} \subseteq DOMAIN e
  BY SMT DEF Init
<1>2. lost = {} /\ sticky = FALSE /\ produced = 0
  BY DEF Init
<1> QED
  BY <1>1, <1>2, Zenon DEF IInv, Registers, Flags, LossRemembered

LEMMA LatchedKeeps ==
  ASSUME Registers, Flags
  PROVE  /\ {"st", "gap", "source", "ack"} \subseteq DOMAIN Latched
         /\ Latched.gap = (e.gap \/ LatchesDrop)
         /\ Latched.st = e.st
BY Zenon DEF Registers, Latched

\* The pending bit falls only with the acknowledgement of a marker's burst,
\* and a drop flag that is up sets it.
LEMMA EngineKeeps ==
  ASSUME Registers, Flags, NEW flush, NEW axi, Engine(flush, axi)
  PROVE  /\ Registers' /\ e'.gap \in BOOLEAN
         /\ ~MarkerDone => ((e.gap \/ sticky) => e'.gap)
<1>1. /\ {"st", "gap", "source", "ack"} \subseteq DOMAIN Latched
      /\ Latched.gap = (e.gap \/ sticky)
  BY LatchedKeeps, Zenon DEF LatchesDrop, Flags
<1> HIDE DEF Latched
<1>2. ASSUME NEW st, Goes(st)
      PROVE  Registers' /\ e'.gap = (e.gap \/ sticky)
  BY <1>1, <1>2, Zenon DEF Goes, Registers
<1>3. CASE Idle \/ BurstCap \/ BurstPrep \/ NotifyPrep \/ GapPrep
  <2>1. Registers' /\ e'.gap = (e.gap \/ sticky)
    BY <1>1, <1>2, <1>3, Zenon DEF Idle, BurstCap, BurstPrep, NotifyPrep, GapPrep, Registers
  <2> QED
    BY <2>1, Zenon DEF Flags
<1>4. CASE Drain(flush)
  BY <1>1, <1>2, <1>4, Zenon DEF Drain, Registers, Flags
<1>5. CASE Address(axi) \/ Beat(axi)
  BY <1>1, <1>2, <1>5, Zenon DEF Address, Beat, Registers, Flags
<1>6. CASE Response(axi)
  BY <1>1, <1>2, <1>6, Zenon DEF Response, Moved, MarkerDone, Registers, Flags
<1> QED
  BY <1>3, <1>4, <1>5, <1>6 DEF Engine

\* A record that is lost raises the drop flag, and a raised flag falls only
\* when it is acknowledged.
LEMMA CaptureKeeps ==
  ASSUME Flags, NEW bus \in 0..2, NEW direct \in BOOLEAN, Captures(bus, direct)
  PROVE  /\ sticky' \in BOOLEAN /\ produced' \in Nat
         /\ lost' # {} => sticky' \/ (~MarkerDone /\ lost # {})
<1> DEFINE arrivals == IF direct /\ DirectReady(bus) THEN 1 ELSE bus
           written == IF FifoFull THEN <<>> ELSE IF held # <<>> THEN held
                      ELSE IF arrivals > 0 THEN <<produced + 1>> ELSE <<>>
           keeps   == IF held # <<>> /\ FifoFull THEN held
                      ELSE IF held = <<>> /\ bus = 2 /\ ~FifoFull THEN <<produced + 2>>
                      ELSE <<>>
           drops   == (bus > 0 /\ FifoFull /\ held = <<>>) \/ (held # <<>> /\ bus > 0)
           losses  == {n \in (produced + 1)..(produced + arrivals) :
                         <<n>> \notin {written, keeps}}
<1>1. /\ produced' = produced + arrivals
      /\ sticky' = StickyNext(drops)
      /\ lost' = (IF MarkerDone THEN {} ELSE lost) \cup losses
  BY DEF Captures
<1>2. ASSUME ~drops PROVE losses = {}
  <2>1. arrivals \in 0..2 /\ produced \in Nat
    BY DEF Flags
  <2>2. CASE arrivals = 0
    BY <2>1, <2>2
  <2>3. CASE arrivals = 1
    <3>1. ~FifoFull /\ held = <<>>
      BY <1>2, <2>3 DEF DirectReady
    <3>2. written = <<produced + 1>>
      BY <2>3, <3>1
    <3>3. \A n \in (produced + 1)..(produced + arrivals) : n = produced + 1
      BY <2>1, <2>3
    <3> QED
      BY <3>2, <3>3, Zenon
  <2>4. CASE arrivals = 2
    <3>1. ~FifoFull /\ held = <<>> /\ bus = 2
      BY <1>2, <2>4
    <3>2. written = <<produced + 1>> /\ keeps = <<produced + 2>>
      BY <2>4, <3>1
    <3>3. \A n \in (produced + 1)..(produced + arrivals) :
             n = produced + 1 \/ n = produced + 2
      BY <2>1, <2>4
    <3> QED
      BY <3>2, <3>3, Zenon
  <2> QED
    BY <2>1, <2>2, <2>3, <2>4
<1>3. drops => sticky'
  BY <1>1, Zenon DEF StickyNext
<1>4. sticky' \in BOOLEAN /\ produced' \in Nat
  BY <1>1, Zenon, SMT DEF StickyNext, Flags
<1> QED
  BY <1>1, <1>2, <1>3, <1>4, Zenon

LEMMA StepInv == IInv /\ [Next]_vars => IInv'
<1> SUFFICES ASSUME IInv, [Next]_vars PROVE IInv'
  OBVIOUS
<1> USE DEF IInv
<1>1. CASE Clock
  <2>1. PICK flush \in Flushes, axi \in Answers : Engine(flush, axi)
    BY <1>1 DEF Clock
  <2>2. PICK bus \in 0..2, direct \in Offers : Captures(bus, direct)
    BY <1>1 DEF Clock
  <2>3. direct \in BOOLEAN
    BY CycleRingAssumption, Zenon DEF Offers, DirectReady
  <2>4. /\ Registers' /\ e'.gap \in BOOLEAN
        /\ ~MarkerDone => ((e.gap \/ sticky) => e'.gap)
    BY <2>1, EngineKeeps, Zenon
  <2>5. /\ sticky' \in BOOLEAN /\ produced' \in Nat
        /\ lost' # {} => sticky' \/ (~MarkerDone /\ lost # {})
    BY <2>2, <2>3, CaptureKeeps, Zenon
  <2> QED
    BY <2>4, <2>5, Zenon DEF Flags, LossRemembered
<1>2. CASE Poll \/ Deliver \/ Publish \/ UNCHANGED vars
  <2>1. UNCHANGED <<capture, engine>>
    BY <1>2 DEF Poll, Deliver, Publish, vars
  <2>2. UNCHANGED <<e, sticky, lost, produced>>
    BY <2>1 DEF capture, engine
  <2> QED
    BY <2>2, Zenon DEF Registers, Flags, LossRemembered
<1> QED
  BY <1>1, <1>2 DEF Next

\* A lost record is never forgotten before a marker has announced it
\* (apple_cycle_egress.sv:382-388, apple_cycle_capture.sv:313-339).
THEOREM LossesAnnounced == Spec => []LossRemembered
<1>1. IInv => LossRemembered
  BY DEF IInv
<1> QED
  BY <1>1, InitInv, StepInv, PTL DEF Spec

(***************************************************************************)
(* Bursts.  Distances between slots are taken forwards around the ring, so *)
(* that the order of the pointers is an order of numbers: seen from        *)
(* consumerQ come consumerReg, rd, the limit of a poll, slot and producer. *)
(***************************************************************************)
Slots == 0 .. (R - 1)
From(a, b) == IF a <= b THEN b - a ELSE b - a + R
ToPageEnd(a) == PageBeats - (a % PageBeats)

LEMMA Sizes == R \in Nat /\ R > 3 /\ PageBeats \in Nat \ {0} /\ MaxBurst \in Nat \ {0}
BY CycleRingAssumption, SMT

LEMMA FromMod == ASSUME NEW a \in Slots, NEW b \in Slots PROVE (b - a) % R = From(a, b)
BY Sizes, SMT DEF From, Slots

LEMMA FromRange == ASSUME NEW a \in Slots, NEW b \in Slots PROVE From(a, b) \in 0 .. (R - 1)
BY Sizes, SMT DEF From, Slots

LEMMA FromTurn ==
  ASSUME NEW a \in Slots, NEW b \in Slots, NEW c \in Slots, From(a, b) <= From(a, c)
  PROVE  From(b, c) = From(a, c) - From(a, b)
BY Sizes, SMT DEF From, Slots

LEMMA FromOn ==
  ASSUME NEW a \in Slots, NEW b \in Slots, NEW n \in Nat,
         b + n <= R, From(a, b) + n <= R - 1
  PROVE  LET c == (b + n) % R IN c \in Slots /\ From(a, c) = From(a, b) + n
<1>1. (b + n) % R = IF b + n = R THEN 0 ELSE b + n
  BY Sizes, SMT DEF Slots
<1> QED
  BY <1>1, Sizes, SMT DEF From, Slots

LEMMA OnMod == ASSUME NEW a \in Slots, NEW n \in Nat, a + n <= R
               PROVE (a + n) % R = IF a + n = R THEN 0 ELSE a + n
BY Sizes, SMT DEF Slots

LEMMA PageMod == ASSUME NEW a \in Slots PROVE ToPageEnd(a) \in 1 .. PageBeats
BY Sizes, SMT DEF Slots, ToPageEnd

LEMMA LeastOf == ASSUME NEW a \in Int, NEW b \in Int, NEW c \in Int, NEW d \in Int
                 PROVE  LET l == Least({a, b, c, d}) IN
                        l \in {a, b, c, d} /\ l <= a /\ l <= b /\ l <= c /\ l <= d
<1>1. \E x \in {a, b, c, d} : \A y \in {a, b, c, d} : x <= y
  BY SMT
<1> QED
  BY <1>1, SMT DEF Least

LEMMA LeastOfTwo == ASSUME NEW a \in Int, NEW b \in Int
                    PROVE  LET l == Least({a, b}) IN
                           l \in {a, b} /\ l <= a /\ l <= b
<1>1. \E x \in {a, b} : \A y \in {a, b} : x <= y
  BY SMT
<1> QED
  BY <1>1, SMT DEF Least

Fields == {"st", "kind", "size", "left", "addr", "producer", "notify", "gap", "source",
           "ack", "capSize", "capAddr"}

Numbers == {"st", "kind", "size", "left", "addr", "producer", "notify", "capSize", "capAddr"}

LEMMA LatchedRegs == ASSUME Fields \subseteq DOMAIN e
  PROVE Fields \subseteq DOMAIN Latched /\ \A f \in Numbers : Latched[f] = e[f]
BY Zenon DEF Latched, Fields, Numbers

LEMMA GoesRegs == ASSUME Fields \subseteq DOMAIN e, NEW st, Goes(st)
  PROVE Fields \subseteq DOMAIN e' /\ e'.st = st /\ \A f \in Numbers \ {"st"} : e'[f] = e[f]
BY LatchedRegs, Zenon DEF Goes, Fields, Numbers

\* Where the pointers are: seen from consumerQ, in the order in which the
\* engine and CPU1 pass them on.
Pointers ==
  /\ consumerQ \in Slots /\ consumerReg \in Slots /\ rd \in Slots
  /\ limit \in Slots \cup {None} /\ slot \in Slots /\ e.producer \in Slots
  /\ e.notify = e.producer
  /\ From(consumerQ, consumerReg) <= From(consumerQ, rd)
  /\ From(consumerQ, rd) <= From(consumerQ, slot)
  /\ From(consumerQ, slot) <= From(consumerQ, e.producer)
  /\ limit # None => /\ From(consumerQ, rd) <= From(consumerQ, limit)
                     /\ From(consumerQ, limit) <= From(consumerQ, slot)

States == {"idle", "drain", "cap", "prep", "gap", "notify", "aw", "w", "b"}

Shape ==
  /\ Fields \subseteq DOMAIN e
  /\ e.st \in States /\ e.kind \in {"ring", "gap", "notify"}
  /\ e.size \in Nat /\ e.left \in Nat /\ e.capSize \in Nat
  /\ caps.addr \in Slots /\ caps.page \in Nat /\ caps.wrap \in Nat /\ caps.free \in Nat

\* Slots that records may still take.
Room == R - 2 - From(consumerQ, e.producer)

\* The caps are those of the present producer, or allow less: not in the
\* clock after it moved, and the page cap not in the next one either.
Fresh ==
  /\ e.st # "notify" => caps.addr = e.producer
  /\ e.st \notin {"idle", "notify"} =>
       /\ caps.wrap <= R - e.producer
       /\ caps.free > 0 => caps.free <= Room
       /\ caps.fullGap \/ Room >= 0
       /\ (e.st = "aw" /\ e.kind = "notify") \/ caps.page <= ToPageEnd(e.producer)

Fits(addr, size) ==
  /\ addr = e.producer /\ addr + size <= R /\ size <= ToPageEnd(addr)

\* What has been sized from the caps still fits.
Sized ==
  /\ e.st = "prep" => /\ Fits(e.capAddr, e.capSize) /\ e.capSize <= Len(stage)
                      /\ e.capSize > 0 => e.capSize <= Room
  /\ e.st = "gap" => Room >= 0
  /\ InFlight =>
       /\ e.size > 0
       /\ e.st = "w" => e.left \in 1 .. e.size
       /\ e.kind = "ring" => Fits(e.addr, e.size) /\ e.size <= Len(stage) /\ e.size <= Room
       /\ e.kind = "gap" => Fits(e.addr, e.size) /\ e.size = 1 /\ Room >= 0

\* The records on their way are numbers.
Contents == stage \in Seq(Nat) /\ fifo \in Seq(Nat) /\ held \in Seq(Nat)

\* The inductive invariant behind BurstLegal.
RingInv == Shape /\ Pointers /\ Fresh /\ Sized /\ Contents

LEMMA RingInit == Init => RingInv
<1> SUFFICES ASSUME Init PROVE RingInv
  OBVIOUS
<1> USE Sizes
<1>1. /\ Fields \subseteq DOMAIN e /\ e.st = "idle" /\ e.kind = "ring" /\ e.size = 0
      /\ e.left = 0 /\ e.addr = 0 /\ e.producer = 0 /\ e.notify = 0 /\ e.capSize = 0
  BY SMT DEF Init, Fields
<1>2. /\ caps.addr = 0 /\ caps.page = MaxBurst /\ caps.wrap = MaxBurst /\ caps.free = 0
  BY DEF Init
<1>3. Shape /\ Fresh /\ Sized
  BY <1>1, <1>2, SMT DEF Shape, Fresh, Sized, Slots, InFlight, States
<1>4. Pointers /\ Contents
  BY <1>1, SMT DEF Init, Pointers, Contents, From, Slots
<1> QED
  BY <1>3, <1>4 DEF RingInv

\* The registers of the engine that the named ones do not include keep their
\* value.
Same(F) == Fields \subseteq DOMAIN e' /\ \A f \in Numbers \ F : e'[f] = e[f]


Stays == Same({})
Turns(st) == Same({"st"}) /\ e'.st = st

Caps == /\ Same({"st", "capSize", "capAddr"}) /\ e'.st = "prep"
        /\ e'.capSize = Least({Len(stage), caps.page, caps.wrap, caps.free})
        /\ e'.capAddr = caps.addr

Prepares == /\ Same({"st", "kind", "size", "addr"}) /\ e'.st = "aw"
            /\ e'.kind = "ring" /\ e'.size = e.capSize /\ e'.addr = e.capAddr

Notifies == /\ Same({"st", "kind", "size"}) /\ e'.st = "aw"
            /\ e'.kind = "notify" /\ e'.size = 1

Marks == /\ Same({"st", "kind", "size", "addr"}) /\ e'.st = "aw"
         /\ e'.kind = "gap" /\ e'.size = 1 /\ e'.addr = e.producer

Loads == Same({"st", "left"}) /\ e'.st = "w" /\ e'.left = e.size

Counts == /\ Same({"st", "left"}) /\ e'.left = e.left - 1
          /\ e'.st = IF e.left = 1 THEN "b" ELSE "w"

Moves == /\ Same({"st", "producer", "notify"}) /\ e'.st = "notify"
         /\ e'.producer = (e.producer + e.size) % R /\ e'.notify = e'.producer

\* What each action does to the registers of the engine, apart from those
\* that carry the drop flag.
LEMMA EngineMoves ==
  ASSUME Fields \subseteq DOMAIN e, NEW flush, NEW axi, Engine(flush, axi)
  PROVE  \/ Stays /\ e.st \in {"drain", "aw", "w", "b"}
         \/ e.st = "idle" /\ Turns("drain")
         \/ e.st = "drain" /\ Turns("gap") /\ ~caps.fullGap /\ e.gap
         \/ e.st = "drain" /\ Turns("cap") /\ ~caps.fullRecord
         \/ e.st = "cap" /\ Caps
         \/ e.st = "prep" /\ Turns("drain")
         \/ e.st = "prep" /\ e.capSize # 0 /\ Prepares
         \/ e.st = "notify" /\ Notifies
         \/ e.st = "gap" /\ Marks
         \/ e.st = "aw" /\ Loads
         \/ e.st = "w" /\ Counts
         \/ e.st = "b" /\ e.kind = "notify" /\ Turns("drain")
         \/ e.st = "b" /\ e.kind \in {"ring", "gap"} /\ Moves
<1>1. /\ Fields \subseteq DOMAIN Latched /\ \A f \in Numbers : Latched[f] = e[f]
  BY LatchedRegs
<1>2. ASSUME NEW st, Goes(st) PROVE Turns(st)
  BY <1>2, GoesRegs, Zenon DEF Same, Turns
<1>3. ASSUME e' = Latched PROVE Stays
  BY <1>1, <1>3, Zenon DEF Same, Stays, Fields, Numbers
<1> HIDE DEF Latched
<1>4. CASE Idle
  BY <1>2, <1>4, Zenon DEF Idle
<1>5. CASE Drain(flush)
  <2>1. e.st = "drain"
    BY <1>5 DEF Drain
  <2>2. ASSUME Goes("drain") PROVE Stays
    BY <1>2, <2>1, <2>2, Zenon DEF Stays, Turns, Same
  <2>3. \/ Goes("drain")
        \/ Goes("gap") /\ ~caps.fullGap /\ e.gap
        \/ Goes("cap") /\ ~caps.fullRecord
        \/ e' = Latched
        \/ e' = [Latched EXCEPT !.gap = TRUE, !.source = FALSE]
    BY <1>5 DEF Drain
  <2>4. ASSUME e' = [Latched EXCEPT !.gap = TRUE, !.source = FALSE] PROVE Stays
    BY <1>1, <2>4, Zenon DEF Stays, Same, Fields, Numbers
  <2> QED
    BY <1>2, <1>3, <2>1, <2>2, <2>3, <2>4, Zenon
<1>6. CASE BurstCap
  <2> DEFINE size == Least({Len(stage), caps.page, caps.wrap, caps.free})
  <2> HIDE DEF size
  <2>1. e' = [Latched EXCEPT !.capSize = size, !.capAddr = caps.addr, !.st = "prep"]
    BY <1>6 DEF BurstCap, size
  <2>2. Same({"st", "capSize", "capAddr"}) /\ e'.st = "prep" /\ e'.capAddr = caps.addr
    BY <1>1, <2>1, Zenon DEF Same, Fields, Numbers
  <2>3. e'.capSize = size
    BY <1>1, <2>1, Zenon DEF Same, Fields, Numbers
  <2> QED
    BY <1>6, <2>2, <2>3 DEF BurstCap, Caps, size
<1>7. CASE BurstPrep
  <2>1. CASE e.capSize = 0
    BY <1>2, <1>7, <2>1, Zenon DEF BurstPrep
  <2>2. CASE e.capSize # 0
    <3>1. e' = [Latched EXCEPT !.kind = "ring", !.size = e.capSize,
                               !.addr = e.capAddr, !.st = "aw"]
      BY <1>7, <2>2, Zenon DEF BurstPrep
    <3>2. Prepares
      BY <1>1, <3>1, Zenon DEF Prepares, Same, Fields, Numbers
    <3> QED
      BY <1>7, <2>2, <3>2, Zenon DEF BurstPrep
  <2> QED
    BY <2>1, <2>2
<1>8. CASE NotifyPrep
  BY <1>1, <1>8, Zenon DEF NotifyPrep, Notifies, Same, Fields, Numbers
<1>9. CASE GapPrep
  BY <1>1, <1>9, Zenon DEF GapPrep, Marks, Same, Fields, Numbers
<1>10. CASE Address(axi)
  <2>1. \/ e' = Latched
        \/ e' = [Latched EXCEPT !.left = e.size, !.st = "w"]
    BY <1>10 DEF Address
  <2>2. CASE e' = [Latched EXCEPT !.left = e.size, !.st = "w"]
    <3>1. Loads
      BY <1>1, <2>2, Zenon DEF Loads, Same, Fields, Numbers
    <3> QED
      BY <1>10, <3>1, Zenon DEF Address
  <2> QED
    BY <1>3, <1>10, <2>1, <2>2, Zenon DEF Address
<1>11. CASE Beat(axi)
  <2> DEFINE end == IF e.left = 1 THEN "b" ELSE "w"
  <2> HIDE DEF end
  <2>1. \/ e' = Latched
        \/ e' = [Latched EXCEPT !.left = e.left - 1, !.st = end]
    BY <1>11 DEF Beat, end
  <2>2. CASE e' = [Latched EXCEPT !.left = e.left - 1, !.st = end]
    <3>1. Same({"st", "left"}) /\ e'.left = e.left - 1 /\ e'.st = end
      BY <1>1, <2>2, Zenon DEF Same, Fields, Numbers
    <3> QED
      BY <1>11, <3>1, Zenon DEF Beat, Counts, end
  <2> QED
    BY <1>3, <1>11, <2>1, <2>2, Zenon DEF Beat
<1>12. CASE Response(axi)
  <2>1. ASSUME \/ e' = Moved
               \/ e' = [Moved EXCEPT !.gap = FALSE, !.ack = AcksDrop]
        PROVE Moves
    <3> DEFINE to == (e.producer + e.size) % R
               moved == [Latched EXCEPT !.producer = to, !.notify = to, !.st = "notify"]
    <3>1. Moved = moved
      BY DEF Moved
    <3> HIDE DEF to
    <3>2. /\ Fields \subseteq DOMAIN moved /\ moved.producer = to /\ moved.notify = to
          /\ moved.st = "notify"
          /\ \A f \in Numbers \ {"st", "producer", "notify"} : moved[f] = e[f]
      BY <1>1, Zenon DEF Fields, Numbers
    <3> HIDE DEF moved
    <3>3. /\ Same({"st", "producer", "notify"}) /\ e'.st = "notify"
          /\ e'.producer = to /\ e'.notify = to
      BY <2>1, <3>1, <3>2, ZenonT(60) DEF Same, Fields, Numbers
    <3> QED
      BY <3>3 DEF Moves, to
  <2> QED
    BY <1>2, <1>3, <1>12, <2>1, Zenon DEF Response
<1> QED
  BY <1>4, <1>5, <1>6, <1>7, <1>8, <1>9, <1>10, <1>11, <1>12 DEF Engine

\* The caps of the next clock.
LEMMA CapsNext ==
  ASSUME Shape, Pointers, RegisterCaps
  PROVE  /\ caps'.addr = e.producer
         /\ caps'.page \in Nat /\ caps'.page <= ToPageEnd(caps.addr)
         /\ caps'.wrap \in Nat /\ caps'.wrap <= R - e.producer
         /\ caps'.free \in Nat /\ (caps'.free > 0 => caps'.free <= Room)
         /\ caps'.fullGap \/ Room >= 0
<1> USE Sizes
<1>1. /\ e.producer \in Slots /\ consumerQ \in Slots /\ caps.addr \in Slots
      /\ MaxBurst \in Nat /\ R - e.producer \in Nat /\ ToPageEnd(caps.addr) \in Nat
  BY PageMod, SMT DEF Shape, Pointers, Slots, ToPageEnd
<1>2. Used = From(consumerQ, e.producer) /\ Used \in 0 .. (R - 1)
  <2>1. Used = From(consumerQ, e.producer)
    BY <1>1, FromMod DEF Used
  <2>2. From(consumerQ, e.producer) \in 0 .. (R - 1)
    BY <1>1, SMT DEF From, Slots
  <2> QED
    BY <2>1, <2>2, Zenon
<1> DEFINE page == Least({MaxBurst, PageBeats - (caps.addr % PageBeats)})
           wrap == Least({MaxBurst, R - e.producer})
           free == IF Free <= 0 THEN 0 ELSE Least({MaxBurst, Free})
           full == Used >= R - 1
<1> HIDE DEF page, wrap, free, full
<1>3. caps' = [addr |-> e.producer, page |-> page, wrap |-> wrap, free |-> free,
               fullRecord |-> Free <= 0, fullGap |-> full]
  BY DEF RegisterCaps, page, wrap, free, full
<1>4. /\ caps'.addr = e.producer /\ caps'.page = page /\ caps'.wrap = wrap
      /\ caps'.free = free /\ caps'.fullGap = full
  BY <1>3, Zenon
<1>5. /\ page \in Nat /\ page <= ToPageEnd(caps.addr)
      /\ wrap \in Nat /\ wrap <= R - e.producer
  <2>0. MaxBurst \in Int /\ R - e.producer \in Int /\ ToPageEnd(caps.addr) \in Int
    BY <1>1
  <2>1. page \in {MaxBurst, ToPageEnd(caps.addr)} /\ page <= ToPageEnd(caps.addr)
    BY <2>0, LeastOfTwo, Zenon DEF page, ToPageEnd
  <2>2. wrap \in {MaxBurst, R - e.producer} /\ wrap <= R - e.producer
    BY <2>0, LeastOfTwo, Zenon DEF wrap
  <2> QED
    BY <1>1, <2>1, <2>2, Zenon
<1>6. free \in Nat /\ (free > 0 => free <= Room)
  <2>1. Free = Room /\ Free \in Int
    BY <1>2, SMT DEF Free, Room
  <2>2. CASE Free <= 0
    BY <2>1, <2>2 DEF free
  <2>3. CASE ~(Free <= 0)
    <3>0. MaxBurst \in Int
      BY <1>1
    <3>1. LET l == Least({MaxBurst, Free}) IN l \in {MaxBurst, Free} /\ l <= Free
      BY <3>0, <2>1, LeastOfTwo, Zenon
    <3> QED
      BY <1>1, <2>1, <2>3, <3>1, SMT DEF free
  <2> QED
    BY <2>2, <2>3
<1>7. full \/ Room >= 0
  BY <1>2, SMT DEF Room, full
<1> QED
  BY <1>4, <1>5, <1>6, <1>7, Zenon

\* CPU1 only ever gives slots back: seen from the engine the room grows.
LEMMA RoomGrows ==
  ASSUME Pointers, consumerQ' = consumerReg, e'.producer = e.producer
  PROVE  Room' >= Room /\ Room \in Int /\ Room' \in Int
BY Sizes, SMT DEF Pointers, Room, From, Slots

LEMMA StageNext ==
  ASSUME Shape, Contents, Sized, Stages
  PROVE  /\ stage' \in Seq(Nat)
         /\ e.st \notin {"drain", "b"} => stage' = stage
         /\ e.st = "b" => stage' = stage \/ e'.st = "notify"
<1>1. CASE e.st = "b" /\ e'.st = "notify" /\ e.kind = "ring"
  <2>1. stage' = SubSeq(stage, e.size + 1, Len(stage))
    BY <1>1, Zenon DEF Stages
  <2>2. e.size \in Nat /\ e.size <= Len(stage)
    BY <1>1, SMT DEF Shape, Sized, InFlight
  <2> QED
    BY <1>1, <2>1, <2>2, SMT DEF Contents
<1>2. CASE ~(e.st = "b" /\ e'.st = "notify" /\ e.kind = "ring")
  <2>1. stage' = IF Pull THEN Append(stage, Head(fifo)) ELSE stage
    BY <1>2, Zenon DEF Stages
  <2>2. CASE Pull
    BY <2>1, <2>2, SMT DEF Pull, Contents
  <2> QED
    BY <2>1, <2>2, Zenon DEF Pull, Contents
<1> QED
  BY <1>1, <1>2

LEMMA SameFields ==
  /\ Same({}) =>
       /\ e'.st = e.st /\ e'.kind = e.kind /\ e'.size = e.size /\ e'.left = e.left
       /\ e'.addr = e.addr /\ e'.producer = e.producer
       /\ e'.notify = e.notify /\ e'.capSize = e.capSize /\ e'.capAddr = e.capAddr
  /\ Same({"st"}) =>
       /\ e'.kind = e.kind /\ e'.size = e.size /\ e'.left = e.left /\ e'.addr = e.addr
       /\ e'.producer = e.producer /\ e'.notify = e.notify
       /\ e'.capSize = e.capSize /\ e'.capAddr = e.capAddr
  /\ Same({"st", "capSize", "capAddr"}) =>
       /\ e'.kind = e.kind /\ e'.size = e.size /\ e'.left = e.left /\ e'.addr = e.addr
       /\ e'.producer = e.producer /\ e'.notify = e.notify
  /\ Same({"st", "kind", "size", "addr"}) =>
       /\ e'.left = e.left /\ e'.producer = e.producer
       /\ e'.notify = e.notify /\ e'.capSize = e.capSize
       /\ e'.capAddr = e.capAddr
  /\ Same({"st", "kind", "size"}) =>
       /\ e'.left = e.left /\ e'.addr = e.addr
       /\ e'.producer = e.producer /\ e'.notify = e.notify
       /\ e'.capSize = e.capSize /\ e'.capAddr = e.capAddr
  /\ Same({"st", "left"}) =>
       /\ e'.kind = e.kind /\ e'.size = e.size
       /\ e'.addr = e.addr /\ e'.producer = e.producer
       /\ e'.notify = e.notify /\ e'.capSize = e.capSize /\ e'.capAddr = e.capAddr
  /\ Same({"st", "producer", "notify"}) =>
       /\ e'.kind = e.kind /\ e'.size = e.size /\ e'.left = e.left /\ e'.addr = e.addr
       /\ e'.capSize = e.capSize /\ e'.capAddr = e.capAddr
BY Zenon DEF Same, Numbers

\* The pointers keep their order when the engine moves on and CPU1's pointer
\* reaches it.
LEMMA PointersNext ==
  ASSUME Shape, Pointers, Sized,
         consumerQ' = consumerReg, UNCHANGED <<consumerReg, rd, limit>>,
         \/ /\ e'.producer = e.producer /\ e'.notify = e.notify
            /\ slot' \in {slot, e.notify}
         \/ /\ e.st = "b" /\ e.kind \in {"ring", "gap"} /\ slot' = slot
            /\ e'.producer = (e.producer + e.size) % R /\ e'.notify = e'.producer
  PROVE  Pointers'
<1> USE Sizes
<1>1. \A x \in {consumerReg, rd, slot, e.producer} \cup ({limit} \ {None}) :
        /\ x \in Slots /\ From(consumerQ, x) \in Int
        /\ From(consumerReg, x) = From(consumerQ, x) - From(consumerQ, consumerReg)
        /\ From(consumerReg, x) >= 0
  <2> SUFFICES ASSUME NEW x \in {consumerReg, rd, slot, e.producer} \cup ({limit} \ {None})
               PROVE  /\ x \in Slots /\ From(consumerQ, x) \in Int
                      /\ From(consumerReg, x) =
                           From(consumerQ, x) - From(consumerQ, consumerReg)
                      /\ From(consumerReg, x) >= 0
    BY Zenon
  <2>1. x \in Slots /\ consumerQ \in Slots /\ consumerReg \in Slots
    BY Zenon DEF Pointers
  <2>2. /\ From(consumerQ, x) \in 0 .. (R - 1) /\ From(consumerReg, x) \in 0 .. (R - 1)
        /\ \A y \in Slots : From(consumerQ, y) \in 0 .. (R - 1)
    BY <2>1, FromRange
  <2>3. From(consumerQ, consumerReg) <= From(consumerQ, x)
    BY <2>2, SMT DEF Pointers
  <2>4. From(consumerReg, x) = From(consumerQ, x) - From(consumerQ, consumerReg)
    BY <2>1, <2>3, FromTurn
  <2> QED
    BY <2>1, <2>2, <2>4
<1>2. CASE e'.producer = e.producer /\ e'.notify = e.notify /\ slot' \in {slot, e.notify}
  <2>1. e.notify = e.producer
    BY DEF Pointers
  <2>2. From(consumerReg, consumerReg) <= From(consumerReg, rd)
    BY <1>1, SMT DEF From, Pointers, Slots
  <2> QED
    BY <1>1, <1>2, <2>1, <2>2, SMT DEF Pointers
<1>3. CASE /\ e.st = "b" /\ e.kind \in {"ring", "gap"} /\ slot' = slot
           /\ e'.producer = (e.producer + e.size) % R /\ e'.notify = e'.producer
  <2>1. /\ e.size \in Nat /\ e.producer \in Slots /\ consumerReg \in Slots
        /\ e.producer + e.size <= R /\ From(consumerQ, e.producer) + e.size <= R - 1
    <3>1. Room \in Int /\ Room = R - 2 - From(consumerQ, e.producer)
      BY <1>1, SMT DEF Room
    <3>2. Fits(e.addr, e.size) /\ e.size <= Room + 1 /\ e.size \in Nat
      BY <1>3, <3>1, SMT DEF Sized, InFlight, Shape
    <3> QED
      BY <1>1, <3>1, <3>2, SMT DEF Fits, Slots, Pointers
  <2>2. /\ From(consumerReg, e.producer) \in Int
        /\ From(consumerReg, e.producer) + e.size <= R - 1
    <3>1. From(consumerQ, consumerReg) \in 0 .. (R - 1)
      BY FromRange DEF Pointers
    <3> QED
      BY <1>1, <2>1, <3>1
  <2>3. /\ e'.producer \in Slots
        /\ From(consumerReg, e'.producer) = From(consumerReg, e.producer) + e.size
    BY <1>3, <2>1, <2>2, FromOn
  <2>4. From(consumerReg, consumerReg) <= From(consumerReg, rd)
    BY <1>1, SMT DEF From, Pointers, Slots
  <2> QED
    BY <1>1, <1>3, <2>1, <2>2, <2>3, <2>4, SMT DEF Pointers
<1> QED
  BY <1>2, <1>3

LEMMA SlotNext ==
  ASSUME Lands
  PROVE  slot' = slot \/ (e.st = "w" /\ slot' = e.notify)
BY Zenon DEF Lands, BeatLands

\* A clock of the engine keeps what has been sized legal.
LEMMA EngineNext ==
  ASSUME RingInv, NEW flush, NEW axi, Engine(flush, axi), RegisterCaps, Stages, Lands,
         UNCHANGED cpu
  PROVE  Shape' /\ Pointers' /\ Fresh' /\ Sized'
<1> USE Sizes DEF RingInv
<1>1. /\ caps'.addr = e.producer
      /\ caps'.page \in Nat /\ caps'.page <= ToPageEnd(caps.addr)
      /\ caps'.wrap \in Nat /\ caps'.wrap <= R - e.producer
      /\ caps'.free \in Nat /\ (caps'.free > 0 => caps'.free <= Room)
      /\ (caps'.fullGap \/ Room >= 0)
  BY CapsNext, Zenon
<1>2. /\ e.st \notin {"drain", "b"} => stage' = stage
      /\ e.st = "b" => stage' = stage \/ e'.st = "notify"
  BY StageNext
<1>3. consumerQ' = consumerReg /\ UNCHANGED <<consumerReg, rd, limit>>
  BY DEF RegisterCaps, cpu
<1>4. slot' = slot \/ (e.st = "w" /\ slot' = e.notify)
  BY SlotNext
<1>5. ASSUME e'.producer = e.producer, e'.notify = e.notify
      PROVE  Pointers' /\ Room' >= Room /\ Room \in Int /\ Room' \in Int
  BY <1>3, <1>4, <1>5, PointersNext, RoomGrows
<1>0. /\ Fields \subseteq DOMAIN e /\ e.producer \in Slots
      /\ ToPageEnd(e.producer) \in 1 .. PageBeats
  BY PageMod DEF Shape, Pointers
<1>6. CASE Stays /\ e.st \in {"drain", "aw", "w", "b"}
  <2>1. /\ Fields \subseteq DOMAIN e'
        /\ e'.st = e.st /\ e'.kind = e.kind /\ e'.size = e.size /\ e'.left = e.left
        /\ e'.addr = e.addr /\ e'.producer = e.producer /\ e'.notify = e.notify
        /\ e'.capSize = e.capSize /\ e'.capAddr = e.capAddr
    BY <1>6, SameFields, Zenon DEF Stays, Same
  <2>2. Shape'
    BY <1>1, <1>6, <2>1 DEF Shape, Pointers, States
  <2>3. Fresh'
    BY <1>1, <1>5, <1>6, <2>1 DEF Fresh
  <2>4. Sized'
    BY <1>2, <1>1, <1>5, <1>6, <2>1 DEF Sized, Fits, InFlight, Shape
  <2> QED
    BY <1>5, <2>1, <2>2, <2>3, <2>4
<1>7. CASE e.st = "idle" /\ Turns("drain")
  <2>1. /\ Fields \subseteq DOMAIN e'
        /\ e'.st = "drain" /\ e'.kind = e.kind /\ e'.size = e.size /\ e'.left = e.left
        /\ e'.addr = e.addr /\ e'.producer = e.producer /\ e'.notify = e.notify
        /\ e'.capSize = e.capSize /\ e'.capAddr = e.capAddr
    BY <1>7, SameFields, Zenon DEF Turns, Same
  <2>2. Shape'
    BY <1>1, <1>7, <2>1 DEF Shape, Pointers, States
  <2>3. Fresh'
    BY <1>1, <1>5, <1>7, <2>1 DEF Fresh
  <2>4. Sized'
    BY <1>2, <1>1, <1>5, <1>7, <2>1 DEF Sized, Fits, InFlight, Shape
  <2> QED
    BY <1>5, <2>1, <2>2, <2>3, <2>4
<1>8. CASE e.st = "drain" /\ Turns("gap") /\ ~caps.fullGap /\ e.gap
  <2>1. /\ Fields \subseteq DOMAIN e'
        /\ e'.st = "gap" /\ e'.kind = e.kind /\ e'.size = e.size /\ e'.left = e.left
        /\ e'.addr = e.addr /\ e'.producer = e.producer /\ e'.notify = e.notify
        /\ e'.capSize = e.capSize /\ e'.capAddr = e.capAddr
    BY <1>8, SameFields, Zenon DEF Turns, Same
  <2>2. Shape'
    BY <1>1, <1>8, <2>1 DEF Shape, Pointers, States
  <2>3. Fresh'
    BY <1>1, <1>5, <1>8, <2>1 DEF Fresh
  <2>5. Room >= 0
    BY <1>8, Zenon DEF Fresh
  <2>4. Sized'
    BY <2>5, <1>2, <1>1, <1>5, <1>8, <2>1 DEF Sized, Fits, InFlight, Shape
  <2> QED
    BY <1>5, <2>1, <2>2, <2>3, <2>4
<1>9. CASE e.st = "drain" /\ Turns("cap") /\ ~caps.fullRecord
  <2>1. /\ Fields \subseteq DOMAIN e'
        /\ e'.st = "cap" /\ e'.kind = e.kind /\ e'.size = e.size /\ e'.left = e.left
        /\ e'.addr = e.addr /\ e'.producer = e.producer /\ e'.notify = e.notify
        /\ e'.capSize = e.capSize /\ e'.capAddr = e.capAddr
    BY <1>9, SameFields, Zenon DEF Turns, Same
  <2>2. Shape'
    BY <1>1, <1>9, <2>1 DEF Shape, Pointers, States
  <2>3. Fresh'
    BY <1>1, <1>5, <1>9, <2>1 DEF Fresh
  <2>4. Sized'
    BY <1>2, <1>1, <1>5, <1>9, <2>1 DEF Sized, Fits, InFlight, Shape
  <2> QED
    BY <1>5, <2>1, <2>2, <2>3, <2>4
<1>10. CASE e.st = "cap" /\ Caps
  <2>1. /\ Fields \subseteq DOMAIN e'
        /\ e'.st = "prep"
        /\ e'.capSize = Least({Len(stage), caps.page, caps.wrap, caps.free})
        /\ e'.capAddr = caps.addr /\ e'.kind = e.kind /\ e'.size = e.size /\ e'.left = e.left
        /\ e'.addr = e.addr /\ e'.producer = e.producer /\ e'.notify = e.notify
    BY <1>10, SameFields, Zenon DEF Caps, Same
  <2>2. /\ Len(stage) \in Nat /\ caps.page \in Nat /\ caps.wrap \in Nat /\ caps.free \in Nat
        /\ Len(stage) \in Int /\ caps.page \in Int /\ caps.wrap \in Int /\ caps.free \in Int
    BY DEF Contents, Shape
  <2>3. /\ e'.capSize \in {Len(stage), caps.page, caps.wrap, caps.free}
        /\ e'.capSize <= Len(stage) /\ e'.capSize <= caps.page
        /\ e'.capSize <= caps.wrap /\ e'.capSize <= caps.free
    <3> DEFINE l == Least({Len(stage), caps.page, caps.wrap, caps.free})
    <3>1. /\ l \in {Len(stage), caps.page, caps.wrap, caps.free}
          /\ l <= Len(stage) /\ l <= caps.page /\ l <= caps.wrap /\ l <= caps.free
      BY <2>2, LeastOf, Zenon
    <3> QED
      BY <2>1, <3>1, Zenon
  <2>4. Shape'
    BY <1>1, <1>10, <2>1, <2>2, <2>3, Zenon DEF Shape, Pointers, States
  <2>5. Fresh'
    BY <1>1, <1>5, <1>10, <2>1, <2>2, <2>3 DEF Fresh
  <2>7. /\ caps.addr = e.producer /\ caps.page <= ToPageEnd(e.producer)
        /\ caps.wrap <= R - e.producer /\ (caps.free > 0 => caps.free <= Room)
    BY <1>10, Zenon DEF Fresh
  <2>8. /\ Fits(e.producer, e'.capSize) /\ e'.capSize <= Len(stage)
        /\ e'.capSize > 0 => e'.capSize <= Room
    <3>1. e'.capSize \in Nat /\ Room \in Int
      BY <1>5, <2>1, <2>2, <2>3, Zenon
    <3>2. e'.capSize <= ToPageEnd(e.producer) /\ e.producer + e'.capSize <= R
      BY <1>0, <2>2, <2>3, <2>7, <3>1, Sizes DEF Slots
    <3>3. e'.capSize > 0 => e'.capSize <= Room
      BY <2>2, <2>3, <2>7, <3>1
    <3> QED
      BY <2>3, <3>2, <3>3, Zenon DEF Fits
  <2>6. Sized'
    BY <1>2, <1>5, <1>10, <2>1, <2>7, <2>8, <2>4 DEF Sized, Fits, InFlight, Shape
  <2> QED
    BY <1>5, <2>1, <2>4, <2>5, <2>6
<1>11. CASE e.st = "prep" /\ Turns("drain")
  <2>1. /\ Fields \subseteq DOMAIN e'
        /\ e'.st = "drain" /\ e'.kind = e.kind /\ e'.size = e.size /\ e'.left = e.left
        /\ e'.addr = e.addr /\ e'.producer = e.producer /\ e'.notify = e.notify
        /\ e'.capSize = e.capSize /\ e'.capAddr = e.capAddr
    BY <1>11, SameFields, Zenon DEF Turns, Same
  <2>2. Shape'
    BY <1>1, <1>11, <2>1 DEF Shape, Pointers, States
  <2>3. Fresh'
    BY <1>1, <1>5, <1>11, <2>1 DEF Fresh
  <2>4. Sized'
    BY <1>2, <1>1, <1>5, <1>11, <2>1 DEF Sized, Fits, InFlight, Shape
  <2> QED
    BY <1>5, <2>1, <2>2, <2>3, <2>4
<1>12. CASE e.st = "prep" /\ e.capSize # 0 /\ Prepares
  <2>1. /\ Fields \subseteq DOMAIN e'
        /\ e'.st = "aw" /\ e'.kind = "ring" /\ e'.size = e.capSize /\ e'.addr = e.capAddr
        /\ e'.left = e.left /\ e'.producer = e.producer /\ e'.notify = e.notify
        /\ e'.capSize = e.capSize /\ e'.capAddr = e.capAddr
    BY <1>12, SameFields, Zenon DEF Prepares, Same
  <2>2. Shape'
    BY <1>1, <1>12, <2>1 DEF Shape, Pointers, States
  <2>3. Fresh'
    BY <1>1, <1>5, <1>12, <2>1 DEF Fresh
  <2>4. Sized'
    BY <1>2, <1>1, <1>5, <1>12, <2>1 DEF Sized, Fits, InFlight, Shape
  <2> QED
    BY <1>5, <2>1, <2>2, <2>3, <2>4
<1>13. CASE e.st = "notify" /\ Notifies
  <2>1. /\ Fields \subseteq DOMAIN e'
        /\ e'.st = "aw" /\ e'.kind = "notify" /\ e'.size = 1 /\ e'.left = e.left
        /\ e'.addr = e.addr /\ e'.producer = e.producer /\ e'.notify = e.notify
        /\ e'.capSize = e.capSize /\ e'.capAddr = e.capAddr
    BY <1>13, SameFields, Zenon DEF Notifies, Same
  <2>2. Shape'
    BY <1>1, <1>13, <2>1 DEF Shape, Pointers, States
  <2>3. Fresh'
    BY <1>1, <1>5, <1>13, <2>1 DEF Fresh
  <2>4. Sized'
    BY <1>2, <1>1, <1>5, <1>13, <2>1 DEF Sized, Fits, InFlight, Shape
  <2> QED
    BY <1>5, <2>1, <2>2, <2>3, <2>4
<1>14. CASE e.st = "gap" /\ Marks
  <2>1. /\ Fields \subseteq DOMAIN e'
        /\ e'.st = "aw" /\ e'.kind = "gap" /\ e'.size = 1 /\ e'.addr = e.producer
        /\ e'.left = e.left /\ e'.producer = e.producer /\ e'.notify = e.notify
        /\ e'.capSize = e.capSize /\ e'.capAddr = e.capAddr
    BY <1>14, SameFields, Zenon DEF Marks, Same
  <2>2. Shape'
    BY <1>1, <1>14, <2>1 DEF Shape, Pointers, States
  <2>3. Fresh'
    BY <1>1, <1>5, <1>14, <2>1 DEF Fresh
  <2>4. Sized'
    BY <1>0, Sizes, <1>2, <1>1, <1>5, <1>14, <2>1 DEF Sized, Fits, InFlight, Slots
  <2> QED
    BY <1>5, <2>1, <2>2, <2>3, <2>4
<1>15. CASE e.st = "aw" /\ Loads
  <2>1. /\ Fields \subseteq DOMAIN e'
        /\ e'.st = "w" /\ e'.left = e.size /\ e'.kind = e.kind /\ e'.size = e.size
        /\ e'.addr = e.addr /\ e'.producer = e.producer /\ e'.notify = e.notify
        /\ e'.capSize = e.capSize /\ e'.capAddr = e.capAddr
    BY <1>15, SameFields, Zenon DEF Loads, Same
  <2>2. Shape'
    BY <1>1, <1>15, <2>1 DEF Shape, Pointers, States
  <2>3. Fresh'
    BY <1>1, <1>5, <1>15, <2>1 DEF Fresh
  <2>4. Sized'
    BY <1>2, <1>1, <1>5, <1>15, <2>1 DEF Sized, Fits, InFlight, Shape
  <2> QED
    BY <1>5, <2>1, <2>2, <2>3, <2>4
<1>16. CASE e.st = "w" /\ Counts
  <2>0. e'.st = IF e.left = 1 THEN "b" ELSE "w"
    BY <1>16, Zenon DEF Counts
  <2>1. /\ Fields \subseteq DOMAIN e' /\ e'.left = e.left - 1
        /\ e'.kind = e.kind /\ e'.size = e.size /\ e'.addr = e.addr
        /\ e'.producer = e.producer /\ e'.notify = e.notify /\ e'.capSize = e.capSize
        /\ e'.capAddr = e.capAddr
    BY <1>16, SameFields, Zenon DEF Counts, Same
  <2>2. Shape'
    BY <1>1, <1>16, <2>0, <2>1 DEF Shape, Pointers, States, Sized, InFlight
  <2>3. Fresh'
    BY <1>1, <1>5, <1>16, <2>0, <2>1 DEF Fresh
  <2>4. Sized'
    BY <1>2, <1>1, <1>5, <1>16, <2>0, <2>1 DEF Sized, Fits, InFlight, Shape
  <2> QED
    BY <1>5, <2>1, <2>2, <2>3, <2>4
<1>17. CASE e.st = "b" /\ e.kind = "notify" /\ Turns("drain")
  <2>1. /\ Fields \subseteq DOMAIN e'
        /\ e'.st = "drain" /\ e'.kind = e.kind /\ e'.size = e.size /\ e'.left = e.left
        /\ e'.addr = e.addr /\ e'.producer = e.producer /\ e'.notify = e.notify
        /\ e'.capSize = e.capSize /\ e'.capAddr = e.capAddr
    BY <1>17, SameFields, Zenon DEF Turns, Same
  <2>2. Shape'
    BY <1>1, <1>17, <2>1 DEF Shape, Pointers, States
  <2>3. Fresh'
    BY <1>1, <1>5, <1>17, <2>1 DEF Fresh
  <2>4. Sized'
    BY <1>2, <1>1, <1>5, <1>17, <2>1 DEF Sized, Fits, InFlight, Shape
  <2> QED
    BY <1>5, <2>1, <2>2, <2>3, <2>4
<1>18. CASE e.st = "b" /\ e.kind \in {"ring", "gap"} /\ Moves
  <2>1. /\ Fields \subseteq DOMAIN e'
        /\ e'.st = "notify" /\ e'.producer = (e.producer + e.size) % R
        /\ e'.notify = e'.producer /\ e'.kind = e.kind /\ e'.size = e.size
        /\ e'.left = e.left /\ e'.addr = e.addr /\ e'.capSize = e.capSize
        /\ e'.capAddr = e.capAddr
    BY <1>18, SameFields, Zenon DEF Moves, Same
  <2>2. Pointers'
    BY <1>3, <1>4, <1>18, <2>1, PointersNext
  <2>3. Shape'
    BY <1>1, <1>18, <2>1, <2>2 DEF Shape, Pointers, States
  <2>4. Fresh'
    BY <1>1, <2>2, <1>18, <2>1 DEF Fresh
  <2>5. Sized'
    BY <1>2, <1>1, <2>2, <1>18, <2>1 DEF Sized, Fits, InFlight, Shape
  <2> QED
    BY <2>2, <2>1, <2>3, <2>4, <2>5
<1> QED
  BY <1>0, <1>6, <1>7, <1>8, <1>9, <1>10, <1>11, <1>12, <1>13, <1>14, <1>15, <1>16, <1>17,
     <1>18, EngineMoves, ZenonT(60)

LEMMA CaptureTypes ==
  ASSUME Contents, produced \in Nat, NEW bus \in 0 .. 2, NEW direct, Captures(bus, direct)
  PROVE  fifo' \in Seq(Nat) /\ held' \in Seq(Nat) /\ produced' \in Nat
<1> DEFINE arrivals == IF direct /\ DirectReady(bus) THEN 1 ELSE bus
           written == IF FifoFull THEN <<>> ELSE IF held # <<>> THEN held
                      ELSE IF arrivals > 0 THEN <<produced + 1>> ELSE <<>>
           keeps   == IF held # <<>> /\ FifoFull THEN held
                      ELSE IF held = <<>> /\ bus = 2 /\ ~FifoFull THEN <<produced + 2>>
                      ELSE <<>>
           rest    == IF Pull THEN Tail(fifo) ELSE fifo
<1>1. produced' = produced + arrivals /\ fifo' = rest \o written /\ held' = keeps
  BY DEF Captures
<1>2. arrivals \in Nat /\ produced + 1 \in Nat /\ produced + 2 \in Nat
  BY SMT
<1>3. written \in Seq(Nat)
  <2>1. <<produced + 1>> \in Seq(Nat) /\ <<>> \in Seq(Nat)
    BY <1>2
  <2> QED
    BY <2>1, Zenon DEF Contents
<1>4. keeps \in Seq(Nat)
  <2>1. <<produced + 2>> \in Seq(Nat) /\ <<>> \in Seq(Nat)
    BY <1>2
  <2> QED
    BY <2>1, Zenon DEF Contents
<1>5. rest \in Seq(Nat)
  <2>1. CASE Pull
    BY <2>1 DEF Pull, Contents
  <2>2. CASE ~Pull
    BY <2>2, Zenon DEF Contents
  <2> QED
    BY <2>1, <2>2
<1> HIDE DEF arrivals, written, keeps, rest
<1> QED
  BY <1>1, <1>2, <1>3, <1>4, <1>5

LEMMA RingNext == RingInv /\ produced \in Nat /\ [Next]_vars => RingInv'
<1> SUFFICES ASSUME RingInv, produced \in Nat, [Next]_vars PROVE RingInv'
  OBVIOUS
<1>1. CASE Clock
  <2>1. PICK flush \in Flushes, axi \in Answers : Engine(flush, axi)
    BY <1>1 DEF Clock
  <2>2. PICK bus \in 0..2, direct \in Offers : Captures(bus, direct)
    BY <1>1 DEF Clock
  <2>3. RegisterCaps /\ Stages /\ Lands /\ UNCHANGED cpu
    BY <1>1, Zenon DEF Clock
  <2>4. Shape' /\ Pointers' /\ Fresh' /\ Sized'
    BY <2>1, <2>3, EngineNext, Zenon
  <2>5. Contents'
    BY <2>2, <2>3, CaptureTypes, StageNext, Zenon DEF RingInv, Contents
  <2> QED
    BY <2>4, <2>5, Zenon DEF RingInv
<1>2. ASSUME UNCHANGED engine, UNCHANGED capture PROVE Shape' /\ Fresh' /\ Sized' /\ Contents'
  <2>1. UNCHANGED <<stage, e, caps, consumerQ, fifo, held>>
    BY <1>2, Zenon DEF engine, capture
  <2>2. UNCHANGED Room
    BY <2>1 DEF Room, From
  <2> QED
    BY <2>1, <2>2 DEF RingInv, Shape, Fresh, Sized, Contents, Fits, ToPageEnd, InFlight
<1>3. /\ Pointers /\ \A x \in Slots : From(consumerQ, x) \in 0 .. (R - 1)
  BY FromRange DEF RingInv, Pointers
<1>4. CASE Poll
  <2>1. Pointers'
    BY <1>3, <1>4, Zenon, SMT DEF Poll, Pointers, engine
  <2> QED
    BY <1>2, <1>4, <2>1, Zenon DEF Poll, RingInv
<1>5. CASE Deliver
  <2>1. Pointers'
    <3>1. /\ rd \in Slots /\ limit \in Slots /\ rd # limit /\ limit # None
          /\ From(consumerQ, rd) <= From(consumerQ, limit)
          /\ UNCHANGED <<consumerQ, consumerReg, limit, slot, e>>
      BY <1>3, <1>5 DEF Deliver, Unread, Pointers, engine
    <3>2. From(consumerQ, rd) # From(consumerQ, limit)
      BY <1>3, <3>1, Sizes, SMT DEF From, Slots, Pointers
    <3>3. From(consumerQ, rd) + 1 <= R - 1 /\ rd + 1 <= R
      BY <1>3, <3>1, <3>2, Sizes, SMT DEF Slots
    <3>4. rd' \in Slots /\ From(consumerQ, rd') = From(consumerQ, rd) + 1
      BY <1>3, <1>5, <3>1, <3>3, FromOn DEF Deliver, Following, Pointers
    <3> QED
      BY <1>3, <3>1, <3>2, <3>4, SMT DEF Pointers
  <2> QED
    BY <1>2, <1>5, <2>1, Zenon DEF Deliver, RingInv
<1>6. CASE Publish
  <2>1. Pointers'
    BY <1>3, <1>6, SMT DEF Publish, Pointers, engine
  <2> QED
    BY <1>2, <1>6, <2>1, Zenon DEF Publish, RingInv
<1>7. CASE UNCHANGED vars
  <2>1. Pointers'
    BY <1>7 DEF RingInv, Pointers, From, vars, engine, cpu
  <2> QED
    BY <1>2, <1>7, <2>1, Zenon DEF vars, RingInv
<1> QED
  BY <1>1, <1>4, <1>5, <1>6, <1>7, Zenon DEF Next

LEMMA RingLegal == RingInv => BurstLegal
<1> SUFFICES ASSUME RingInv, InFlight, e.kind # "notify" PROVE BurstLegal
  BY DEF BurstLegal
<1>1. consumerQ \in Slots /\ consumerReg \in Slots /\ e.producer \in Slots
  BY DEF RingInv, Pointers
<1>2. /\ (e.producer - consumerReg) % R = From(consumerReg, e.producer)
      /\ From(consumerReg, e.producer) \in Int
  BY <1>1, FromMod, FromRange
<1>3. From(consumerReg, e.producer) <= From(consumerQ, e.producer)
  <2>1. /\ \A x \in Slots : From(consumerQ, x) \in 0 .. (R - 1)
    BY <1>1, FromRange
  <2>2. From(consumerQ, consumerReg) <= From(consumerQ, e.producer)
    BY <1>1, <2>1, SMT DEF RingInv, Pointers
  <2> QED
    BY <1>1, <2>1, <2>2, FromTurn
<1>4. /\ Fits(e.addr, e.size) /\ e.size \in Nat
      /\ e.kind = "ring" => e.size <= Len(stage) /\ e.size <= Room
      /\ e.kind = "gap" => Room >= 0
  BY DEF RingInv, Sized, Shape
<1>5. Room = R - 2 - From(consumerQ, e.producer) /\ From(consumerQ, e.producer) \in Int
  BY <1>1, FromRange DEF Room
<1>6. e.addr = e.producer /\ e.addr + e.size <= R /\ e.size <= ToPageEnd(e.addr)
  BY <1>4, Zenon DEF Fits
<1>7. (e.addr % PageBeats) + e.size <= PageBeats
  <2>1. e.addr \in Slots /\ ToPageEnd(e.addr) \in 1 .. PageBeats
    BY <1>1, <1>6, PageMod
  <2>2. e.addr % PageBeats \in Int
    BY <2>1, Sizes, SMT DEF Slots
  <2> QED
    BY <1>4, <1>6, <2>2, Sizes DEF ToPageEnd
<1>8. /\ e.kind = "ring" => From(consumerReg, e.producer) + e.size <= R - 2
      /\ e.kind = "gap" => From(consumerReg, e.producer) + 1 <= R - 1
  BY <1>2, <1>3, <1>4, <1>5, Sizes
<1> QED
  BY <1>2, <1>4, <1>6, <1>7, <1>8, Zenon DEF BurstLegal

\* Every burst is legal whatever the timing of the port and of CPU1
\* (apple_cycle_egress.sv:196-239, 428-465).
THEOREM BurstsLegal == Spec => []BurstLegal
<1>1. Init => RingInv /\ IInv
  BY RingInit, InitInv
<1>2. (RingInv /\ IInv) /\ [Next]_vars => (RingInv /\ IInv)'
  BY RingNext, StepInv, Zenon DEF IInv, Flags
<1>3. RingInv /\ IInv => BurstLegal
  BY RingLegal
<1> QED
  BY <1>1, <1>2, <1>3, PTL DEF Spec

(***************************************************************************)
(* Whole frames.  The records on their way are consecutive: those in the   *)
(* FIFO and the stage by their numbers, those in the ring by a witness     *)
(* that gives for every slot the number of the last record before it, for  *)
(* markers may stand between them.                                         *)
(***************************************************************************)
Accepted == produced - Len(held)
Staged == Accepted - Len(fifo)
Left == Staged - Len(stage)

\* A sequence whose entries count up from the number after base.
Row(q, base) == \A i \in 1 .. Len(q) : q[i] = base + i

\* While nothing is dropped the records on their way are consecutive.
InRow ==
  /\ held = <<>> \/ held = <<produced>>
  /\ Row(fifo, Staged) /\ Row(stage, Left)

\* What a clock that loses nothing puts into the FIFO.
LEMMA CaptureRow ==
  ASSUME Contents, InRow, produced \in Nat, NEW bus \in 0 .. 2, NEW direct,
         Captures(bus, direct), ~dropped'
  PROVE  /\ ~dropped
         /\ \E written \in Seq(Nat) :
              /\ written = <<>> \/ written = <<Accepted + 1>>
              /\ fifo' = (IF Pull THEN Tail(fifo) ELSE fifo) \o written
              /\ held' = <<>> \/ held' = <<produced'>>
              /\ held' \in Seq(Nat) /\ produced' \in Nat
              /\ produced' - Len(held') = Accepted + Len(written)
<1> DEFINE arrivals == IF direct /\ DirectReady(bus) THEN 1 ELSE bus
           fresh   == (produced + 1)..(produced + arrivals)
           written == IF FifoFull THEN <<>> ELSE IF held # <<>> THEN held
                      ELSE IF arrivals > 0 THEN <<produced + 1>> ELSE <<>>
           keeps   == IF held # <<>> /\ FifoFull THEN held
                      ELSE IF held = <<>> /\ bus = 2 /\ ~FifoFull THEN <<produced + 2>>
                      ELSE <<>>
           losses  == {n \in fresh : <<n>> \notin {written, keeps}}
<1>1. /\ produced' = produced + arrivals /\ held' = keeps
      /\ fifo' = (IF Pull THEN Tail(fifo) ELSE fifo) \o written
      /\ dropped' = (dropped \/ losses # {})
      /\ held = <<>> \/ FifoFull \/ bus = 0
  BY DEF Captures
<1>2. ~dropped /\ losses = {}
  BY <1>1, Zenon
<1>3. arrivals \in 0 .. 2 /\ (held # <<>> => arrivals = bus)
      /\ (arrivals = 2 => bus = 2) /\ (arrivals = 1 => bus # 2) /\ (arrivals = 0 => bus = 0)
  BY SMT DEF DirectReady
<1>4. \A n \in fresh : <<n>> = written \/ <<n>> = keeps
  BY <1>2, Zenon
<1>5. held = <<>> \/ held = <<produced>>
  BY DEF InRow
<1> DEFINE Outcome ==
        \/ written = <<>> /\ keeps = <<>> /\ Accepted = produced /\ arrivals = 0
        \/ written = <<>> /\ keeps = <<produced>> /\ Accepted = produced - 1 /\ arrivals = 0
        \/ written = <<produced>> /\ keeps = <<>> /\ Accepted = produced - 1 /\ arrivals = 0
        \/ written = <<produced + 1>> /\ keeps = <<>> /\ Accepted = produced /\ arrivals = 1
        \/ /\ written = <<produced + 1>> /\ keeps = <<produced + 2>>
           /\ Accepted = produced /\ arrivals = 2
<1>6. ASSUME held # <<>> PROVE Outcome
  <2>1. held = <<produced>> /\ Accepted = produced - 1
    BY <1>5, <1>6 DEF Accepted
  <2>2. arrivals = 0
    <3>1. SUFFICES ASSUME arrivals # 0 PROVE FALSE
      OBVIOUS
    <3>2. produced + 1 \in fresh /\ FifoFull
      BY <1>1, <1>3, <1>6, <3>1
    <3>3. <<produced + 1>> = <<>> \/ <<produced + 1>> = held
      BY <1>4, <1>6, <3>2, Zenon
    <3> QED
      BY <2>1, <3>3
  <2> QED
    BY <1>6, <2>1, <2>2
<1>7. ASSUME held = <<>>, FifoFull PROVE Outcome
  <2>1. written = <<>> /\ keeps = <<>>
    BY <1>7, Zenon
  <2>2. arrivals = 0
    <3>1. SUFFICES ASSUME arrivals # 0 PROVE FALSE
      OBVIOUS
    <3>2. produced + 1 \in fresh
      BY <1>3, <3>1
    <3>3. <<produced + 1>> = <<>>
      BY <1>4, <2>1, <3>2, Zenon
    <3> QED
      BY <3>3
  <2> QED
    BY <1>7, <2>1, <2>2 DEF Accepted
<1>8. ASSUME held = <<>>, ~FifoFull PROVE Outcome
  <2>1. Accepted = produced
    BY <1>8 DEF Accepted
  <2>2. CASE arrivals = 0
    BY <1>8, <1>3, <2>1, <2>2
  <2>3. CASE arrivals = 1
    BY <1>8, <1>3, <2>1, <2>3
  <2>4. CASE arrivals = 2
    BY <1>8, <1>3, <2>1, <2>4
  <2> QED
    BY <1>3, <2>1, <2>2, <2>3, <2>4
<1> QED
  <2>1. Outcome
    BY <1>6, <1>7, <1>8, Zenon
  <2> HIDE DEF written, keeps, arrivals
  <2>2. /\ \A x \in Nat : Len(<<x>>) = 1 /\ <<x>> \in Seq(Nat)
        /\ Len(<<>>) = 0 /\ <<>> \in Seq(Nat)
    OBVIOUS
  <2>3. /\ arrivals \in Nat /\ produced + 1 \in Nat /\ produced + 2 \in Nat
        /\ produced - 1 + 1 = produced /\ produced + 0 = produced
    BY <2>1
  <2>4. written \in Seq(Nat) /\ keeps \in Seq(Nat)
    BY <2>1, <2>2, <2>3, Zenon
  <2>5. written = <<>> \/ written = <<Accepted + 1>>
    BY <2>1, <2>3, Zenon
  <2>6. keeps = <<>> \/ keeps = <<produced + arrivals>>
    BY <2>1, <2>3, Zenon
  <2>7. produced + arrivals - Len(keeps) = Accepted + Len(written)
    <3>1. ASSUME written = <<>>, keeps = <<>>, Accepted = produced, arrivals = 0
          PROVE  produced + arrivals - Len(keeps) = Accepted + Len(written)
      <4>1. Len(keeps) = 0 /\ Len(written) = 0
        BY <2>2, <2>3, <3>1, Zenon
      <4> QED
        BY <3>1, <4>1
    <3>2. ASSUME written = <<>>, keeps = <<produced>>, Accepted = produced - 1, arrivals = 0
          PROVE  produced + arrivals - Len(keeps) = Accepted + Len(written)
      <4>1. Len(keeps) = 1 /\ Len(written) = 0
        BY <2>2, <2>3, <3>2, Zenon
      <4> QED
        BY <3>2, <4>1
    <3>3. ASSUME written = <<produced>>, keeps = <<>>, Accepted = produced - 1, arrivals = 0
          PROVE  produced + arrivals - Len(keeps) = Accepted + Len(written)
      <4>1. Len(keeps) = 0 /\ Len(written) = 1
        BY <2>2, <2>3, <3>3, Zenon
      <4> QED
        BY <3>3, <4>1
    <3>4. ASSUME written = <<produced + 1>>, keeps = <<>>, Accepted = produced, arrivals = 1
          PROVE  produced + arrivals - Len(keeps) = Accepted + Len(written)
      <4>1. Len(keeps) = 0 /\ Len(written) = 1
        BY <2>2, <2>3, <3>4, Zenon
      <4> QED
        BY <3>4, <4>1
    <3>5. ASSUME written = <<produced + 1>>, keeps = <<produced + 2>>, Accepted = produced,
                 arrivals = 2
          PROVE  produced + arrivals - Len(keeps) = Accepted + Len(written)
      <4>1. Len(keeps) = 1 /\ Len(written) = 1
        BY <2>2, <2>3, <3>5, Zenon
      <4> QED
        BY <3>5, <4>1
    <3> QED
      BY <2>1, <3>1, <3>2, <3>3, <3>4, <3>5, Zenon
  <2>8. /\ written = <<>> \/ written = <<Accepted + 1>>
        /\ fifo' = (IF Pull THEN Tail(fifo) ELSE fifo) \o written
        /\ held' = <<>> \/ held' = <<produced'>>
        /\ held' \in Seq(Nat) /\ produced' \in Nat
        /\ produced' - Len(held') = Accepted + Len(written)
    BY <1>1, <2>3, <2>4, <2>5, <2>6, <2>7
  <2> QED
    BY <1>2, <2>4, <2>8, Zenon

LEMMA RowAdd ==
  ASSUME NEW q \in Seq(Nat), NEW base \in Int, Row(q, base), NEW n \in Nat, n = base + Len(q) + 1
  PROVE  LET r == q \o <<n>> IN
         r \in Seq(Nat) /\ r = Append(q, n) /\ Len(r) = Len(q) + 1 /\ Row(r, base)
<1> DEFINE r == q \o <<n>>
<1>1. r \in Seq(Nat) /\ r = Append(q, n) /\ Len(r) = Len(q) + 1
  OBVIOUS
<1>2. \A i \in 1 .. Len(q) : r[i] = q[i]
  OBVIOUS
<1>3. r[Len(q) + 1] = n
  OBVIOUS
<1> HIDE DEF r
<1>4. Len(q) \in Nat
  OBVIOUS
<1>5. \A i \in 1 .. Len(r) : i \in 1 .. Len(q) \/ i = Len(q) + 1
  BY <1>1, <1>4
<1>6. \A i \in 1 .. Len(r) : r[i] = base + i
  BY <1>2, <1>3, <1>4, <1>5 DEF Row
<1> QED
  BY <1>1, <1>6 DEF Row, r

LEMMA RowSkip ==
  ASSUME NEW q \in Seq(Nat), NEW base \in Int, Row(q, base), NEW n \in Nat, n <= Len(q)
  PROVE  LET r == SubSeq(q, n + 1, Len(q)) IN
         r \in Seq(Nat) /\ Len(r) = Len(q) - n /\ Row(r, base + n)
<1> DEFINE r == SubSeq(q, n + 1, Len(q))
<1>1. r \in Seq(Nat) /\ Len(r) = Len(q) - n
  OBVIOUS
<1>2. \A i \in 1 .. Len(r) : r[i] = q[n + i]
  OBVIOUS
<1> HIDE DEF r
<1>3. \A i \in 1 .. Len(r) : n + i \in 1 .. Len(q)
  BY <1>1
<1>4. \A i \in 1 .. Len(r) : r[i] = (base + n) + i
  BY <1>1, <1>2, <1>3 DEF Row
<1> QED
  BY <1>1, <1>4 DEF Row, r

LEMMA RowTail ==
  ASSUME NEW q \in Seq(Nat), NEW base \in Int, Row(q, base), q # <<>>
  PROVE  /\ Tail(q) \in Seq(Nat) /\ Len(Tail(q)) = Len(q) - 1 /\ Row(Tail(q), base + 1)
         /\ Head(q) = base + 1 /\ Head(q) \in Nat /\ Len(q) > 0
<1>1. Tail(q) \in Seq(Nat) /\ Len(Tail(q)) = Len(q) - 1 /\ Len(q) \in Nat /\ Len(q) > 0
  OBVIOUS
<1>2. \A i \in 1 .. Len(Tail(q)) : Tail(q)[i] = q[i + 1] /\ i + 1 \in 1 .. Len(q)
  OBVIOUS
<1>3. Head(q) = q[1] /\ Head(q) \in Nat
  OBVIOUS
<1>4. \A i \in 1 .. Len(Tail(q)) : Tail(q)[i] = (base + 1) + i
  BY <1>1, <1>2 DEF Row
<1> QED
  BY <1>1, <1>3, <1>4 DEF Row

LEMMA QueueRow ==
  ASSUME RingInv, InRow, produced \in Nat, NEW bus \in 0 .. 2, NEW direct,
         Captures(bus, direct), Stages, ~dropped'
  PROVE  /\ InRow'
         /\ Left' = IF e.st = "b" /\ e'.st = "notify" /\ e.kind = "ring"
                      THEN Left + e.size ELSE Left
<1> DEFINE rest == IF Pull THEN Tail(fifo) ELSE fifo
<1> HIDE DEF rest
<1>1. PICK written \in Seq(Nat) :
        /\ written = <<>> \/ written = <<Accepted + 1>>
        /\ fifo' = rest \o written
        /\ held' = <<>> \/ held' = <<produced'>>
        /\ held' \in Seq(Nat) /\ produced' \in Nat
        /\ produced' - Len(held') = Accepted + Len(written)
  BY CaptureRow, Zenon DEF RingInv, rest
<1>2. /\ stage \in Seq(Nat) /\ fifo \in Seq(Nat) /\ held \in Seq(Nat)
      /\ Len(stage) \in Nat /\ Len(fifo) \in Nat
      /\ Accepted \in Int /\ Staged \in Int /\ Left \in Int
      /\ Staged = Accepted - Len(fifo) /\ Left = Staged - Len(stage)
      /\ Staged' = Accepted' - Len(fifo') /\ Left' = Staged' - Len(stage')
  BY DEF RingInv, Contents, Accepted, Staged, Left
<1>3. /\ rest \in Seq(Nat) /\ Len(rest) \in Nat
      /\ Len(rest) = IF Pull THEN Len(fifo) - 1 ELSE Len(fifo)
      /\ Row(rest, Accepted - Len(rest))
  <2>1. Row(fifo, Staged) /\ Len(fifo) \in Nat
    BY <1>2 DEF InRow
  <2>2. CASE Pull
    <3>1. fifo # <<>> /\ rest = Tail(fifo)
      BY <2>2, Zenon DEF Pull, rest
    <3>2. rest \in Seq(Nat) /\ Len(rest) = Len(fifo) - 1 /\ Row(rest, Staged + 1) /\ Len(fifo) > 0
      BY <1>2, <2>1, <3>1, RowTail, Zenon
    <3>3. Staged + 1 = Accepted - Len(rest)
      BY <1>2, <3>2
    <3> QED
      BY <2>1, <2>2, <3>2, <3>3
  <2>3. CASE ~Pull
    <3>1. rest = fifo /\ Staged = Accepted - Len(rest)
      BY <1>2, <2>3 DEF rest
    <3> QED
      BY <1>2, <2>1, <2>3, <3>1
  <2> QED
    BY <2>2, <2>3
<1>4. /\ Accepted' = Accepted + Len(written) /\ Staged' = Accepted - Len(rest)
      /\ fifo' \in Seq(Nat) /\ Row(fifo', Staged')
  <2>1. Accepted' = Accepted + Len(written)
    BY <1>1 DEF Accepted
  <2>2. CASE written = <<>>
    <3>1. fifo' = rest /\ Len(written) = 0
      BY <1>1, <1>3, <2>2
    <3>2. Staged' = Accepted - Len(rest)
      <4>1. Accepted' = Accepted
        BY <1>2, <2>1, <3>1
      <4> QED
        BY <1>2, <3>1, <4>1, Zenon
    <3> QED
      BY <1>3, <2>1, <3>1, <3>2, Zenon
  <2>3. CASE written = <<Accepted + 1>>
    <3>1. Accepted + 1 \in Nat /\ Len(written) = 1
      BY <1>1, <1>2, <2>3
    <3>2. Accepted + 1 = (Accepted - Len(rest)) + Len(rest) + 1 /\ Accepted - Len(rest) \in Int
      BY <1>2, <1>3
    <3>3. fifo' \in Seq(Nat) /\ Len(fifo') = Len(rest) + 1 /\ Row(fifo', Accepted - Len(rest))
      BY <1>1, <1>3, <2>3, <3>1, <3>2, RowAdd, Zenon
    <3>4. Staged' = Accepted - Len(rest)
      BY <1>2, <1>3, <2>1, <3>1, <3>3
    <3> QED
      BY <2>1, <3>3, <3>4, Zenon
  <2> QED
    BY <1>1, <2>2, <2>3
<1>5. CASE e.st = "b" /\ e'.st = "notify" /\ e.kind = "ring"
  <2>1. e.size \in Nat /\ e.size <= Len(stage) /\ ~Pull
    BY <1>5 DEF RingInv, Shape, Sized, InFlight, Pull
  <2>2. stage' = SubSeq(stage, e.size + 1, Len(stage))
    BY <1>5, Zenon DEF Stages
  <2>3. Len(stage') = Len(stage) - e.size /\ Row(stage', Left + e.size)
    BY <1>2, <2>1, <2>2, RowSkip, Zenon DEF InRow
  <2>4. Left' = Left + e.size
    <3>1. Len(rest) = Len(fifo) /\ Staged' = Accepted - Len(rest) /\ Staged = Accepted - Len(fifo)
      BY <1>2, <1>3, <1>4, <2>1, Zenon
    <3>2. Left = Staged - Len(stage) /\ Left' = Staged' - Len(stage')
      BY <1>2, Zenon
    <3>3. Accepted \in Int /\ Len(fifo) \in Nat /\ Len(stage) \in Nat /\ Staged \in Int
      BY <1>2, Zenon
    <3> QED
      BY <2>1, <2>3, <3>1, <3>2, <3>3
  <2> QED
    BY <1>1, <1>4, <1>5, <2>3, <2>4, Zenon DEF InRow
<1>6. CASE ~(e.st = "b" /\ e'.st = "notify" /\ e.kind = "ring") /\ Pull
  <2>1. stage' = Append(stage, Head(fifo)) /\ fifo # <<>>
    BY <1>6, Zenon DEF Stages, Pull
  <2>2. Head(fifo) = Staged + 1 /\ Head(fifo) \in Nat
    BY <1>2, <2>1, RowTail, Zenon DEF InRow
  <2>3. Head(fifo) = Left + Len(stage) + 1
    BY <1>2, <2>2
  <2>4. Len(stage') = Len(stage) + 1 /\ Row(stage', Left)
    BY <1>2, <2>1, <2>2, <2>3, RowAdd, ZenonT(60) DEF InRow
  <2>5. Left' = Left
    <3>1. Len(rest) = Len(fifo) - 1
      BY <1>3, <1>6
    <3>2. Staged' = Staged + 1
      <4>1. /\ Staged' = Accepted - Len(rest) /\ Staged = Accepted - Len(fifo)
            /\ Accepted \in Int /\ Len(fifo) \in Nat
        BY <1>2, <1>4, Zenon
      <4> QED
        BY <3>1, <4>1
    <3> QED
      BY <1>2, <2>4, <3>2
  <2> QED
    BY <1>1, <1>4, <1>6, <2>4, <2>5, Zenon DEF InRow
<1>7. CASE ~(e.st = "b" /\ e'.st = "notify" /\ e.kind = "ring") /\ ~Pull
  <2>1. stage' = stage
    BY <1>7, Zenon DEF Stages
  <2>2. Left' = Left
    BY <1>2, <1>3, <1>4, <1>7, <2>1
  <2> QED
    BY <1>1, <1>4, <1>7, <2>1, <2>2, Zenon DEF InRow
<1> QED
  BY <1>5, <1>6, <1>7

\* The slots of the burst in flight that have already been written.
Landed ==
  /\ ring \in [Slots -> Nat \cup {Gap}]
  /\ e.st = "b" => e.left = 0
  /\ e.st \in {"w", "b"} /\ e.kind = "ring" =>
       \A j \in 0 .. (e.size - e.left - 1) : ring[e.addr + j] = stage[j + 1]
  /\ e.st = "b" /\ e.kind = "gap" => ring[e.addr] = Gap

\* The slot behind x.
After(x) == (x + 1) % R

\* before[x] is the number of the last record ahead of slot x.
Chained(before) ==
  /\ before \in [Slots -> Nat]
  /\ before[rd] = prev /\ before[e.producer] = Left
  /\ \A x \in Slots : From(rd, x) < From(rd, e.producer) =>
       \/ ring[x] = Gap /\ before[After(x)] = before[x]
       \/ ring[x] = before[x] + 1 /\ before[After(x)] = before[x] + 1

\* The room of a burst begins behind what CPU1 has not read.
LEMMA UnreadFits ==
  ASSUME RingInv
  PROVE  /\ rd \in Slots /\ e.producer \in Slots
         /\ From(rd, e.producer) \in 0 .. (R - 1)
         /\ InFlight /\ e.kind # "notify" =>
              /\ e.addr = e.producer /\ e.size \in Nat /\ e.size > 0 /\ e.addr + e.size <= R
              /\ From(rd, e.producer) + e.size <= R - 1
<1>1. /\ rd \in Slots /\ e.producer \in Slots /\ consumerQ \in Slots /\ slot \in Slots
      /\ \A x, y \in Slots : From(x, y) \in 0 .. (R - 1)
  BY FromRange DEF RingInv, Pointers
<1>2. From(rd, e.producer) <= From(consumerQ, e.producer)
  <2>1. /\ From(consumerQ, rd) <= From(consumerQ, slot)
        /\ From(consumerQ, slot) <= From(consumerQ, e.producer)
    BY DEF RingInv, Pointers
  <2>2. From(consumerQ, rd) <= From(consumerQ, e.producer)
    BY <1>1, <2>1
  <2> QED
    BY <1>1, <2>2, FromTurn
<1>3. ASSUME InFlight, e.kind # "notify"
      PROVE  /\ Fits(e.addr, e.size) /\ e.size \in Nat /\ e.size > 0 /\ e.size <= Room + 1
  <2>1. Room \in Int
    BY <1>1, Sizes DEF Room
  <2> QED
    BY <1>3, <2>1 DEF RingInv, Sized, Shape
<1>4. Room = R - 2 - From(consumerQ, e.producer)
  BY DEF Room
<1> QED
  BY <1>1, <1>2, <1>3, <1>4, Sizes DEF Fits

\* A beat lands in the slot behind those of the beats before it.
LEMMA LandsThere ==
  ASSUME Shape, Lands, Landed
  PROVE  \/ ring' = ring
         \/ /\ e.st = "w" /\ e'.left # e.left /\ e.kind # "notify"
            /\ ring' = [ring EXCEPT ![e.addr + (e.size - e.left)] =
                          IF e.kind = "gap" THEN Gap ELSE stage[(e.size - e.left) + 1]]
BY Zenon DEF Lands, BeatLands

LEMMA LandedNext ==
  ASSUME RingInv, Landed, NEW flush, NEW axi, Engine(flush, axi), Stages, Lands
  PROVE  Landed'
<1>0. /\ Shape /\ Contents /\ Sized /\ Fields \subseteq DOMAIN e
      /\ e.size \in Nat /\ e.left \in Nat
      /\ e.kind \in {"ring", "gap", "notify"}
  BY DEF RingInv, Shape
<1>1. /\ e.st \notin {"drain", "b"} => stage' = stage
      /\ e.st = "b" => stage' = stage \/ e'.st = "notify"
  BY <1>0, StageNext
<1>2. e.st = "w" => e.left \in 1 .. e.size
  BY <1>0 DEF Sized, InFlight
<1>3. CASE e.st = "w" /\ Counts
  <2>1. /\ e'.left = e.left - 1 /\ e'.kind = e.kind /\ e'.size = e.size /\ e'.addr = e.addr
        /\ e'.st = (IF e.left = 1 THEN "b" ELSE "w")
    BY <1>3, SameFields, Zenon DEF Counts
  <2>2. stage' = stage /\ e.left \in 1 .. e.size
    BY <1>1, <1>2, <1>3
  <2>3. CASE e.kind = "notify"
    <3>1. ring' = ring
      BY <2>3, <1>0, LandsThere
    <3> QED
      BY <1>3, <2>1, <2>2, <2>3, <3>1 DEF Landed
  <2>4. CASE e.kind # "notify"
    <3> DEFINE beat == e.size - e.left
               v == IF e.kind = "gap" THEN Gap ELSE stage[beat + 1]
    <3>1. ring' = [ring EXCEPT ![e.addr + beat] = v]
      <4>1. e'.left # e.left
        BY <1>0, <2>1
      <4> QED
        BY <1>3, <2>4, <4>1, Zenon DEF Lands, BeatLands
    <3>2. e.addr \in Nat /\ e.addr + e.size <= R /\ beat \in 0 .. (e.size - 1)
      BY <1>0, <1>3, <2>2, <2>4, UnreadFits DEF InFlight, Slots
    <3>3. e.addr + beat \in Slots
      BY <3>2, <1>0, Sizes DEF Slots
    <3>4. v \in Nat \cup {Gap}
      <4>1. CASE e.kind = "gap"
        BY <4>1
      <4>2. CASE e.kind # "gap"
        <5>1. e.size <= Len(stage) /\ stage \in Seq(Nat)
          BY <1>0, <1>3, <2>4, <4>2 DEF Sized, InFlight, Contents
        <5>2. beat + 1 \in 1 .. Len(stage)
          BY <3>2, <5>1, <1>0
        <5> QED
          BY <5>1, <5>2, <4>2
      <4> QED
        BY <4>1, <4>2
    <3> HIDE DEF v
    <3>5. /\ ring' \in [Slots -> Nat \cup {Gap}] /\ ring'[e.addr + beat] = v
          /\ \A x \in Slots : x # e.addr + beat => ring'[x] = ring[x]
      BY <3>1, <3>3, <3>4 DEF Landed
    <3>6. ASSUME e.kind = "ring", NEW j \in 0 .. (e'.size - e'.left - 1)
          PROVE  ring'[e.addr + j] = stage[j + 1]
      <4>1. j \in 0 .. beat
        BY <1>0, <2>1, <2>2, <3>6
      <4>2. CASE j = beat
        <5>1. v = stage[beat + 1]
          BY <3>6 DEF v
        <5> QED
          BY <3>5, <4>2, <5>1
      <4>3. CASE j # beat
        <5>1. /\ j \in 0 .. (e.size - e.left - 1) /\ e.addr + j \in Slots
              /\ e.addr + j # e.addr + beat
          BY <4>1, <4>3, <3>2, <1>0, Sizes DEF Slots
        <5>2. ring[e.addr + j] = stage[j + 1]
          BY <5>1, <1>3, <3>6, Zenon DEF Landed
        <5> QED
          BY <3>5, <5>1, <5>2, Zenon
      <4> QED
        BY <4>2, <4>3
    <3>7. e.kind = "gap" => ring'[e.addr] = Gap
      <4>1. SUFFICES ASSUME e.kind = "gap" PROVE ring'[e.addr] = Gap
        OBVIOUS
      <4>2. e.size = 1
        BY <1>0, <1>3, <4>1 DEF Sized, InFlight
      <4>3. e.addr + beat = e.addr
        BY <2>2, <3>2, <4>2
      <4> QED
        BY <3>5, <4>1, <4>3 DEF v
    <3>8. e'.st = "b" => e'.left = 0
      BY <2>1, <1>0
    <3> QED
      BY <2>1, <2>2, <2>4, <3>5, <3>6, <3>7, <3>8, Zenon DEF Landed
  <2> QED
    BY <2>3, <2>4
<1>4. CASE e.st = "aw" /\ Loads
  <2>1. ring' = ring
    BY <1>4, <1>0, LandsThere
  <2>2. e'.st = "w" /\ e'.left = e.size /\ e'.size = e.size
    BY <1>4, SameFields, Zenon DEF Loads
  <2>3. \A j \in 0 .. (e'.size - e'.left - 1) : FALSE
    BY <2>2, <1>0
  <2> QED
    BY <2>1, <2>2, <2>3 DEF Landed
<1>5. CASE Stays /\ e.st \in {"drain", "aw", "w", "b"}
  <2>1. /\ e'.st = e.st /\ e'.left = e.left /\ e'.kind = e.kind /\ e'.size = e.size
        /\ e'.addr = e.addr
    BY <1>5, SameFields, Zenon DEF Stays
  <2>2. ring' = ring
    BY <2>1, <1>0, LandsThere
  <2>3. e.st \in {"w", "b"} => stage' = stage
    BY <1>1, <2>1
  <2> QED
    BY <2>1, <2>2, <2>3 DEF Landed
<1>6. CASE e.st # "w" /\ e'.st \notin {"w", "b"}
  <2>1. ring' = ring
    BY <1>6, <1>0, LandsThere
  <2> QED
    BY <1>6, <2>1 DEF Landed
<1>7. \/ e.st = "w" /\ Counts
      \/ e.st = "aw" /\ Loads
      \/ Stays /\ e.st \in {"drain", "aw", "w", "b"}
      \/ e.st # "w" /\ e'.st \notin {"w", "b"}
  BY <1>0, EngineMoves DEF Turns, Caps, Prepares, Notifies, Marks, Moves
<1> QED
  BY <1>3, <1>4, <1>5, <1>6, <1>7

LEMMA FromBase ==
  ASSUME NEW a \in Slots, NEW b \in Slots, NEW x \in Slots
  PROVE  From(b, x) = IF From(a, b) <= From(a, x) THEN From(a, x) - From(a, b)
                      ELSE From(a, x) - From(a, b) + R
BY Sizes, SMT DEF From, Slots

LEMMA AfterThat ==
  ASSUME NEW a \in Slots, NEW x \in Slots, From(a, x) < R - 1
  PROVE  After(x) \in Slots /\ From(a, After(x)) = From(a, x) + 1
<1>1. x + 1 <= R /\ From(a, x) + 1 <= R - 1
  BY FromRange, Sizes DEF Slots
<1> QED
  BY <1>1, FromOn DEF After

LEMMA FromZero == ASSUME NEW a \in Slots, NEW x \in Slots
                  PROVE From(a, a) = 0 /\ (From(a, x) = 0 => x = a)
BY Sizes, SMT DEF From, Slots

LEMMA FromSame ==
  ASSUME NEW a \in Slots, NEW x \in Slots, NEW y \in Slots, From(a, x) = From(a, y)
  PROVE x = y
BY Sizes, SMT DEF From, Slots

\* The engine appends what its burst has written to what CPU1 has not read.
LEMMA ChainGrows ==
  ASSUME RingInv, Landed, Left \in Int, NEW before, Chained(before),
         e.st = "b", e.kind \in {"ring", "gap"}, Moves, Lands, UNCHANGED <<rd, prev>>,
         InRow,
         Left' = IF e.kind = "ring" THEN Left + e.size ELSE Left
  PROVE  \E next : Chained(next)'
<1> DEFINE P == e.producer
           n == e.size
           now(d) == IF e.kind = "ring" THEN Left + d ELSE Left
           next == [x \in Slots |-> IF From(P, x) \in 1 .. n THEN now(From(P, x)) ELSE before[x]]
<1>1. /\ rd \in Slots /\ P \in Slots /\ From(rd, P) \in 0 .. (R - 1)
      /\ e.addr = P /\ n \in Nat /\ n > 0 /\ P + n <= R /\ From(rd, P) + n <= R - 1
  BY UnreadFits DEF InFlight
<1>2. ring' = ring
  <2>1. Shape
    BY DEF RingInv
  <2> QED
    BY <2>1, LandsThere
<1>3. e'.producer \in Slots /\ From(rd, e'.producer) = From(rd, P) + n
  <2>1. e'.producer = (P + n) % R
    BY Zenon DEF Moves
  <2> QED
    BY <1>1, <2>1, FromOn
<1>4. Left \in Nat /\ before \in [Slots -> Nat] /\ before[P] = Left
  BY <1>1 DEF Chained
<1>5. \A d \in 1 .. n : now(d) \in Nat
  BY <1>1, <1>4
<1>6. next \in [Slots -> Nat]
  BY <1>4, <1>5
<1>7. \A x \in Slots : From(rd, x) <= From(rd, P) => next[x] = before[x]
  <2> SUFFICES ASSUME NEW x \in Slots, From(rd, x) <= From(rd, P) PROVE From(P, x) \notin 1 .. n
    BY Zenon
  <2>1. From(rd, x) \in 0 .. (R - 1)
    BY <1>1, FromRange
  <2>2. From(P, x) = 0 \/ From(P, x) = From(rd, x) - From(rd, P) + R
    <3>1. From(P, x) = IF From(rd, P) <= From(rd, x) THEN From(rd, x) - From(rd, P)
                       ELSE From(rd, x) - From(rd, P) + R
      BY <1>1, FromBase
    <3> QED
      BY <1>1, <2>1, <3>1
  <2> QED
    BY <1>1, <2>1, <2>2, Sizes
<1>8. \A x \in Slots : From(rd, x) > From(rd, P) /\ From(rd, x) <= From(rd, P) + n =>
        next[x] = now(From(rd, x) - From(rd, P))
  <2> SUFFICES ASSUME NEW x \in Slots, From(rd, x) > From(rd, P), From(rd, x) <= From(rd, P) + n
               PROVE next[x] = now(From(rd, x) - From(rd, P))
    BY Zenon
  <2>1. From(rd, x) \in 0 .. (R - 1)
    BY <1>1, FromRange
  <2>2. From(P, x) = IF From(rd, P) <= From(rd, x) THEN From(rd, x) - From(rd, P)
                     ELSE From(rd, x) - From(rd, P) + R
    BY <1>1, FromBase
  <2>3. From(P, x) = From(rd, x) - From(rd, P) /\ From(P, x) \in 1 .. n
    BY <1>1, <2>1, <2>2
  <2> QED
    BY <2>3, Zenon
<1> HIDE DEF next
<1>9. next[rd] = prev /\ next[e'.producer] = Left'
  <2>1. From(rd, rd) = 0 /\ before[rd] = prev
    BY <1>1, FromZero DEF Chained
  <2>2. next[rd] = prev
    BY <1>1, <1>7, <2>1
  <2>3. next[e'.producer] = now(n)
    BY <1>1, <1>3, <1>8
  <2> QED
    BY <2>2, <2>3, Zenon
<1>10. ASSUME NEW x \in Slots, From(rd, x) < From(rd, e'.producer)
       PROVE  \/ ring[x] = Gap /\ next[After(x)] = next[x]
              \/ ring[x] = next[x] + 1 /\ next[After(x)] = next[x] + 1
  <2>1. From(rd, x) \in 0 .. (R - 1) /\ From(rd, x) < R - 1
    <3>1. From(rd, x) \in 0 .. (R - 1)
      BY <1>1, FromRange
    <3>2. From(rd, x) < From(rd, P) + n
      BY <1>3, <1>10, Zenon
    <3> QED
      BY <1>1, <3>1, <3>2, Sizes
  <2>2. After(x) \in Slots /\ From(rd, After(x)) = From(rd, x) + 1
    BY <1>1, <2>1, AfterThat
  <2>3. CASE From(rd, x) < From(rd, P)
    <3>1. next[x] = before[x] /\ next[After(x)] = before[After(x)]
      BY <1>1, <1>7, <2>1, <2>2, <2>3
    <3> QED
      BY <2>3, <3>1, Zenon DEF Chained
  <2>4. CASE From(rd, x) >= From(rd, P)
    <3> DEFINE d == From(rd, x) - From(rd, P)
    <3>1. d \in 0 .. (n - 1)
      BY <1>1, <1>3, <1>10, <2>1, <2>4
    <3>2. next[x] = now(d)
      <4>1. CASE d = 0
        <5>1. From(rd, x) = From(rd, P)
          BY <1>1, <2>1, <4>1
        <5>2. x = P
          BY <1>1, <5>1, FromSame
        <5>3. next[x] = Left
          BY <1>1, <1>4, <1>7, <5>2
        <5> QED
          BY <1>4, <4>1, <5>3
      <4>2. CASE d # 0
        <5>1. From(rd, x) > From(rd, P) /\ From(rd, x) <= From(rd, P) + n
          BY <1>1, <2>1, <3>1, <4>2
        <5> QED
          BY <1>8, <5>1, Zenon
      <4> QED
        BY <4>1, <4>2
    <3>3. next[After(x)] = now(d + 1)
      <4>1. /\ From(rd, After(x)) > From(rd, P) /\ From(rd, After(x)) <= From(rd, P) + n
            /\ From(rd, After(x)) - From(rd, P) = d + 1
        BY <1>1, <2>1, <2>2, <3>1
      <4> QED
        BY <1>8, <2>2, <4>1, Zenon
    <3>4. x = P + d
      <4>1. P + d \in Slots /\ d \in Nat /\ P + d <= R /\ From(rd, P) + d <= R - 1
        BY <1>1, <3>1, Sizes DEF Slots
      <4>2. (P + d) % R = P + d
        BY <4>1, Sizes, SMT DEF Slots
      <4>3. From(rd, P + d) = From(rd, P) + d
        BY <1>1, <4>1, <4>2, FromOn
      <4>4. From(rd, P + d) = From(rd, x)
        BY <1>1, <2>1, <4>3
      <4> QED
        BY <1>1, <4>1, <4>4, FromSame
    <3>5. CASE e.kind = "ring"
      <4>1. d \in 0 .. (e.size - e.left - 1)
        BY <3>1, <1>1 DEF Landed
      <4>2. ring[x] = stage[d + 1]
        <5> HIDE DEF d
        <5> QED
          BY <1>1, <3>4, <3>5, <4>1, Zenon DEF Landed
      <4>3. d + 1 \in 1 .. Len(stage)
        BY <1>1, <3>1, <3>5, SMTT(60) DEF RingInv, Sized, InFlight, Contents
      <4>4. stage[d + 1] = Left + (d + 1)
        <5> HIDE DEF d
        <5> QED
          BY <4>3, Zenon DEF InRow, Row
      <4>5. next[x] = Left + d /\ next[After(x)] = Left + (d + 1)
        BY <3>2, <3>3, <3>5
      <4>6. d \in Int
        BY <3>1
      <4> HIDE DEF d
      <4> QED
        BY <1>4, <4>2, <4>4, <4>5, <4>6
    <3>6. CASE e.kind # "ring"
      <4>1. e.kind = "gap" /\ n = 1
        BY <3>6 DEF RingInv, Sized, InFlight
      <4>2. x = P
        BY <1>1, <3>1, <3>4, <4>1 DEF Slots
      <4>3. ring[x] = Gap
        BY <1>1, <4>1, <4>2 DEF Landed
      <4> QED
        BY <3>2, <3>3, <3>6, <4>3, Zenon
    <3> QED
      BY <3>5, <3>6
  <2> QED
    BY <1>1, <2>1, <2>3, <2>4
<1>11. ASSUME NEW last, last = next PROVE Chained(last)'
  <2>1. last \in [Slots -> Nat] /\ last[rd] = prev /\ last[e'.producer] = Left'
    BY <1>6, <1>9, <1>11, Zenon
  <2>2. \A x \in Slots : From(rd, x) < From(rd, e'.producer) =>
          \/ ring[x] = Gap /\ last[After(x)] = last[x]
          \/ ring[x] = last[x] + 1 /\ last[After(x)] = last[x] + 1
    BY <1>10, <1>11, Zenon
  <2> QED
    BY <1>2, <2>1, <2>2, Zenon DEF Chained
<1> QED
  BY <1>11, Zenon

\* A beat lands behind what CPU1 has not read.
LEMMA LandsAside ==
  ASSUME RingInv, Landed, Lands, NEW x \in Slots, From(rd, x) < From(rd, e.producer)
  PROVE  ring'[x] = ring[x]
<1>1. \/ ring' = ring
      \/ /\ e.st = "w" /\ e.kind # "notify"
         /\ \E v : ring' = [ring EXCEPT ![e.addr + (e.size - e.left)] = v]
  <2>1. Shape
    BY DEF RingInv
  <2> QED
    BY <2>1, LandsThere, Zenon
<1>2. CASE ring' = ring
  BY <1>2
<1>3. CASE e.st = "w" /\ e.kind # "notify"
  <2> DEFINE beat == e.size - e.left
  <2>1. /\ rd \in Slots /\ e.producer \in Slots /\ From(rd, e.producer) \in 0 .. (R - 1)
        /\ e.addr = e.producer /\ e.size \in Nat /\ e.addr + e.size <= R
        /\ From(rd, e.producer) + e.size <= R - 1
    BY <1>3, UnreadFits DEF InFlight
  <2>2. beat \in 0 .. (e.size - 1)
    BY <1>3, <2>1 DEF RingInv, Sized, InFlight
  <2>3. beat \in Nat /\ e.producer + beat <= R /\ From(rd, e.producer) + beat <= R - 1
        /\ e.producer + beat \in Slots
    BY <2>1, <2>2, Sizes DEF Slots
  <2>4. (e.producer + beat) % R = e.producer + beat
    BY <2>3, Sizes, SMT DEF Slots
  <2>5. From(rd, e.producer + beat) = From(rd, e.producer) + beat
    BY <2>1, <2>3, <2>4, FromOn
  <2>6. From(rd, e.producer + beat) >= From(rd, e.producer)
    BY <2>1, <2>2, <2>5
  <2>7. x # e.producer + beat
    <3>1. From(rd, x) \in 0 .. (R - 1)
      BY <2>1, FromRange
    <3> QED
      BY <2>1, <2>2, <2>5, <3>1
  <2>8. PICK v : ring' = ring \/ ring' = [ring EXCEPT ![e.addr + beat] = v]
    BY <1>1, Zenon
  <2> QED
    BY <2>1, <2>7, <2>8 DEF Landed
<1> QED
  BY <1>1, <1>2, <1>3

LEMMA ChainStays ==
  ASSUME RingInv, Landed, NEW before, Chained(before), Lands, UNCHANGED <<rd, prev>>,
         e'.producer = e.producer, Left' = Left
  PROVE  Chained(before)'
<1>1. \A x \in Slots : From(rd, x) < From(rd, e.producer) => ring'[x] = ring[x]
  BY LandsAside
<1> QED
  BY <1>1, Zenon DEF Chained, After, From

\* CPU1 takes entries only while some are unread.
LEMMA DeliverLeft ==
  ASSUME RingInv, Deliver
  PROVE  /\ rd \in Slots /\ e.producer \in Slots /\ rd' = After(rd)
         /\ From(rd, e.producer) > 0 /\ From(rd, e.producer) \in 0 .. (R - 1)
<1>1. /\ rd \in Slots /\ limit \in Slots /\ rd # limit /\ e.producer \in Slots
      /\ consumerQ \in Slots /\ slot \in Slots
      /\ From(consumerQ, rd) <= From(consumerQ, limit)
      /\ From(consumerQ, limit) <= From(consumerQ, slot)
      /\ From(consumerQ, slot) <= From(consumerQ, e.producer)
      /\ rd' = After(rd)
  BY DEF Deliver, Unread, RingInv, Pointers, Following, After
<1>2. \A x, y \in Slots : From(x, y) \in 0 .. (R - 1)
  BY FromRange
<1>3. From(rd, e.producer) > 0 /\ From(rd, e.producer) \in 0 .. (R - 1)
  <2>1. From(consumerQ, rd) # From(consumerQ, limit)
    BY <1>1, FromSame
  <2>2. From(consumerQ, rd) < From(consumerQ, e.producer)
    BY <1>1, <1>2, <2>1
  <2>3. From(rd, e.producer) = From(consumerQ, e.producer) - From(consumerQ, rd)
    BY <1>1, <1>2, <2>2, FromTurn
  <2> QED
    BY <1>1, <1>2, <2>2, <2>3
<1> QED
  BY <1>1, <1>3

\* CPU1 takes the oldest entry; the record it holds follows the last one seen.
LEMMA ChainTaken ==
  ASSUME RingInv, NEW before, Chained(before), Deliver
  PROVE  /\ rd \in Slots
         /\ \/ ring[rd] = Gap /\ (prev' = prev => Chained(before)')
            \/ /\ ring[rd] = prev + 1 /\ prev \in Nat
               /\ prev' = prev + 1 => Chained(before)'
<1>1. /\ rd \in Slots /\ e.producer \in Slots /\ rd' = After(rd)
      /\ From(rd, e.producer) > 0 /\ From(rd, e.producer) \in 0 .. (R - 1)
  BY DeliverLeft
<1>2. \A x, y \in Slots : From(x, y) \in 0 .. (R - 1)
  BY FromRange
<1>3. From(rd, e.producer) > 0 /\ From(rd, e.producer) \in 0 .. (R - 1)
  BY <1>1
<1>4. From(rd, rd) = 0
  BY <1>1, FromZero
<1>5. rd' \in Slots /\ From(rd, rd') = 1
  BY <1>1, <1>4, AfterThat, Sizes
<1>6. ASSUME NEW x \in Slots, From(rd', x) < From(rd', e.producer)
      PROVE  From(rd, x) < From(rd, e.producer)
  <2>1. /\ From(rd', x) = IF From(rd, rd') <= From(rd, x) THEN From(rd, x) - From(rd, rd')
                          ELSE From(rd, x) - From(rd, rd') + R
        /\ From(rd', e.producer) = IF From(rd, rd') <= From(rd, e.producer)
                                     THEN From(rd, e.producer) - From(rd, rd')
                                     ELSE From(rd, e.producer) - From(rd, rd') + R
    BY <1>1, <1>5, FromBase
  <2>2. From(rd, x) \in 0 .. (R - 1)
    BY <1>1, <1>2
  <2> QED
    BY <1>3, <1>5, <1>6, <2>1, <2>2, Sizes
<1>7. UNCHANGED <<ring, e, Left>>
  BY DEF Deliver, engine, capture, Left, Staged, Accepted
<1>8. ASSUME prev' = before[rd'] PROVE Chained(before)'
  <2>1. before \in [Slots -> Nat] /\ before[e.producer] = Left
    BY Zenon DEF Chained
  <2>2. \A x \in Slots : From(rd', x) < From(rd', e.producer) =>
       \/ ring[x] = Gap /\ before[After(x)] = before[x]
       \/ ring[x] = before[x] + 1 /\ before[After(x)] = before[x] + 1
    BY <1>6, Zenon DEF Chained
  <2> QED
    BY <1>7, <1>8, <2>1, <2>2, Zenon DEF Chained, After, From
<1>9. \/ ring[rd] = Gap /\ before[rd'] = prev
      \/ ring[rd] = prev + 1 /\ before[rd'] = prev + 1
  <2>1. From(rd, rd) < From(rd, e.producer)
    BY <1>3, <1>4
  <2> QED
    BY <1>1, <2>1, Zenon DEF Chained
<1>10. prev \in Nat
  BY <1>1 DEF Chained
<1> QED
  BY <1>1, <1>8, <1>9, <1>10, Zenon

\* While nothing has been dropped, the path holds every record that CPU1 has
\* not seen yet.
Complete ==
  ~dropped => /\ InRow /\ Landed /\ (\E before : Chained(before))
              /\ ~hole /\ ~torn

WholeInv == RingInv /\ produced \in Nat /\ Complete

LEMMA WholeInit == FramesInit => WholeInv
<1> SUFFICES ASSUME FramesInit PROVE WholeInv
  OBVIOUS
<1>1. Init /\ RingInv /\ produced = 0 /\ produced \in Nat
  BY RingInit DEF FramesInit, Init
<1>2. e.st = "idle" /\ e.producer = 0
  BY <1>1 DEF Init
<1>3. Len(held) = 0 /\ Len(fifo) = 0 /\ Len(stage) = 0 /\ Left = 0 /\ held = <<>>
  <2>1. held = <<>> /\ fifo = <<>> /\ stage = <<>> /\ produced = 0
    BY <1>1, Zenon DEF Init
  <2>2. Len(held) = 0 /\ Len(fifo) = 0 /\ Len(stage) = 0
    BY <2>1
  <2>3. Left = produced - Len(held) - Len(fifo) - Len(stage)
    BY DEF Left, Staged, Accepted
  <2>4. Left = 0 - 0 - 0 - 0
    BY <2>1, <2>2, <2>3, Zenon
  <2> QED
    BY <2>1, <2>2, <2>4
<1>4. InRow
  BY <1>3 DEF InRow, Row
<1>5. Landed
  BY <1>1, <1>2 DEF Landed, Init, Slots
<1>6. ~hole /\ ~torn /\ prev = 0
  BY Zenon DEF FramesInit
<1>7. Chained([x \in Slots |-> 0])
  <2>1. rd = 0 /\ 0 \in Slots /\ From(0, 0) = 0
    BY <1>1, Sizes DEF Init, Slots, From
  <2>2. \A x \in Slots : From(0, x) \in 0 .. (R - 1)
    BY <2>1, FromRange
  <2> QED
    BY <1>2, <1>3, <1>6, <2>1, <2>2 DEF Chained
<1> QED
  BY <1>1, <1>4, <1>5, <1>6, <1>7, Zenon DEF WholeInv, Complete

\* The producer moves with the acknowledgement of a burst of records or of a
\* marker, and with nothing else.
LEMMA EngineEither ==
  ASSUME Fields \subseteq DOMAIN e, NEW flush, NEW axi, Engine(flush, axi)
  PROVE  \/ e.st = "b" /\ e.kind \in {"ring", "gap"} /\ Moves
         \/ e'.producer = e.producer /\ ~(e.st = "b" /\ e'.st = "notify")
<1>1. \/ Stays /\ e.st \in {"drain", "aw", "w", "b"}
      \/ e.st = "idle" /\ Turns("drain")
      \/ e.st = "drain" /\ Turns("gap")
      \/ e.st = "drain" /\ Turns("cap")
      \/ e.st = "cap" /\ Caps
      \/ e.st = "prep" /\ Turns("drain")
      \/ e.st = "prep" /\ Prepares
      \/ e.st = "notify" /\ Notifies
      \/ e.st = "gap" /\ Marks
      \/ e.st = "aw" /\ Loads
      \/ e.st = "w" /\ Counts
      \/ e.st = "b" /\ Turns("drain")
      \/ e.st = "b" /\ e.kind \in {"ring", "gap"} /\ Moves
  BY EngineMoves, Zenon
<1>2. (Stays \/ Turns("drain") \/ Turns("gap") \/ Turns("cap") \/ Caps \/ Prepares \/ Notifies
         \/ Marks \/ Loads \/ Counts) => e'.producer = e.producer
  BY SameFields, Zenon DEF Stays, Turns, Caps, Prepares, Notifies, Marks, Loads, Counts
<1>3. (Stays => e'.st = e.st) /\ (Turns("drain") => e'.st = "drain")
  BY SameFields, Zenon DEF Stays, Turns
<1> QED
  BY <1>1, <1>2, <1>3

LEMMA CompleteClock ==
  ASSUME WholeInv, Clock, UNCHANGED renderer
  PROVE  produced' \in Nat /\ Complete'
<1>1. PICK flush \in Flushes, axi \in Answers : Engine(flush, axi)
  BY DEF Clock
<1>2. PICK bus \in 0..2, direct \in Offers : Captures(bus, direct)
  BY DEF Clock
<1>3. RegisterCaps /\ Stages /\ Lands /\ UNCHANGED cpu
  BY Zenon DEF Clock
<1>4. produced' \in Nat
  BY <1>2, CaptureTypes, Zenon DEF WholeInv, RingInv
<1>5. ASSUME ~dropped'
      PROVE  InRow' /\ Landed' /\ (\E before : Chained(before)') /\ ~hole' /\ ~torn'
  <2>1. ~dropped /\ InRow
    <3>1. ~dropped
      BY <1>2, <1>5, Zenon DEF Captures
    <3> QED
      BY <3>1, Zenon DEF WholeInv, Complete
  <2>2. Landed /\ ~hole /\ ~torn
    BY <2>1, Zenon DEF WholeInv, Complete
  <2>3. PICK before : Chained(before)
    BY <2>1, Zenon DEF WholeInv, Complete
  <2>4. UNCHANGED <<rd, prev, hole, torn>>
    BY <1>3 DEF cpu, renderer
  <2>5. /\ InRow'
        /\ Left' = IF e.st = "b" /\ e'.st = "notify" /\ e.kind = "ring"
                     THEN Left + e.size ELSE Left
    BY <1>2, <1>3, <1>5, <2>1, QueueRow, Zenon DEF WholeInv
  <2>6. Landed'
    BY <1>1, <1>3, <2>2, LandedNext, Zenon DEF WholeInv
  <2>7. RingInv /\ Fields \subseteq DOMAIN e
    BY DEF WholeInv, RingInv, Shape
  <2>8. CASE e.st = "b" /\ e.kind \in {"ring", "gap"} /\ Moves
    <3>1. Left' = IF e.kind = "ring" THEN Left + e.size ELSE Left
      BY <2>5, <2>8 DEF Moves
    <3>2. Left \in Int
      BY <2>7 DEF WholeInv, RingInv, Contents, Left, Staged, Accepted
    <3>3. \E next : Chained(next)'
      BY <1>3, <2>1, <2>2, <2>3, <2>4, <2>7, <2>8, <3>1, <3>2, ChainGrows, Zenon
    <3> QED
      BY <2>2, <2>4, <2>5, <2>6, <3>3, Zenon
  <2>9. CASE e'.producer = e.producer /\ ~(e.st = "b" /\ e'.st = "notify")
    <3>1. Left' = Left
      BY <2>5, <2>9
    <3>2. Chained(before)'
      BY <1>3, <2>2, <2>3, <2>4, <2>7, <2>9, <3>1, ChainStays, Zenon
    <3> QED
      BY <2>2, <2>4, <2>5, <2>6, <3>2, Zenon
  <2>10. \/ e.st = "b" /\ e.kind \in {"ring", "gap"} /\ Moves
         \/ e'.producer = e.producer /\ ~(e.st = "b" /\ e'.st = "notify")
    BY <1>1, <2>7, EngineEither, Zenon
  <2> QED
    BY <2>8, <2>9, <2>10
<1> QED
  BY <1>4, <1>5, Zenon DEF Complete

LEMMA CompleteDeliver ==
  ASSUME WholeInv, DeliverRecord
  PROVE  produced' \in Nat /\ Complete'
<1>1. /\ Deliver /\ RingInv /\ produced \in Nat
      /\ UNCHANGED <<stage, e, ring, produced, held, fifo, dropped, Left>>
  BY DEF DeliverRecord, Deliver, WholeInv, engine, capture, Left, Staged, Accepted
<1>2. ASSUME ~dropped'
      PROVE  InRow' /\ Landed' /\ (\E before : Chained(before)') /\ ~hole' /\ ~torn'
  <2>1. InRow /\ Landed /\ ~hole /\ ~torn
    BY <1>1, <1>2, Zenon DEF WholeInv, Complete
  <2>2. PICK before : Chained(before)
    BY <1>1, <1>2, Zenon DEF WholeInv, Complete
  <2>3. InRow' /\ Landed'
    BY <1>1, <2>1 DEF InRow, Row, Landed, Staged, Accepted, Left
  <2>4. /\ rd \in Slots
        /\ \/ ring[rd] = Gap /\ (prev' = prev => Chained(before)')
           \/ /\ ring[rd] = prev + 1 /\ prev \in Nat
              /\ prev' = prev + 1 => Chained(before)'
    BY <1>1, <2>2, ChainTaken, Zenon
  <2>5. CASE ring[rd] = Gap /\ (prev' = prev => Chained(before)')
    <3>1. Gap \notin Plain
      <4>1. Nat \subseteq Int
        OBVIOUS
      <4> QED
        BY <4>1, CycleRingAssumption, Zenon
    <3>2. RenderGap
      BY <2>5, <3>1, Zenon DEF DeliverRecord, IsFrame
    <3> QED
      BY <2>1, <2>3, <2>5, <3>2, Zenon DEF RenderGap
  <2>6. CASE ring[rd] = prev + 1 /\ prev \in Nat /\ (prev' = prev + 1 => Chained(before)')
    <3>1. ring[rd] # Gap
      BY <2>6, CycleRingAssumption
    <3>2. RenderFrame(prev + 1) \/ RenderPlain(prev + 1)
      BY <2>6, <3>1, Zenon DEF DeliverRecord
    <3>3. ASSUME RenderFrame(prev + 1)
          PROVE  ~hole' /\ ~torn' /\ prev' = prev + 1
      BY <2>1, <3>3, Zenon DEF RenderFrame
    <3>4. ASSUME RenderPlain(prev + 1)
          PROVE  ~hole' /\ ~torn' /\ prev' = prev + 1
      <4>1. prev' = (IF prev + 1 = prev + 1 THEN prev + 1 ELSE prev)
        BY <3>4, Zenon DEF RenderPlain
      <4> QED
        BY <2>1, <3>4, <4>1, Zenon DEF RenderPlain
    <3> QED
      BY <2>3, <2>6, <3>2, <3>3, <3>4, Zenon
  <2> QED
    BY <2>4, <2>5, <2>6
<1> QED
  BY <1>1, <1>2, Zenon DEF Complete

\* Seen without the renderer, every step of the frames is one of the path.
LEMMA FramesOnPath == FramesSpec => Spec
<1>1. FramesInit => Init
  BY DEF FramesInit
<1>2. [FramesNext]_<<vars, renderer>> => [Next]_vars
  BY Zenon DEF FramesNext, Next, DeliverRecord
<1> QED
  BY <1>1, <1>2, PTL DEF FramesSpec, Spec

LEMMA WholeNext == WholeInv /\ [FramesNext]_<<vars, renderer>> => WholeInv'
<1> SUFFICES ASSUME WholeInv, [FramesNext]_<<vars, renderer>> PROVE WholeInv'
  OBVIOUS
<1>1. RingInv'
  <2>1. [Next]_vars
    BY Zenon DEF FramesNext, Next, DeliverRecord
  <2> QED
    BY <2>1, RingNext, Zenon DEF WholeInv
<1>2. CASE Clock /\ UNCHANGED renderer
  BY <1>1, <1>2, CompleteClock, Zenon DEF WholeInv
<1>3. CASE DeliverRecord
  BY <1>1, <1>3, CompleteDeliver, Zenon DEF WholeInv
<1>4. CASE (Poll \/ Publish \/ UNCHANGED vars) /\ UNCHANGED renderer
  <2>1. UNCHANGED <<capture, engine, ring, rd, renderer>>
    BY <1>4 DEF Poll, Publish, vars, cpu
  <2>2. /\ UNCHANGED <<produced, held, fifo, dropped, stage, e, ring, rd, prev, hole, torn>>
    BY <2>1 DEF capture, engine, renderer
  <2>3. UNCHANGED <<Left, InRow, Landed>>
    BY <2>2 DEF Left, Staged, Accepted, InRow, Row, Landed
  <2>4. \A before : Chained(before) => Chained(before)'
    BY <2>2, <2>3, Zenon DEF Chained, After, From
  <2> QED
    BY <1>1, <2>2, <2>3, <2>4, Zenon DEF WholeInv, Complete
<1> QED
  BY <1>2, <1>3, <1>4, Zenon DEF FramesNext

\* As long as the capture FIFO has dropped nothing, published frames are whole
\* (apple_cycle_renderer.c:3275-3367).
THEOREM FramesWhole == FramesSpec => []WholeWithoutDrops
<1>1. WholeInv => WholeWithoutDrops
  BY Zenon DEF WholeInv, Complete, WholeWithoutDrops
<1> QED
  BY <1>1, WholeInit, WholeNext, PTL DEF FramesSpec

(***************************************************************************)
(* The path is a queue: what CPU1 has not consumed of the ring, the stage, *)
(* the capture FIFO and the pending register, in this order.  Records enter*)
(* at its end, a marker enters behind the part in the ring, and CPU1 takes *)
(* the first entry.                                                        *)
(***************************************************************************)
Entries == Nat \cup {Gap}

Queue == Unconsumed \o stage \o fifo \o held

\* Putting one entry between two parts of a queue.
LEMMA InsertBetween ==
  ASSUME NEW S, NEW u \in Seq(S), NEW t \in Seq(S), NEW x \in S
  PROVE  Stream!InsertAt(u \o t, Len(u) + 1, x) = (u \o <<x>>) \o t
<1> DEFINE q == u \o t
<1>1. /\ q \in Seq(S) /\ Len(q) = Len(u) + Len(t) /\ Len(u) \in Nat /\ Len(t) \in Nat
      /\ \A i \in 1 .. Len(u) + Len(t) : q[i] = IF i <= Len(u) THEN u[i] ELSE t[i - Len(u)]
  BY ConcatProperties, LenProperties
<1> HIDE DEF q
<1>2. SubSeq(q, 1, Len(u)) = u
  <2>1. \A i \in 1 .. Len(u) : q[i] \in S /\ q[i] = u[i]
    BY <1>1, ElementOfSeq
  <2>2. /\ SubSeq(q, 1, Len(u)) \in Seq(S) /\ Len(SubSeq(q, 1, Len(u))) = Len(u)
        /\ \A i \in 1 .. Len(u) : SubSeq(q, 1, Len(u))[i] = q[i]
    BY <1>1, <2>1, SubSeqProperties
  <2> QED
    BY <2>1, <2>2, SeqEqual
<1>3. SubSeq(q, Len(u) + 1, Len(q)) = t
  <2>1. \A i \in Len(u) + 1 .. Len(q) : q[i] \in S /\ q[i] = t[i - Len(u)]
    BY <1>1, ElementOfSeq
  <2> DEFINE r == SubSeq(q, Len(u) + 1, Len(q))
  <2>2. /\ r \in Seq(S) /\ Len(r) = Len(t)
        /\ \A i \in 1 .. Len(t) : r[i] = q[Len(u) + i]
    BY <1>1, <2>1, SubSeqProperties
  <2>3. \A i \in 1 .. Len(t) : r[i] = t[i]
    <3> HIDE DEF r
    <3>1. \A i \in 1 .. Len(t) : Len(u) + i \in Len(u) + 1 .. Len(q) /\ (Len(u) + i) - Len(u) = i
      BY <1>1
    <3> QED
      BY <2>1, <2>2, <3>1
  <2> QED
    BY <2>2, <2>3, SeqEqual
<1>4. (Len(u) + 1) - 1 = Len(u)
  BY <1>1
<1> QED
  BY <1>2, <1>3, <1>4, Zenon DEF Stream!InsertAt, q

\* What one clock of the capture does.
Capture(n, rest, marked) ==
  /\ produced' = produced + n /\ produced + n <= MaxRecords /\ dropped' \in BOOLEAN
  /\ \/ /\ fifo' = rest /\ held' = held
        /\ lost' = (IF marked THEN {} ELSE lost) \cup ((produced + 1) .. (produced + n))
        /\ dropped' <=> (dropped \/ n # 0)
        /\ sticky' => sticky \/ n # 0
     \/ /\ lost' = (IF marked THEN {} ELSE lost)
        /\ (dropped' <=> dropped) /\ (sticky' => sticky)
        /\ held' = IF n = 2 THEN <<produced + 2>> ELSE <<>>
        /\ \/ n = 0 /\ fifo' = rest \o held
           \/ n > 0 /\ held = <<>> /\ fifo' = rest \o <<produced + 1>>

LEMMA Captured ==
  ASSUME produced \in Nat, NEW bus \in 0 .. 2, NEW direct, Captures(bus, direct),
         held = <<>> \/ \E m \in Nat : held = <<m>> /\ m <= produced
  PROVE  \E n \in 0 .. 2 : Capture(n, IF Pull THEN Tail(fifo) ELSE fifo, MarkerDone)
<1> DEFINE arrivals == IF direct /\ DirectReady(bus) THEN 1 ELSE bus
           fresh   == (produced + 1)..(produced + arrivals)
           written == IF FifoFull THEN <<>> ELSE IF held # <<>> THEN held
                      ELSE IF arrivals > 0 THEN <<produced + 1>> ELSE <<>>
           keeps   == IF held # <<>> /\ FifoFull THEN held
                      ELSE IF held = <<>> /\ bus = 2 /\ ~FifoFull THEN <<produced + 2>>
                      ELSE <<>>
           drops   == (bus > 0 /\ FifoFull /\ held = <<>>) \/ (held # <<>> /\ bus > 0)
           losses  == {n \in fresh : <<n>> \notin {written, keeps}}
           rest    == IF Pull THEN Tail(fifo) ELSE fifo
           old     == IF MarkerDone THEN {} ELSE lost
<1>1. /\ held = <<>> \/ FifoFull \/ bus = 0
      /\ produced + arrivals <= MaxRecords /\ produced' = produced + arrivals
      /\ fifo' = rest \o written /\ held' = keeps
      /\ sticky' = StickyNext(drops)
      /\ (dropped' <=> (dropped \/ losses # {})) /\ dropped' \in BOOLEAN
      /\ lost' = old \cup losses
  BY Zenon DEF Captures
<1>2. /\ arrivals \in 0 .. 2 /\ (FifoFull \/ held # <<>> => arrivals = bus)
      /\ (arrivals = 2 => bus = 2) /\ (arrivals = 1 => bus # 2) /\ (arrivals = 0 => bus = 0)
  BY SMT DEF DirectReady
<1>3. sticky' => drops \/ sticky
  BY <1>1, Zenon DEF StickyNext
<1>4. CASE FifoFull
  <2>1. written = <<>> /\ keeps = held
    BY <1>4, Zenon
  <2>2. \A n \in fresh : <<n>> # <<>> /\ <<n>> # held
    BY <1>2
  <2>3. losses = fresh
    BY <2>1, <2>2, Zenon
  <2>4. drops => arrivals # 0
    BY <1>2, <1>4
  <2>5. fresh # {} <=> arrivals # 0
    <3>1. /\ arrivals # 0 => produced + 1 \in fresh
          /\ arrivals = 0 => \A n \in fresh : FALSE
      BY <1>2
    <3> QED
      BY <3>1, Zenon
  <2>6. fifo' = rest
    <3>1. rest \o <<>> = rest
      BY DEF Pull
    <3> QED
      BY <1>1, <2>1, <3>1, Zenon
  <2>7. /\ lost' = old \cup fresh /\ (dropped' <=> (dropped \/ arrivals # 0)) /\ held' = held
        /\ sticky' => sticky \/ arrivals # 0
    BY <1>1, <1>3, <2>1, <2>3, <2>4, <2>5, Zenon
  <2> HIDE DEF arrivals, old, rest
  <2>8. Capture(arrivals, rest, MarkerDone)
    BY <1>1, <2>6, <2>7, Zenon DEF Capture, old
  <2> QED
    BY <1>2, <2>8, Zenon DEF rest
<1>5. CASE ~FifoFull /\ held # <<>>
  <2>1. arrivals = 0 /\ bus = 0
    BY <1>1, <1>2, <1>5
  <2>2. written = held /\ keeps = <<>> /\ ~drops
    BY <1>5, <2>1
  <2>3. fresh = {}
    BY <2>1
  <2>4. losses = {}
    BY <2>3, Zenon
  <2>5. /\ lost' = old /\ (dropped' <=> dropped) /\ held' = <<>> /\ fifo' = rest \o held
        /\ sticky' => sticky
    BY <1>1, <1>3, <2>2, <2>4, Zenon
  <2> HIDE DEF arrivals, old, rest
  <2>6. Capture(arrivals, rest, MarkerDone)
    BY <1>1, <2>1, <2>5 DEF Capture, old
  <2> QED
    BY <1>2, <2>6, Zenon DEF rest
<1>6. CASE ~FifoFull /\ held = <<>>
  <2>1. ~drops
    BY <1>6
  <2>2. written = (IF arrivals > 0 THEN <<produced + 1>> ELSE <<>>)
    BY <1>6, Zenon
  <2>3. keeps = (IF bus = 2 THEN <<produced + 2>> ELSE <<>>)
    BY <1>6, Zenon
  <2>4. losses = {}
    <3>1. \A n \in fresh : n = produced + 1 \/ (n = produced + 2 /\ bus = 2)
      BY <1>2
    <3>2. fresh # {} => arrivals > 0
      BY <1>2
    <3> QED
      BY <2>2, <2>3, <3>1, <3>2, Zenon
  <2>5. lost' = old /\ (dropped' <=> dropped) /\ (sticky' => sticky)
    BY <1>1, <1>3, <2>1, <2>4, Zenon
  <2>6. held' = IF arrivals = 2 THEN <<produced + 2>> ELSE <<>>
    BY <1>1, <1>2, <2>3
  <2>7. \/ arrivals = 0 /\ fifo' = rest \o held
        \/ arrivals > 0 /\ held = <<>> /\ fifo' = rest \o <<produced + 1>>
    <3>1. CASE arrivals = 0
      <4>1. written = held
        BY <1>6, <2>2, <3>1
      <4> QED
        BY <1>1, <3>1, <4>1, Zenon
    <3>2. CASE arrivals # 0
      <4>1. arrivals > 0 /\ written = <<produced + 1>>
        BY <1>2, <2>2, <3>2
      <4> QED
        BY <1>1, <1>6, <4>1, Zenon
    <3> QED
      BY <3>1, <3>2
  <2> HIDE DEF arrivals, old, rest
  <2>8. Capture(arrivals, rest, MarkerDone)
    BY <1>1, <2>5, <2>6, <2>7, Zenon DEF Capture, old
  <2> QED
    BY <1>2, <2>8, Zenon DEF rest
<1> QED
  BY <1>4, <1>5, <1>6

\* The slot i places behind slot a, and the entries from slot a to slot b.
Slot(a, i) == IF a + i < R THEN a + i ELSE a + i - R

Stretch(f, a, b) == [i \in 1 .. ((b - a) % R) |-> f[(a + i - 1) % R]]

LEMMA SlotMod ==
  ASSUME NEW a \in Slots, NEW i \in Slots
  PROVE  (a + i) % R = Slot(a, i)
<1>1. CASE a + i < R
  <2> DEFINE s == a + i
  <2>1. s \in Slots
    BY <1>1, Sizes, SMT DEF Slots
  <2> HIDE DEF s
  <2>2. s % R = s
    BY <2>1, Sizes, SMT DEF Slots
  <2> QED
    BY <1>1, <2>2 DEF s, Slot
<1>2. CASE ~(a + i < R)
  <2> DEFINE s == a + i - R
  <2>1. s \in Slots /\ a + i = s + R
    BY <1>2, Sizes, SMT DEF Slots
  <2> HIDE DEF s
  <2>2. (s + R) % R = s
    BY <2>1, Sizes, SMT DEF Slots
  <2>3. Slot(a, i) = s
    BY <1>2, Zenon DEF s, Slot
  <2> QED
    BY <2>1, <2>2, <2>3, Zenon
<1> QED
  BY <1>1, <1>2

LEMMA SlotFrom ==
  ASSUME NEW a \in Slots, NEW i \in Slots
  PROVE  Slot(a, i) \in Slots /\ From(a, Slot(a, i)) = i
BY Sizes, SMT DEF Slot, Slots, From

LEMMA StretchIs ==
  ASSUME NEW f \in [Slots -> Entries], NEW a \in Slots, NEW b \in Slots
  PROVE  /\ Stretch(f, a, b) \in Seq(Entries)
         /\ Len(Stretch(f, a, b)) = From(a, b) /\ From(a, b) \in Slots
         /\ \A i \in 1 .. From(a, b) :
              i - 1 \in Slots /\ Slot(a, i - 1) \in Slots
              /\ Stretch(f, a, b)[i] = f[Slot(a, i - 1)]
<1> DEFINE n == From(a, b)
<1>1. n \in Slots /\ n \in Nat /\ (b - a) % R = n
  <2>1. n \in 0 .. (R - 1) /\ (b - a) % R = n
    BY FromRange, FromMod, Zenon
  <2> HIDE DEF n
  <2> QED
    BY <2>1, Sizes DEF Slots
<1> HIDE DEF n
<1>2. Stretch(f, a, b) = [i \in 1 .. n |-> f[(a + i - 1) % R]]
  BY <1>1, Zenon DEF Stretch
<1>3. ASSUME NEW i \in 1 .. n
      PROVE  i - 1 \in Slots /\ Slot(a, i - 1) \in Slots /\ (a + i - 1) % R = Slot(a, i - 1)
  <2>1. i - 1 \in Slots /\ a + i - 1 = a + (i - 1)
    BY <1>1, Sizes DEF Slots
  <2>2. Slot(a, i - 1) \in Slots /\ (a + (i - 1)) % R = Slot(a, i - 1)
    BY <2>1, SlotFrom, SlotMod
  <2> QED
    BY <2>1, <2>2, Zenon
<1>4. \A i \in 1 .. n : f[(a + i - 1) % R] = f[Slot(a, i - 1)] /\ f[Slot(a, i - 1)] \in Entries
  BY <1>3, Zenon
<1>5. Stretch(f, a, b) \in [1 .. n -> Entries]
  BY <1>2, <1>4, Zenon
<1>6. Stretch(f, a, b) \in Seq(Entries) /\ Len(Stretch(f, a, b)) = n
  BY <1>1, <1>5
<1>7. \A i \in 1 .. n : Stretch(f, a, b)[i] = f[Slot(a, i - 1)]
  BY <1>2, <1>4, Zenon
<1> QED
  BY <1>1, <1>3, <1>6, <1>7, Zenon DEF n

\* Slots outside the unread part do not matter.
LEMMA StretchStays ==
  ASSUME NEW f \in [Slots -> Entries], NEW g \in [Slots -> Entries],
         NEW a \in Slots, NEW b \in Slots,
         \A x \in Slots : From(a, x) < From(a, b) => g[x] = f[x]
  PROVE  Stretch(g, a, b) = Stretch(f, a, b)
<1> DEFINE n == From(a, b)
           u == Stretch(f, a, b)
           v == Stretch(g, a, b)
<1>1. /\ u \in Seq(Entries) /\ Len(u) = n /\ n \in Slots /\ v \in Seq(Entries) /\ Len(v) = n
      /\ \A i \in 1 .. n : i - 1 \in Slots /\ Slot(a, i - 1) \in Slots
      /\ \A i \in 1 .. n : u[i] = f[Slot(a, i - 1)] /\ v[i] = g[Slot(a, i - 1)]
  BY StretchIs
<1>2. ASSUME NEW i \in 1 .. n PROVE v[i] = u[i]
  <2>1. i - 1 < n
    BY <1>1, Sizes DEF Slots
  <2>2. From(a, Slot(a, i - 1)) = i - 1 /\ Slot(a, i - 1) \in Slots
    BY <1>1, SlotFrom, Zenon
  <2>3. g[Slot(a, i - 1)] = f[Slot(a, i - 1)]
    BY <2>1, <2>2, Zenon
  <2> QED
    BY <1>1, <2>3, Zenon
<1> HIDE DEF n, u, v
<1>3. u = v
  BY <1>1, <1>2, SeqEqual, Zenon
<1> QED
  BY <1>3 DEF u, v

\* Slots written behind the unread part join it when its end moves over them.
LEMMA StretchGrows ==
  ASSUME NEW f \in [Slots -> Entries], NEW a \in Slots, NEW b \in Slots,
         NEW w \in Seq(Entries), b + Len(w) <= R, From(a, b) + Len(w) <= R - 1,
         \A j \in 0 .. (Len(w) - 1) : f[b + j] = w[j + 1]
  PROVE  Stretch(f, a, (b + Len(w)) % R) = Stretch(f, a, b) \o w
<1> DEFINE n == From(a, b)
           c == (b + Len(w)) % R
           u == Stretch(f, a, b)
           v == Stretch(f, a, c)
<1>1. c \in Slots /\ From(a, c) = n + Len(w) /\ Len(w) \in Nat
  <2>1. Len(w) \in Nat
    BY LenProperties
  <2> QED
    BY <2>1, FromOn
<1>2. /\ u \in Seq(Entries) /\ Len(u) = n /\ n \in Slots
      /\ \A i \in 1 .. n : u[i] = f[Slot(a, i - 1)]
  BY StretchIs, ZenonT(60)
<1>3. /\ v \in Seq(Entries) /\ Len(v) = n + Len(w)
      /\ \A i \in 1 .. n + Len(w) : i - 1 \in Slots /\ Slot(a, i - 1) \in Slots
      /\ \A i \in 1 .. n + Len(w) : v[i] = f[Slot(a, i - 1)]
  <2> HIDE DEF c
  <2> DEFINE m == From(a, c)
  <2>1. /\ v \in Seq(Entries) /\ Len(v) = m
        /\ \A i \in 1 .. m : i - 1 \in Slots /\ Slot(a, i - 1) \in Slots
                              /\ v[i] = f[Slot(a, i - 1)]
    BY <1>1, StretchIs, Zenon
  <2>2. m = n + Len(w)
    BY <1>1
  <2> HIDE DEF m
  <2> QED
    BY <2>1, <2>2, Zenon
<1> HIDE DEF c, u, v
<1>4. /\ u \o w \in Seq(Entries) /\ Len(u \o w) = n + Len(w)
      /\ \A i \in 1 .. n + Len(w) : (u \o w)[i] = IF i <= n THEN u[i] ELSE w[i - n]
  <2>1. /\ u \o w \in Seq(Entries) /\ Len(u \o w) = Len(u) + Len(w)
        /\ \A i \in 1 .. Len(u) + Len(w) :
              (u \o w)[i] = IF i <= Len(u) THEN u[i] ELSE w[i - Len(u)]
    BY <1>2, ConcatProperties
  <2> QED
    BY <1>2, <2>1, Zenon
<1>5. ASSUME NEW i \in 1 .. n + Len(w), ~(i <= n) PROVE v[i] = w[i - n]
  <2> DEFINE d == i - n - 1
  <2>1. /\ d \in 0 .. (Len(w) - 1) /\ d \in Nat /\ d + 1 = i - n /\ n + d = i - 1
        /\ b + d \in Slots /\ b + d <= R /\ n + d <= R - 1
    <3>1. n \in Nat /\ b \in Nat /\ Len(w) \in Nat /\ n + Len(w) <= R - 1
      BY <1>1, <1>2, Sizes DEF Slots
    <3> HIDE DEF n
    <3>2. i \in Int /\ n < i /\ i <= n + Len(w)
      BY <1>5, <3>1
    <3> QED
      BY <3>1, <3>2, Sizes DEF Slots
  <2> HIDE DEF d
  <2>2. (b + d) % R = b + d
    <3> DEFINE s == b + d
    <3>1. s \in Slots
      BY <2>1
    <3> HIDE DEF s
    <3>2. s % R = s
      BY <3>1, Sizes, SMT DEF Slots
    <3> QED
      BY <3>2 DEF s
  <2>3. From(a, b + d) = n + d
    BY <2>1, <2>2, FromOn
  <2>4. Slot(a, i - 1) \in Slots /\ From(a, Slot(a, i - 1)) = i - 1
    BY <1>3, SlotFrom, Zenon
  <2>5. Slot(a, i - 1) = b + d
    BY <2>1, <2>3, <2>4, FromSame, ZenonT(60)
  <2>6. f[b + d] = w[d + 1]
    BY <2>1, Zenon
  <2> QED
    BY <1>3, <2>1, <2>5, <2>6, Zenon
<1>6. ASSUME NEW i \in 1 .. n + Len(w), i <= n PROVE v[i] = u[i]
  <2>1. i \in 1 .. n
    BY <1>1, <1>2, <1>6 DEF Slots
  <2> QED
    BY <1>2, <1>3, <2>1, Zenon
<1>7. \A i \in 1 .. n + Len(w) : v[i] = (u \o w)[i]
  BY <1>4, <1>5, <1>6, Zenon
<1>8. v = u \o w
  BY <1>3, <1>4, <1>7, SeqEqual, Zenon
<1> QED
  BY <1>8 DEF u, v, c

\* Its beginning moves over its first slot.
LEMMA StretchShrinks ==
  ASSUME NEW f \in [Slots -> Entries], NEW a \in Slots, NEW b \in Slots, From(a, b) > 0
  PROVE  /\ Stretch(f, a, b) # <<>> /\ Head(Stretch(f, a, b)) = f[a]
         /\ Stretch(f, After(a), b) = Tail(Stretch(f, a, b))
<1> DEFINE n == From(a, b)
           u == Stretch(f, a, b)
           v == Stretch(f, After(a), b)
<1>1. /\ u \in Seq(Entries) /\ Len(u) = n /\ n \in Slots /\ n > 0 /\ n \in Nat
      /\ \A i \in 1 .. n : u[i] = f[Slot(a, i - 1)] /\ i - 1 \in Slots
  BY StretchIs, FromRange
<1>2. 1 \in Slots /\ 0 \in Slots
  BY Sizes DEF Slots
<1>3. After(a) \in Slots /\ From(a, After(a)) = 1
  BY FromZero, AfterThat, Sizes
<1>4. From(After(a), b) = n - 1
  BY <1>1, <1>3, FromTurn
<1>5. /\ v \in Seq(Entries) /\ Len(v) = n - 1
      /\ \A i \in 1 .. n - 1 : v[i] = f[Slot(After(a), i - 1)]
  <2> DEFINE m == From(After(a), b)
  <2>1. /\ v \in Seq(Entries) /\ Len(v) = m
        /\ \A i \in 1 .. m : v[i] = f[Slot(After(a), i - 1)]
    <3>1. ASSUME NEW c \in Slots
          PROVE  /\ Stretch(f, c, b) \in Seq(Entries) /\ Len(Stretch(f, c, b)) = From(c, b)
                 /\ \A i \in 1 .. From(c, b) : Stretch(f, c, b)[i] = f[Slot(c, i - 1)]
      BY StretchIs
    <3> QED
      BY <1>3, <3>1, Zenon
  <2>2. m = n - 1
    BY <1>4
  <2> HIDE DEF m, v
  <2> QED
    BY <2>1, <2>2, Zenon
<1>6. ASSUME NEW i \in 1 .. n - 1
      PROVE  i + 1 \in 1 .. n /\ Slot(After(a), i - 1) = Slot(a, (i + 1) - 1)
  <2>1. i + 1 \in 1 .. n /\ i \in Slots /\ (i + 1) - 1 = i /\ i - 1 \in Slots
    BY <1>1, Sizes DEF Slots
  <2>2. After(a) = Slot(a, 1)
    BY <1>2, SlotMod, Zenon DEF After
  <2>3. Slot(Slot(a, 1), i - 1) = Slot(a, i)
    BY <2>1, Sizes, SMT DEF Slot, Slots
  <2> QED
    BY <2>1, <2>2, <2>3, Zenon
<1>7. u # <<>> /\ Head(u) = u[1]
  <2> HIDE DEF u
  <2> QED
    BY <1>1, HeadTailProperties
<1>8. /\ Tail(u) \in Seq(Entries) /\ Len(Tail(u)) = n - 1
      /\ \A i \in 1 .. n - 1 : Tail(u)[i] = u[i + 1]
  <2> HIDE DEF u
  <2> QED
    BY <1>1, <1>7, HeadTailProperties, ZenonT(60)
<1>9. u[1] = f[a]
  <2>1. 1 \in 1 .. n /\ 1 - 1 = 0 /\ Slot(a, 0) = a
    BY <1>1, Sizes DEF Slot, Slots
  <2> QED
    BY <1>1, <2>1, Zenon
<1>10. \A i \in 1 .. n - 1 : v[i] = Tail(u)[i]
  BY <1>1, <1>5, <1>6, <1>8, Zenon
<1> HIDE DEF u, v, n
<1>11. v = Tail(u)
  BY <1>5, <1>8, <1>10, SeqEqual, Zenon
<1> QED
  BY <1>7, <1>9, <1>11 DEF u, v

\* The entries of a sequence.
Of(q) == {q[i] : i \in 1 .. Len(q)}

LEMMA OfConcat ==
  ASSUME NEW S, NEW u \in Seq(S), NEW v \in Seq(S)
  PROVE  Of(u \o v) = Of(u) \cup Of(v)
<1>1. /\ u \o v \in Seq(S) /\ Len(u \o v) = Len(u) + Len(v) /\ Len(u) \in Nat /\ Len(v) \in Nat
      /\ \A i \in 1 .. Len(u) + Len(v) : (u \o v)[i] = IF i <= Len(u) THEN u[i] ELSE v[i - Len(u)]
  BY ConcatProperties, LenProperties
<1> DEFINE w == u \o v
<1> HIDE DEF w
<1>2. ASSUME NEW i \in 1 .. Len(w) PROVE w[i] \in Of(u) \cup Of(v)
  <2>1. \/ i \in 1 .. Len(u) /\ w[i] = u[i]
        \/ i - Len(u) \in 1 .. Len(v) /\ w[i] = v[i - Len(u)]
    <3>1. /\ i \in Int /\ 1 <= i /\ i <= Len(u) + Len(v) /\ Len(u) \in Nat /\ Len(v) \in Nat
          /\ w[i] = IF i <= Len(u) THEN u[i] ELSE v[i - Len(u)]
      BY <1>1, <1>2 DEF w
    <3>2. CASE i <= Len(u)
      <4>1. w[i] = u[i]
        BY <3>1, <3>2, Zenon
      <4>2. i \in 1 .. Len(u)
        BY <3>1, <3>2
      <4> QED
        BY <4>1, <4>2, Zenon
    <3>3. CASE ~(i <= Len(u))
      <4>1. w[i] = v[i - Len(u)]
        BY <3>1, <3>3, Zenon
      <4>2. i - Len(u) \in 1 .. Len(v)
        BY <3>1, <3>3
      <4> QED
        BY <4>1, <4>2, Zenon
    <3> QED
      BY <3>2, <3>3, Zenon
  <2> QED
    BY <2>1, Zenon DEF Of
<1>3. ASSUME NEW i \in 1 .. Len(u) PROVE u[i] \in Of(w)
  <2>1. i \in 1 .. Len(w) /\ w[i] = u[i]
    BY <1>1 DEF w
  <2> QED
    BY <2>1, Zenon DEF Of
<1>4. ASSUME NEW i \in 1 .. Len(v) PROVE v[i] \in Of(w)
  <2>1. Len(u) + i \in 1 .. Len(w) /\ w[Len(u) + i] = v[i]
    BY <1>1 DEF w
  <2> QED
    BY <2>1, Zenon DEF Of
<1>5. Of(w) = Of(u) \cup Of(v)
  BY <1>2, <1>3, <1>4, Zenon DEF Of
<1> QED
  BY <1>5 DEF w

LEMMA OnePlusOne == ASSUME NEW S, NEW x \in S, NEW y \in S PROVE <<x>> \o <<y>> = <<x, y>>
<1> DEFINE a == <<x>> \o <<y>>
           b == <<x, y>>
<1>1. /\ <<x>> \in Seq(S) /\ <<y>> \in Seq(S) /\ b \in Seq(S) /\ Len(b) = 2
      /\ Len(<<x>>) = 1 /\ Len(<<y>>) = 1 /\ <<x>>[1] = x /\ <<y>>[1] = y /\ b[1] = x /\ b[2] = y
  OBVIOUS
<1>2. /\ a \in Seq(S) /\ Len(a) = 1 + 1
      /\ \A i \in 1 .. 1 + 1 : a[i] = IF i <= 1 THEN <<x>>[i] ELSE <<y>>[i - 1]
  BY <1>1, ConcatProperties
<1> HIDE DEF a, b
<1>3. \A i \in 1 .. Len(a) : i = 1 \/ i = 2
  BY <1>2
<1>4. Len(a) = Len(b) /\ \A i \in 1 .. Len(a) : a[i] = b[i]
  BY <1>1, <1>2, <1>3
<1>5. a = b
  BY <1>1, <1>2, <1>4, SeqEqual, Zenon
<1> QED
  BY <1>5 DEF a, b

LEMMA OfFew == /\ Of(<<>>) = {} /\ \A x : Of(<<x>>) = {x}
               /\ \A x, y : Of(<<x, y>>) = {x, y}
<1>1. Of(<<>>) = {}
  BY DEF Of
<1>2. ASSUME NEW x PROVE Of(<<x>>) = {x}
  <2>1. Len(<<x>>) = 1 /\ <<x>>[1] = x
    OBVIOUS
  <2>2. 1 .. 1 = {1}
    OBVIOUS
  <2> QED
    BY <2>1, <2>2, Zenon DEF Of
<1>3. ASSUME NEW x, NEW y PROVE Of(<<x, y>>) = {x, y}
  <2>1. Len(<<x, y>>) = 2 /\ <<x, y>>[1] = x /\ <<x, y>>[2] = y
    OBVIOUS
  <2>2. 1 .. 2 = {1, 2}
    OBVIOUS
  <2> QED
    BY <2>1, <2>2, Zenon DEF Of
<1> QED
  BY <1>1, <1>2, <1>3, Zenon

\* The numbers of the records of this clock.
Arrived(n) == (produced + 1) .. (produced + n)

\* What a clock accepts of the n records it sees goes behind the waiting ones.
Accept(n, kept, rest, marked) ==
  /\ produced' = produced + n /\ produced + n <= MaxRecords
  /\ kept \in {<<>>, <<produced + 1>>, <<produced + 2>>, <<produced + 1, produced + 2>>}
  /\ kept \in Seq(Entries) /\ Of(kept) \subseteq Arrived(n)
  /\ fifo' \o held' = (rest \o held) \o kept
  /\ lost' = (IF marked THEN {} ELSE lost) \cup (Arrived(n) \ Of(kept))
  /\ dropped' \in BOOLEAN /\ (dropped' <=> dropped \/ Of(kept) # Arrived(n))
  /\ sticky' => sticky \/ Of(kept) # Arrived(n)
  /\ Of(kept) \in {{}, Arrived(n)}
  /\ held' = <<>> \/ \E m \in Nat : held' = <<m>> /\ m <= produced'

LEMMA CaptureAccepts ==
  ASSUME produced \in Nat, NEW n \in 0 .. 2, NEW rest \in Seq(Entries), NEW marked,
         held \in Seq(Entries), Capture(n, rest, marked),
         held = <<>> \/ \E m \in Nat : held = <<m>> /\ m <= produced
  PROVE  \E kept : Accept(n, kept, rest, marked)
<1> DEFINE old == IF marked THEN {} ELSE lost
<1> HIDE DEF old
<1>0. /\ produced' = produced + n /\ produced + n <= MaxRecords /\ dropped' \in BOOLEAN
      /\ rest \o held \in Seq(Entries) /\ <<>> \in Seq(Entries)
      /\ produced + 1 \in Entries /\ produced + 2 \in Entries
  BY ConcatProperties DEF Capture, Entries
<1>1. CASE /\ fifo' = rest /\ held' = held
           /\ lost' = old \cup Arrived(n)
           /\ dropped' <=> (dropped \/ n # 0)
           /\ sticky' => sticky \/ n # 0
  <2>1. n # 0 <=> {} # Arrived(n)
    <3>1. (n # 0 => produced + 1 \in Arrived(n)) /\ (n = 0 => \A x \in Arrived(n) : FALSE)
      BY DEF Arrived
    <3> QED
      BY <3>1, Zenon
  <2>2. (rest \o held) \o <<>> = fifo' \o held'
    <3>1. (rest \o held) \o <<>> = rest \o held
      BY <1>0, ConcatEmptySeq, Zenon
    <3> QED
      BY <1>1, <3>1, Zenon
  <2>3. Of(<<>>) = {}
    BY OfFew, Zenon
  <2>4. Arrived(n) \ {} = Arrived(n)
    OBVIOUS
  <2>5. held' = <<>> \/ \E m \in Nat : held' = <<m>> /\ m <= produced'
    <3>1. \A m \in Nat : m <= produced => m <= produced'
      BY <1>0
    <3> QED
      BY <1>1, <3>1, Zenon
  <2>6. Accept(n, <<>>, rest, marked)
    BY <1>0, <1>1, <2>1, <2>2, <2>3, <2>4, <2>5, Zenon DEF Accept, old
  <2> QED
    BY <2>6, Zenon
<1>2. CASE /\ lost' = old
           /\ (dropped' <=> dropped) /\ (sticky' => sticky)
           /\ held' = IF n = 2 THEN <<produced + 2>> ELSE <<>>
           /\ \/ n = 0 /\ fifo' = rest \o held
              \/ n > 0 /\ held = <<>> /\ fifo' = rest \o <<produced + 1>>
  <2>1. ASSUME NEW kept, kept \in Seq(Entries), Of(kept) = Arrived(n),
               kept \in {<<>>, <<produced + 1>>, <<produced + 2>>,
                         <<produced + 1, produced + 2>>},
               fifo' \o held' = (rest \o held) \o kept
        PROVE  Accept(n, kept, rest, marked)
    <3>1. old \cup (Arrived(n) \ Arrived(n)) = old
      OBVIOUS
    <3>2. held' = <<>> \/ \E m \in Nat : held' = <<m>> /\ m <= produced'
      <4>1. n = 2 => produced + 2 \in Nat /\ produced + 2 <= produced'
        BY <1>0
      <4> QED
        BY <1>2, <4>1, Zenon
    <3> QED
      BY <1>0, <1>2, <2>1, <3>1, <3>2, Zenon DEF Accept, old
  <2>2. CASE n = 0
    <3>1. Arrived(n) = {}
      BY <2>2 DEF Arrived
    <3>2. fifo' \o held' = (rest \o held) \o <<>>
      BY <1>2, <2>2
    <3> QED
      BY <1>0, <2>1, <3>1, <3>2, OfFew, Zenon
  <2>3. CASE n = 1
    <3>1. Arrived(n) = {produced + 1}
      BY <2>3 DEF Arrived
    <3>2. fifo' = rest \o <<produced + 1>> /\ held' = <<>> /\ held = <<>>
      BY <1>2, <2>3
    <3>3. <<produced + 1>> \in Seq(Entries)
      BY <1>0
    <3>4. /\ rest \o <<>> = rest
          /\ (rest \o <<produced + 1>>) \o <<>> = rest \o <<produced + 1>>
      BY <3>3, ConcatEmptySeq, ConcatProperties
    <3>5. fifo' \o held' = (rest \o held) \o <<produced + 1>>
      BY <3>2, <3>4
    <3> QED
      BY <2>1, <3>1, <3>3, <3>5, OfFew, Zenon
  <2>4. CASE n = 2
    <3>1. Arrived(n) = {produced + 1, produced + 2}
      BY <2>4 DEF Arrived
    <3>2. fifo' = rest \o <<produced + 1>> /\ held' = <<produced + 2>> /\ held = <<>>
      BY <1>2, <2>4
    <3>3. /\ <<produced + 1>> \in Seq(Entries) /\ <<produced + 2>> \in Seq(Entries)
          /\ <<produced + 1, produced + 2>> \in Seq(Entries)
      BY <1>0
    <3>4. <<produced + 1>> \o <<produced + 2>> = <<produced + 1, produced + 2>>
      BY <1>0, OnePlusOne
    <3>5. (rest \o <<produced + 1>>) \o <<produced + 2>> = rest \o <<produced + 1, produced + 2>>
      <4>1. (rest \o <<produced + 1>>) \o <<produced + 2>>
              = rest \o (<<produced + 1>> \o <<produced + 2>>)
        BY <3>3, ConcatAssociative
      <4> QED
        BY <3>4, <4>1
    <3>6. rest \o held = rest
      <4>1. rest \o <<>> = rest
        BY ConcatEmptySeq
      <4> QED
        BY <3>2, <4>1
    <3>7. fifo' \o held' = (rest \o held) \o <<produced + 1, produced + 2>>
      BY <3>2, <3>5, <3>6
    <3> QED
      BY <2>1, <3>1, <3>3, <3>7, OfFew, Zenon
  <2> QED
    BY <2>2, <2>3, <2>4
<1> QED
  BY <1>1, <1>2, Zenon DEF Capture, Arrived, old

LEMMA NatsAreEntries == ASSUME NEW q \in Seq(Nat) PROVE q \in Seq(Entries)
<1>1. Len(q) \in Nat /\ q \in [1 .. Len(q) -> Nat]
  BY LenProperties
<1>2. q \in [1 .. Len(q) -> Entries]
  BY <1>1 DEF Entries
<1> QED
  BY <1>1, <1>2

LEMMA PathTypes ==
  ASSUME RingInv, Landed
  PROVE  /\ ring \in [Slots -> Entries] /\ rd \in Slots /\ e.producer \in Slots
         /\ Unconsumed = Stretch(ring, rd, e.producer) /\ Unconsumed \in Seq(Entries)
         /\ stage \in Seq(Entries) /\ fifo \in Seq(Entries) /\ held \in Seq(Entries)
<1>1. ring \in [Slots -> Entries] /\ rd \in Slots /\ e.producer \in Slots
  BY Zenon DEF Landed, RingInv, Pointers, Entries
<1>2. Unconsumed = Stretch(ring, rd, e.producer)
  BY Zenon DEF Unconsumed, Stretch
<1>3. Unconsumed \in Seq(Entries)
  BY <1>1, <1>2, StretchIs, Zenon
<1>4. \A q \in Seq(Nat) : q \in Seq(Entries)
  BY NatsAreEntries
<1>5. stage \in Seq(Nat) /\ fifo \in Seq(Nat) /\ held \in Seq(Nat)
  BY Zenon DEF RingInv, Contents
<1> QED
  BY <1>1, <1>2, <1>3, <1>4, <1>5, Zenon

LEMMA SplitSeq ==
  ASSUME NEW S, NEW q \in Seq(S), NEW n \in Nat, n > 0, n <= Len(q)
  PROVE  LET z == SubSeq(q, n + 1, Len(q)) IN z \in Seq(S) /\ SubSeq(q, 1, n) \o z = q
<1> DEFINE z == SubSeq(q, n + 1, Len(q))
<1>1. Len(q) \in Nat /\ 1 \in 1 .. Len(q) + 1 /\ n \in 0 .. Len(q) /\ Len(q) \in n .. Len(q)
  BY LenProperties
<1>2. SubSeq(q, 1, n) \o z = SubSeq(q, 1, Len(q))
  <2>1. n \in 1 - 1 .. Len(q)
    BY <1>1
  <2> QED
    BY <1>1, <2>1, ConcatAdjacentSubSeq
<1>3. SubSeq(q, 1, Len(q)) = q
  BY SubSeqFull
<1>4. z \in Seq(S)
  <2>1. \A i \in n + 1 .. Len(q) : q[i] \in S
    BY <1>1, ElementOfSeq
  <2> QED
    BY <1>1, <2>1, SubSeqProperties
<1> QED
  BY <1>2, <1>3, <1>4

LEMMA SplitHead ==
  ASSUME NEW S, NEW q \in Seq(S), q # <<>>
  PROVE  q = <<Head(q)>> \o Tail(q)
<1>1. Len(q) \in Nat /\ Len(q) > 0 /\ 1 \in 1 .. Len(q) /\ Len(q) \in 1 .. Len(q)
  BY EmptySeq, LenProperties
<1>2. SubSeq(q, 1, Len(q)) = <<q[1]>> \o SubSeq(q, 1 + 1, Len(q))
  BY <1>1, SubSeqRecursiveFirst
<1>3. SubSeq(q, 1, Len(q)) = q /\ Tail(q) = SubSeq(q, 2, Len(q)) /\ Head(q) = q[1]
  BY SubSeqFull, TailIsSubSeq
<1> QED
  BY <1>2, <1>3

\* What one clock of the engine does to the queue ahead of the capture.
Moving(rest) ==
  \/ /\ MarkerDone /\ Unconsumed' = Unconsumed \o <<Gap>> /\ stage' = stage /\ rest = fifo
  \/ /\ ~MarkerDone /\ Unconsumed' \o stage' = Unconsumed \o stage /\ rest = fifo
  \/ /\ ~MarkerDone /\ ~e.gap /\ rest \in Seq(Entries)
     /\ \E x \in Entries : fifo = <<x>> \o rest
                           /\ Unconsumed' \o stage' = (Unconsumed \o stage) \o <<x>>

LEMMA EngineQueue ==
  ASSUME RingInv, Landed, NEW flush, NEW axi, Engine(flush, axi), Stages, Lands, rd' = rd,
         Landed', RingInv'
  PROVE  Moving(IF Pull THEN Tail(fifo) ELSE fifo)
<1>1. /\ ring \in [Slots -> Entries] /\ rd \in Slots /\ e.producer \in Slots
      /\ Unconsumed = Stretch(ring, rd, e.producer) /\ Unconsumed \in Seq(Entries)
      /\ stage \in Seq(Entries) /\ fifo \in Seq(Entries) /\ held \in Seq(Entries)
      /\ Fields \subseteq DOMAIN e
  BY PathTypes DEF RingInv, Shape
<1>2. Unconsumed' = Stretch(ring', rd, e'.producer) /\ ring' \in [Slots -> Entries]
  BY Zenon DEF Unconsumed, Stretch, Landed, Entries
<1>3. CASE e.st = "b" /\ e.kind \in {"ring", "gap"} /\ Moves
  <2>1. /\ e.addr = e.producer /\ e.size \in Nat /\ e.size > 0 /\ e.addr + e.size <= R
        /\ From(rd, e.producer) + e.size <= R - 1
    BY <1>3, UnreadFits DEF InFlight
  <2>2. ring' = ring /\ ~Pull /\ e.left = 0
    <3>1. Shape
      BY DEF RingInv
    <3>2. ring' = ring
      BY <1>3, <3>1, LandsThere
    <3> QED
      BY <1>3, <3>2 DEF Pull, Landed
  <2>3. e'.producer = (e.producer + e.size) % R /\ e'.st = "notify"
    BY <1>3 DEF Moves
  <2>4. CASE e.kind = "gap"
    <3>1. MarkerDone /\ stage' = stage
      BY <1>3, <2>2, <2>3, <2>4, Zenon DEF MarkerDone, Stages
    <3>2. e.size = 1 /\ ring[e.addr] = Gap
      BY <1>3, <2>4 DEF RingInv, Sized, InFlight, Landed
    <3> DEFINE w == <<Gap>>
    <3>3. w \in Seq(Entries) /\ Len(w) = 1 /\ w[1] = Gap
      BY DEF Entries
    <3> HIDE DEF w
    <3>4. \A j \in 0 .. (Len(w) - 1) : j = 0
      BY <3>3
    <3>5. \A j \in 0 .. (Len(w) - 1) : ring[e.producer + j] = w[j + 1]
      <4>1. e.producer + 0 = e.producer
        BY <1>1 DEF Slots
      <4> QED
        BY <2>1, <3>2, <3>3, <3>4, <4>1
    <3>6. e.producer + Len(w) <= R /\ From(rd, e.producer) + Len(w) <= R - 1
      BY <2>1, <3>2, <3>3
    <3>7. Stretch(ring, rd, (e.producer + Len(w)) % R) = Stretch(ring, rd, e.producer) \o w
      BY <1>1, <3>3, <3>5, <3>6, StretchGrows
    <3>8. Unconsumed' = Unconsumed \o w
      BY <1>1, <1>2, <2>2, <2>3, <3>2, <3>3, <3>7
    <3> QED
      BY <2>2, <3>1, <3>8, Zenon DEF Moving, w
  <2>5. CASE e.kind = "ring"
    <3>1. ~MarkerDone /\ stage' = SubSeq(stage, e.size + 1, Len(stage))
      BY <1>3, <2>3, <2>5, Zenon DEF MarkerDone, Stages
    <3>2. e.size <= Len(stage)
      BY <1>3, <2>5 DEF RingInv, Sized, InFlight
    <3> DEFINE w == SubSeq(stage, 1, e.size)
               z == SubSeq(stage, e.size + 1, Len(stage))
    <3>3. w \in Seq(Entries) /\ Len(w) = e.size /\ \A i \in 1 .. e.size : w[i] = stage[i]
      <4>1. \A i \in 1 .. e.size : stage[i] \in Entries
        BY <1>1, <2>1, <3>2, ElementOfSeq
      <4> QED
        BY <1>1, <2>1, <3>2, <4>1, SubSeqProperties
    <3>4. z \in Seq(Entries) /\ w \o z = stage
      BY <1>1, <2>1, <3>2, SplitSeq
    <3> HIDE DEF w, z
    <3>5. \A j \in 0 .. (Len(w) - 1) : ring[e.producer + j] = w[j + 1]
      <4> SUFFICES ASSUME NEW j \in 0 .. (Len(w) - 1) PROVE ring[e.producer + j] = w[j + 1]
        OBVIOUS
      <4>1. j \in 0 .. (e.size - e.left - 1) /\ j + 1 \in 1 .. e.size
        BY <2>1, <2>2, <3>3
      <4>2. ring[e.addr + j] = stage[j + 1]
        BY <1>3, <2>5, <4>1, Zenon DEF Landed
      <4> QED
        BY <2>1, <3>3, <4>1, <4>2, Zenon
    <3>6. e.producer + Len(w) <= R /\ From(rd, e.producer) + Len(w) <= R - 1
      BY <2>1, <3>3
    <3>7. Stretch(ring, rd, (e.producer + Len(w)) % R) = Stretch(ring, rd, e.producer) \o w
      BY <1>1, <3>3, <3>5, <3>6, StretchGrows
    <3>8. Unconsumed' = Unconsumed \o w
      BY <1>1, <1>2, <2>2, <2>3, <3>3, <3>7
    <3>9. Unconsumed' \o stage' = Unconsumed \o stage
      <4>1. (Unconsumed \o w) \o z = Unconsumed \o (w \o z)
        <5>1. Unconsumed \in Seq(Entries) /\ w \in Seq(Entries) /\ z \in Seq(Entries)
          BY <1>1, <3>3, <3>4, Zenon
        <5> QED
          BY <5>1, ConcatAssociative
      <4>2. stage' = z
        BY <3>1 DEF z
      <4> QED
        BY <3>4, <3>8, <4>1, <4>2, Zenon
    <3> QED
      BY <2>2, <3>1, <3>9, Zenon DEF Moving
  <2> QED
    BY <1>3, <2>4, <2>5
<1>4. CASE e'.producer = e.producer /\ ~(e.st = "b" /\ e'.st = "notify")
  <2>1. \A x \in Slots : From(rd, x) < From(rd, e.producer) => ring'[x] = ring[x]
    BY LandsAside
  <2>2. Unconsumed' = Unconsumed
    <3>1. Stretch(ring', rd, e.producer) = Stretch(ring, rd, e.producer)
      BY <1>1, <1>2, <2>1, StretchStays, Zenon
    <3> QED
      BY <1>1, <1>2, <1>4, <3>1
  <2>3. ~MarkerDone /\ stage' = IF Pull THEN Append(stage, Head(fifo)) ELSE stage
    BY <1>4, Zenon DEF MarkerDone, Stages
  <2>4. CASE ~Pull
    BY <2>2, <2>3, <2>4, Zenon DEF Moving
  <2>5. CASE Pull
    <3>1. fifo # <<>> /\ ~e.gap
      BY <2>5 DEF Pull
    <3> DEFINE h == Head(fifo)
    <3>2. h \in Entries /\ Tail(fifo) \in Seq(Entries) /\ fifo = <<h>> \o Tail(fifo)
      BY <1>1, <3>1, HeadTailProperties, SplitHead
    <3>3. stage' = stage \o <<h>> /\ <<h>> \in Seq(Entries)
      BY <1>1, <2>3, <2>5, <3>2, AppendIsConcat
    <3>4. Unconsumed' \o stage' = (Unconsumed \o stage) \o <<h>>
      <4> HIDE DEF h
      <4>1. Unconsumed \o (stage \o <<h>>) = (Unconsumed \o stage) \o <<h>>
        BY <1>1, <3>3, ConcatAssociative
      <4> QED
        BY <2>2, <3>3, <4>1, Zenon
    <3> HIDE DEF h
    <3> QED
      BY <2>3, <2>5, <3>1, <3>2, <3>4, Zenon DEF Moving
  <2> QED
    BY <2>4, <2>5
<1> QED
  BY <1>1, <1>3, <1>4, EngineEither, Zenon

\* What the engine has taken, and what waits for it.
Passed == Unconsumed \o stage
Waiting == fifo \o held

\* A record that every unannounced loss comes after.
Ahead(x) == x \in Nat /\ x <= produced /\ \A l \in lost : x < l

\* Records that the engine has taken are ahead of the losses, and so are the
\* waiting ones until a marker is due.
Ordered ==
  /\ lost \subseteq Nat
  /\ \A x \in Of(Passed) : x = Gap \/ Ahead(x)
  /\ \A x \in Of(Waiting) : x \in Nat /\ x <= produced /\ (~e.gap => Ahead(x))
  /\ held = <<>> \/ \E m \in Nat : held = <<m>> /\ m <= produced

\* A marker is on its way only if one is due, and when lossless one is due only
\* after a record has been dropped.
Owed ==
  /\ dropped \in BOOLEAN
  /\ e.st = "gap" \/ (InFlight /\ e.kind = "gap") => e.gap
  /\ sticky => dropped
  /\ Lossless /\ e.gap => dropped

\* The inductive invariant of the refinement.
PathInv == RingInv /\ IInv /\ Landed /\ Ordered /\ Owed

LEMMA InitEmpty == ASSUME Init PROVE Unconsumed = <<>>
<1>1. e.producer = 0 /\ rd = 0 /\ ring \in [Slots -> Entries]
  <2>1. e.producer = 0 /\ rd = 0 /\ ring = [i \in 0 .. (R - 1) |-> Gap]
    BY SMT DEF Init
  <2> QED
    BY <2>1, Zenon DEF Slots, Entries
<1>2. 0 \in Slots /\ From(0, 0) = 0
  BY Sizes DEF Slots, From
<1>3. Unconsumed = Stretch(ring, 0, 0)
  BY <1>1, Zenon DEF Unconsumed, Stretch
<1>4. Unconsumed \in Seq(Entries) /\ Len(Unconsumed) = 0
  BY <1>1, <1>2, <1>3, StretchIs
<1> QED
  BY <1>4, EmptySeq

LEMMA PathInit == Init => PathInv
<1> SUFFICES ASSUME Init PROVE PathInv
  OBVIOUS
<1>1. RingInv /\ IInv
  BY RingInit, InitInv
<1>2. e.st = "idle" /\ e.producer = 0 /\ e.gap = FALSE
  BY SMT DEF Init
<1>3. Landed
  BY <1>2 DEF Landed, Init, Slots
<1>4. produced = 0 /\ held = <<>> /\ fifo = <<>> /\ stage = <<>> /\ lost = {} /\ dropped = FALSE
      /\ sticky = FALSE /\ rd = 0
  BY DEF Init
<1>5. Owed
  BY <1>2, <1>4 DEF Owed, InFlight
<1>6. Unconsumed = <<>>
  BY InitEmpty
<1>7. Of(Passed) = {} /\ Of(Waiting) = {}
  <2>1. <<>> \o <<>> = <<>>
    OBVIOUS
  <2> QED
    BY <1>4, <1>6, <2>1, OfFew, Zenon DEF Passed, Waiting
<1>8. Ordered
  BY <1>4, <1>7, Zenon DEF Ordered
<1> QED
  BY <1>1, <1>3, <1>5, <1>8 DEF PathInv

\* When lossless a marker becomes due only with the drop flag.
LEMMA EngineOwes ==
  ASSUME Registers, Flags, Fields \subseteq DOMAIN e, NEW flush, NEW axi, Engine(flush, axi)
  PROVE  Lossless /\ e'.gap => e.gap \/ sticky
<1> SUFFICES ASSUME Lossless PROVE e'.gap => e.gap \/ sticky
  OBVIOUS
<1>1. /\ {"st", "gap", "source", "ack"} \subseteq DOMAIN Latched
      /\ Latched.gap = (e.gap \/ sticky)
  BY LatchedKeeps, Zenon DEF LatchesDrop, Flags
<1> HIDE DEF Latched
<1>2. ASSUME NEW st, Goes(st) PROVE e'.gap = (e.gap \/ sticky)
  BY <1>1, <1>2, Zenon DEF Goes, Registers
<1>3. CASE Idle \/ BurstCap \/ BurstPrep \/ NotifyPrep \/ GapPrep
  <2>1. e'.gap = (e.gap \/ sticky)
    BY <1>1, <1>2, <1>3, Zenon DEF Idle, BurstCap, BurstPrep, NotifyPrep, GapPrep
  <2> QED
    BY <2>1, Zenon
<1>4. CASE Drain(flush)
  BY <1>1, <1>2, <1>4, Zenon DEF Drain
<1>5. CASE Address(axi) \/ Beat(axi)
  BY <1>1, <1>2, <1>5, Zenon DEF Address, Beat
<1>6. CASE Response(axi)
  BY <1>1, <1>2, <1>6, Zenon DEF Response, Moved
<1> QED
  BY <1>3, <1>4, <1>5, <1>6 DEF Engine

\* A marker on its way was due before, unless it was completed by this clock.
LEMMA MarkerDue ==
  ASSUME Shape, NEW flush, NEW axi, Engine(flush, axi), Owed,
         e'.st = "gap" \/ (InFlight' /\ e'.kind = "gap")
  PROVE  e.gap /\ ~MarkerDone
<1>0. Fields \subseteq DOMAIN e /\ e.st \in States
  BY DEF Shape
<1>1. e.st = "gap" \/ (InFlight /\ e.kind = "gap") => e.gap
  BY Zenon DEF Owed
<1>2. CASE Stays /\ e.st \in {"drain", "aw", "w", "b"}
  <2>1. e'.st = e.st /\ e'.kind = e.kind
    BY <1>2, SameFields, Zenon DEF Stays
  <2> QED
    BY <1>1, <1>2, <2>1 DEF InFlight, MarkerDone
<1>3. CASE e.st = "drain" /\ Turns("gap") /\ ~caps.fullGap /\ e.gap
  BY <1>3 DEF MarkerDone
<1>4. CASE e.st = "gap" /\ Marks
  BY <1>1, <1>4 DEF MarkerDone
<1>5. CASE e.st = "aw" /\ Loads
  <2>1. e'.st = "w" /\ e'.kind = e.kind
    BY <1>5, SameFields, Zenon DEF Loads
  <2> QED
    BY <1>1, <1>5, <2>1 DEF InFlight, MarkerDone
<1>6. CASE e.st = "w" /\ Counts
  <2>1. e'.kind = e.kind /\ e'.st = IF e.left = 1 THEN "b" ELSE "w"
    BY <1>6, SameFields, Zenon DEF Counts
  <2> QED
    BY <1>1, <1>6, <2>1 DEF InFlight, MarkerDone
<1>7. CASE \/ e'.st \in {"drain", "cap", "prep", "notify"}
           \/ Prepares \/ Notifies
  BY <1>7 DEF Prepares, Notifies, InFlight
<1> QED
  BY <1>0, <1>2, <1>3, <1>4, <1>5, <1>6, <1>7, EngineMoves, Zenon DEF Turns, Caps, Moves

LEMMA OwedNext ==
  ASSUME RingInv, IInv, Owed, NEW flush, NEW axi, Engine(flush, axi),
         NEW n, NEW kept, NEW rest, NEW marked, Accept(n, kept, rest, marked)
  PROVE  Owed'
<1>1. /\ dropped' \in BOOLEAN /\ (dropped' <=> dropped \/ Of(kept) # Arrived(n))
      /\ (sticky' => sticky \/ Of(kept) # Arrived(n))
  BY Zenon DEF Accept
<1>2. Lossless /\ e'.gap => e.gap \/ sticky
  BY EngineOwes DEF RingInv, Shape, IInv
<1>3. ~MarkerDone => ((e.gap \/ sticky) => e'.gap)
  BY EngineKeeps, Zenon DEF IInv
<1>4. e'.st = "gap" \/ (InFlight' /\ e'.kind = "gap") => e.gap /\ ~MarkerDone
  BY MarkerDue, Zenon DEF RingInv
<1> QED
  BY <1>1, <1>2, <1>3, <1>4, Zenon DEF Owed

\* One clock of the path, as a step of the entries taken by the engine and of
\* those that still wait.
QueueStep(kept) ==
  \/ /\ MarkerDone /\ Unconsumed' \o stage' = (Unconsumed \o <<Gap>>) \o stage
     /\ Waiting' = Waiting \o kept
  \/ /\ ~MarkerDone /\ Passed' = Passed /\ Waiting' = Waiting \o kept
  \/ /\ ~MarkerDone /\ ~e.gap
     /\ \E x \in Entries, w \in Seq(Entries) :
          Waiting = <<x>> \o w /\ Passed' = Passed \o <<x>> /\ Waiting' = w \o kept

LEMMA Stepping ==
  ASSUME NEW rest \in Seq(Entries), NEW n, NEW kept, NEW marked, Moving(rest),
         Accept(n, kept, rest, marked),
         Unconsumed \in Seq(Entries), stage \in Seq(Entries), fifo \in Seq(Entries),
         held \in Seq(Entries)
  PROVE  QueueStep(kept)
<1>1. Waiting' = (rest \o held) \o kept
  BY Zenon DEF Waiting, Accept
<1>2. CASE /\ MarkerDone /\ Unconsumed' = Unconsumed \o <<Gap>> /\ stage' = stage
           /\ rest = fifo
  BY <1>1, <1>2, Zenon DEF QueueStep, Waiting
<1>3. CASE ~MarkerDone /\ Unconsumed' \o stage' = Unconsumed \o stage /\ rest = fifo
  BY <1>1, <1>3, Zenon DEF QueueStep, Waiting, Passed
<1>4. CASE /\ ~MarkerDone /\ ~e.gap
           /\ \E x \in Entries : fifo = <<x>> \o rest
                /\ Unconsumed' \o stage' = (Unconsumed \o stage) \o <<x>>
  <2>1. PICK x \in Entries : fifo = <<x>> \o rest
                /\ Unconsumed' \o stage' = (Unconsumed \o stage) \o <<x>>
    BY <1>4, Zenon
  <2> DEFINE w == rest \o held
  <2>2. <<x>> \in Seq(Entries) /\ w \in Seq(Entries)
    BY ConcatProperties
  <2>3. (<<x>> \o rest) \o held = <<x>> \o w
    BY <2>2, ConcatAssociative
  <2>4. Waiting' = w \o kept
    BY <1>1, Zenon
  <2>5. Waiting = <<x>> \o w
    <3>1. Waiting = (<<x>> \o rest) \o held
      BY <2>1, Zenon DEF Waiting
    <3> QED
      BY <2>3, <3>1, Zenon
  <2>6. Passed' = Passed \o <<x>>
    BY <2>1, Zenon DEF Passed
  <2> HIDE DEF w
  <2> QED
    BY <1>4, <2>2, <2>4, <2>5, <2>6, Zenon DEF QueueStep
<1> QED
  BY <1>2, <1>3, <1>4, Zenon DEF Moving

\* A record stays ahead of the losses, whatever this clock loses.
LEMMA StillAhead ==
  ASSUME produced \in Nat, NEW n \in 0 .. 2, NEW kept, NEW rest,
         Accept(n, kept, rest, MarkerDone),
         NEW x \in Nat, x <= produced, MarkerDone \/ \A l \in lost : x < l
  PROVE  Ahead(x)'
<1>1. /\ produced' = produced + n
      /\ lost' = (IF MarkerDone THEN {} ELSE lost) \cup (Arrived(n) \ Of(kept))
  BY Zenon DEF Accept
<1>2. \A l \in Arrived(n) : x < l
  BY DEF Arrived
<1>3. \A l \in lost' : x < l
  BY <1>1, <1>2, Zenon
<1>4. x <= produced'
  BY <1>1
<1> QED
  BY <1>3, <1>4, Zenon DEF Ahead

LEMMA OrderedNext ==
  ASSUME produced \in Nat, Ordered, LossRemembered, NEW n \in 0 .. 2, NEW kept, NEW rest,
         Accept(n, kept, rest, MarkerDone), QueueStep(kept),
         Unconsumed \in Seq(Entries), stage \in Seq(Entries), fifo \in Seq(Entries),
         held \in Seq(Entries), ~MarkerDone => ((e.gap \/ sticky) => e'.gap)
  PROVE  Ordered'
<1>0. /\ produced' = produced + n /\ kept \in Seq(Entries)
      /\ lost' = (IF MarkerDone THEN {} ELSE lost) \cup (Arrived(n) \ Of(kept))
      /\ Of(kept) \in {{}, Arrived(n)}
  BY Zenon DEF Accept
<1>1. lost' \subseteq Nat
  <2>1. Arrived(n) \subseteq Nat
    BY DEF Arrived
  <2> QED
    BY <1>0, <2>1, Zenon DEF Ordered
<1>2. held' = <<>> \/ \E m \in Nat : held' = <<m>> /\ m <= produced'
  BY Zenon DEF Accept
<1>3. \A x \in Of(Passed) : x = Gap \/ Ahead(x)'
  BY StillAhead DEF Ordered, Ahead
<1>4. ASSUME NEW x \in Of(Waiting)
      PROVE  x \in Nat /\ x <= produced' /\ (~e.gap \/ ~e'.gap => Ahead(x)')
  <2>1. x \in Nat /\ x <= produced /\ (~e.gap => Ahead(x))
    BY Zenon DEF Ordered
  <2>2. x <= produced'
    BY <1>0, <2>1
  <2>3. ASSUME ~e.gap PROVE Ahead(x)'
    BY <2>1, <2>3, StillAhead DEF Ahead
  <2>4. ASSUME ~e'.gap PROVE Ahead(x)'
    <3>1. MarkerDone \/ lost = {}
      BY <2>4, Zenon DEF LossRemembered
    <3> QED
      BY <2>1, <3>1, StillAhead
  <2> QED
    BY <2>1, <2>2, <2>3, <2>4, Zenon
<1>5. ASSUME NEW x \in Of(kept)
      PROVE  x \in Nat /\ x <= produced' /\ (~e'.gap => Ahead(x)')
  <2>1. Of(kept) = Arrived(n)
    BY <1>0, <1>5, Zenon
  <2>2. x \in Nat /\ x <= produced'
    BY <1>0, <2>1 DEF Arrived
  <2>3. ~e'.gap => lost' = {}
    <3>1. Arrived(n) \ Of(kept) = {}
      BY <2>1
    <3>2. ~e'.gap => MarkerDone \/ lost = {}
      BY Zenon DEF LossRemembered
    <3> QED
      BY <1>0, <3>1, <3>2
  <2> QED
    BY <2>2, <2>3, Zenon DEF Ahead
<1>6. /\ Passed \in Seq(Entries) /\ Waiting \in Seq(Entries)
      /\ <<Gap>> \in Seq(Entries) /\ Unconsumed \o <<Gap>> \in Seq(Entries)
      /\ \A x \in Entries : <<x>> \in Seq(Entries)
  BY ConcatProperties DEF Passed, Waiting, Entries
<1>7. /\ \A x \in Of(Passed') : x = Gap \/ Ahead(x)'
      /\ \A x \in Of(Waiting') : x \in Nat /\ x <= produced' /\ (~e'.gap => Ahead(x)')
  <2>1. CASE /\ MarkerDone /\ Unconsumed' \o stage' = (Unconsumed \o <<Gap>>) \o stage
             /\ Waiting' = Waiting \o kept
    <3>1. Passed' = (Unconsumed \o <<Gap>>) \o stage
      BY <2>1, Zenon DEF Passed
    <3>2. Of(Passed') = (Of(Unconsumed) \cup {Gap}) \cup Of(stage)
      <4>1. Of((Unconsumed \o <<Gap>>) \o stage) = Of(Unconsumed \o <<Gap>>) \cup Of(stage)
        BY <1>6, OfConcat, ZenonT(60)
      <4>2. Of(Unconsumed \o <<Gap>>) = Of(Unconsumed) \cup Of(<<Gap>>)
        BY <1>6, OfConcat, ZenonT(60)
      <4> QED
        BY <3>1, <4>1, <4>2, OfFew, Zenon
    <3>3. Of(Passed) = Of(Unconsumed) \cup Of(stage)
      BY OfConcat DEF Passed
    <3>4. Of(Waiting') = Of(Waiting) \cup Of(kept)
      BY <1>0, <1>6, <2>1, OfConcat
    <3> QED
      BY <1>3, <1>4, <1>5, <3>2, <3>3, <3>4, Zenon
  <2>2. CASE ~MarkerDone /\ Passed' = Passed /\ Waiting' = Waiting \o kept
    <3>1. Of(Waiting') = Of(Waiting) \cup Of(kept)
      BY <1>0, <1>6, <2>2, OfConcat
    <3> QED
      BY <1>3, <1>4, <1>5, <2>2, <3>1, Zenon
  <2>3. CASE /\ ~MarkerDone /\ ~e.gap
             /\ \E x \in Entries, w \in Seq(Entries) :
                  Waiting = <<x>> \o w /\ Passed' = Passed \o <<x>> /\ Waiting' = w \o kept
    <3>1. PICK x \in Entries, w \in Seq(Entries) :
                  Waiting = <<x>> \o w /\ Passed' = Passed \o <<x>> /\ Waiting' = w \o kept
      BY <2>3, Zenon
    <3>2. Of(Waiting') = Of(w) \cup Of(kept)
      BY <1>0, <3>1, OfConcat
    <3>3. Of(Waiting) = {x} \cup Of(w)
      <4>1. Of(<<x>> \o w) = Of(<<x>>) \cup Of(w)
        BY <1>6, OfConcat, ZenonT(60)
      <4> QED
        BY <3>1, <4>1, OfFew, Zenon
    <3>4. Of(Passed') = Of(Passed) \cup {x}
      <4>1. Of(Passed \o <<x>>) = Of(Passed) \cup Of(<<x>>)
        BY <1>6, OfConcat, ZenonT(60)
      <4> QED
        BY <3>1, <4>1, OfFew, Zenon
    <3> QED
      BY <1>3, <1>4, <1>5, <2>3, <3>2, <3>3, <3>4, Zenon
  <2> QED
    BY <2>1, <2>2, <2>3, Zenon DEF QueueStep
<1> QED
  BY <1>1, <1>2, <1>7, Zenon DEF Ordered

LEMMA QueueIs ==
  ASSUME Unconsumed \in Seq(Entries), stage \in Seq(Entries), fifo \in Seq(Entries),
         held \in Seq(Entries)
  PROVE  /\ Queue = Passed \o Waiting /\ Queue = Unconsumed \o (stage \o Waiting)
         /\ Passed \in Seq(Entries) /\ Waiting \in Seq(Entries) /\ Queue \in Seq(Entries)
         /\ stage \o Waiting \in Seq(Entries)
<1>1. /\ Passed \in Seq(Entries) /\ Waiting \in Seq(Entries) /\ stage \o Waiting \in Seq(Entries)
  BY ConcatProperties DEF Passed, Waiting
<1>2. (Passed \o fifo) \o held = Passed \o (fifo \o held)
  <2>1. Passed \in Seq(Entries) /\ fifo \in Seq(Entries) /\ held \in Seq(Entries)
    BY <1>1, Zenon
  <2> QED
    BY ONLY <2>1, ConcatAssociative
<1>3. Queue = Passed \o Waiting
  BY <1>2, Zenon DEF Queue, Passed, Waiting
<1>4. (Unconsumed \o stage) \o Waiting = Unconsumed \o (stage \o Waiting)
  BY <1>1, ConcatAssociative, SMTT(60)
<1>5. Queue = Unconsumed \o (stage \o Waiting)
  BY <1>3, <1>4, Zenon DEF Passed
<1>6. Queue \in Seq(Entries)
  BY <1>1, <1>3, ConcatProperties
<1> QED
  BY <1>1, <1>3, <1>5, <1>6, Zenon

\* Without a completed marker the clock only adds to the end of the queue; a
\* completed one goes between the entries in the ring and the others.
LEMMA QueueMoves ==
  ASSUME Unconsumed \in Seq(Entries), stage \in Seq(Entries), fifo \in Seq(Entries),
         held \in Seq(Entries), NEW kept \in Seq(Entries), QueueStep(kept),
         Queue' = Passed' \o Waiting'
  PROVE  Queue' = (IF MarkerDone THEN Stream!InsertAt(Queue, Len(Unconsumed) + 1, Gap)
                                 ELSE Queue) \o kept
<1>1. /\ Queue = Passed \o Waiting /\ Queue = Unconsumed \o (stage \o Waiting)
      /\ Passed \in Seq(Entries) /\ Waiting \in Seq(Entries) /\ Queue \in Seq(Entries)
      /\ stage \o Waiting \in Seq(Entries)
  BY QueueIs
<1>2. CASE /\ MarkerDone /\ Unconsumed' \o stage' = (Unconsumed \o <<Gap>>) \o stage
           /\ Waiting' = Waiting \o kept
  <2> DEFINE u == Unconsumed \o <<Gap>>
  <2>1. Gap \in Entries /\ u \in Seq(Entries) /\ u \o stage \in Seq(Entries)
    <3>1. <<Gap>> \in Seq(Entries) /\ Gap \in Entries
      BY DEF Entries
    <3>2. u \in Seq(Entries)
      BY <3>1, ConcatProperties
    <3> HIDE DEF u
    <3> QED
      BY <3>1, <3>2, ConcatProperties
  <2>2. Stream!InsertAt(Queue, Len(Unconsumed) + 1, Gap) = u \o (stage \o Waiting)
    <3>1. Stream!InsertAt(Unconsumed \o (stage \o Waiting), Len(Unconsumed) + 1, Gap)
            = (Unconsumed \o <<Gap>>) \o (stage \o Waiting)
      BY <1>1, <2>1, InsertBetween
    <3> QED
      BY <1>1, <3>1
  <2> HIDE DEF u
  <2>3. Queue' = (u \o stage) \o (Waiting \o kept)
    BY <1>2, Zenon DEF Passed, u
  <2>4. (u \o stage) \o (Waiting \o kept) = ((u \o stage) \o Waiting) \o kept
    <3> DEFINE a == u \o stage
    <3>1. a \in Seq(Entries) /\ Waiting \in Seq(Entries) /\ kept \in Seq(Entries)
      BY <1>1, <2>1, Zenon
    <3> HIDE DEF a
    <3>2. a \o (Waiting \o kept) = (a \o Waiting) \o kept
      BY ONLY <3>1, ConcatAssociative
    <3> QED
      BY <3>2, Zenon DEF a
  <2>5. (u \o stage) \o Waiting = u \o (stage \o Waiting)
    <3>1. u \in Seq(Entries) /\ stage \in Seq(Entries) /\ Waiting \in Seq(Entries)
      BY <1>1, <2>1, Zenon
    <3> QED
      BY ONLY <3>1, ConcatAssociative
  <2> QED
    BY <1>2, <2>2, <2>3, <2>4, <2>5, Zenon
<1>3. CASE ~MarkerDone /\ Passed' = Passed /\ Waiting' = Waiting \o kept
  <2>1. Passed \o (Waiting \o kept) = (Passed \o Waiting) \o kept
    <3>1. Passed \in Seq(Entries) /\ Waiting \in Seq(Entries) /\ kept \in Seq(Entries)
      BY <1>1, Zenon
    <3> QED
      BY ONLY <3>1, ConcatAssociative
  <2> QED
    BY <1>1, <1>3, <2>1, Zenon
<1>4. CASE /\ ~MarkerDone /\ ~e.gap
           /\ \E x \in Entries, w \in Seq(Entries) :
                Waiting = <<x>> \o w /\ Passed' = Passed \o <<x>> /\ Waiting' = w \o kept
  <2>1. PICK x \in Entries, w \in Seq(Entries) :
                Waiting = <<x>> \o w /\ Passed' = Passed \o <<x>> /\ Waiting' = w \o kept
    BY <1>4, Zenon
  <2> DEFINE h == <<x>>
  <2>2. h \in Seq(Entries)
    OBVIOUS
  <2>3. Waiting = h \o w /\ Queue' = (Passed \o h) \o (w \o kept)
    BY <2>1, Zenon
  <2> HIDE DEF h
  <2>4. Passed \o h \in Seq(Entries)
    BY <1>1, <2>2, ConcatProperties
  <2>5. (Passed \o h) \o (w \o kept) = ((Passed \o h) \o w) \o kept
    <3> DEFINE a == Passed \o h
    <3>1. a \in Seq(Entries) /\ w \in Seq(Entries) /\ kept \in Seq(Entries)
      BY <2>4, Zenon
    <3> HIDE DEF a
    <3>2. a \o (w \o kept) = (a \o w) \o kept
      BY ONLY <3>1, ConcatAssociative
    <3> QED
      BY <3>2, Zenon DEF a
  <2>6. (Passed \o h) \o w = Passed \o (h \o w)
    <3>1. Passed \in Seq(Entries) /\ h \in Seq(Entries) /\ w \in Seq(Entries)
      BY <1>1, <2>2, Zenon
    <3> QED
      BY ONLY <3>1, ConcatAssociative
  <2> QED
    BY <1>1, <1>4, <2>3, <2>5, <2>6, Zenon
<1> QED
  BY <1>2, <1>3, <1>4, Zenon DEF QueueStep

LEMMA SupplyStep ==
  ASSUME NEW n \in 0 .. 2, NEW kept \in Seq(Entries), NEW rest,
         Accept(n, kept, rest, MarkerDone),
         Unconsumed \in Seq(Entries), Queue \in Seq(Entries),
         Queue' = (IF MarkerDone THEN Stream!InsertAt(Queue, Len(Unconsumed) + 1, Gap)
                                 ELSE Queue) \o kept,
         MarkerDone => Len(Unconsumed) <= Len(Queue) /\ Stream!Mark(Len(Unconsumed))
  PROVE  Stream!Supply
<1> DEFINE p == IF MarkerDone THEN Len(Unconsumed) ELSE Len(Queue) + 1
<1>1. /\ p \in {Len(Queue) + 1} \cup 0 .. Len(Queue)
      /\ (p <= Len(Queue)) <=> MarkerDone
      /\ MarkerDone => p = Len(Unconsumed)
  <2>1. Len(Unconsumed) \in Nat /\ Len(Queue) \in Nat
    BY LenProperties
  <2> QED
    BY <2>1
<1>2. Stream!ToSet(kept) = Of(kept)
  <2>1. DOMAIN kept = 1 .. Len(kept)
    OBVIOUS
  <2> QED
    BY <2>1, Zenon DEF Stream!ToSet, Of
<1> HIDE DEF p
<1>3. kept \in Stream!Arrivals
  BY Zenon DEF Stream!Arrivals, Accept
<1>4. /\ produced' = produced + n /\ produced + n <= MaxRecords
      /\ Of(kept) \subseteq (produced + 1) .. (produced + n)
      /\ lost' = (IF MarkerDone THEN {} ELSE lost)
                   \cup (((produced + 1) .. (produced + n)) \ Of(kept))
      /\ dropped' = (dropped \/ Of(kept) # (produced + 1) .. (produced + n))
  BY Zenon DEF Accept, Arrived
<1>5. Queue' = (IF p <= Len(Queue) THEN Stream!InsertAt(Queue, p + 1, Gap) ELSE Queue) \o kept
  BY <1>1, Zenon
<1>6. p <= Len(Queue) => Stream!Mark(p)
  BY <1>1, Zenon
<1>7. lost' = (IF p <= Len(Queue) THEN {} ELSE lost)
                 \cup (((produced + 1) .. (produced + n)) \ Of(kept))
  BY <1>1, <1>4, Zenon
<1> QED
  BY <1>1, <1>2, <1>3, <1>4, <1>5, <1>6, <1>7, Zenon DEF Stream!Supply, Queue

LEMMA ClockStep ==
  ASSUME PathInv, Clock, RingInv', IInv'
  PROVE  PathInv' /\ Stream!Supply
<1>1. PICK flush \in Flushes, axi \in Answers : Engine(flush, axi)
  BY DEF Clock
<1>2. PICK bus \in 0..2, direct \in Offers : Captures(bus, direct)
  BY DEF Clock
<1>3. Stages /\ Lands /\ rd' = rd
  BY Zenon DEF Clock, cpu
<1>4. /\ RingInv /\ Landed /\ Ordered /\ Owed /\ IInv /\ produced \in Nat
      /\ LossRemembered
  BY Zenon DEF PathInv, IInv, Flags
<1>5. Landed'
  BY <1>1, <1>3, <1>4, LandedNext, Zenon
<1> DEFINE rest == IF Pull THEN Tail(fifo) ELSE fifo
<1>6. /\ Unconsumed \in Seq(Entries) /\ stage \in Seq(Entries) /\ fifo \in Seq(Entries)
      /\ held \in Seq(Entries)
  BY <1>4, PathTypes, Zenon
<1>7. rest \in Seq(Entries)
  <2>1. CASE Pull
    <3>1. fifo # <<>>
      BY <2>1, Zenon DEF Pull
    <3> QED
      BY <1>6, <2>1, <3>1, HeadTailProperties, Zenon
  <2>2. CASE ~Pull
    BY <1>6, <2>2, Zenon
  <2> QED
    BY <2>1, <2>2, Zenon
<1>8. held = <<>> \/ \E m \in Nat : held = <<m>> /\ m <= produced
  BY <1>4, Zenon DEF Ordered
<1>9. Moving(rest)
  BY <1>1, <1>3, <1>4, <1>5, EngineQueue, Zenon
<1>10. PICK n \in 0 .. 2 : Capture(n, rest, MarkerDone)
  BY <1>2, <1>4, <1>8, Captured, Zenon
<1> HIDE DEF rest
<1>11. PICK kept : Accept(n, kept, rest, MarkerDone)
  BY <1>4, <1>6, <1>7, <1>8, <1>10, CaptureAccepts, Zenon
<1>12. kept \in Seq(Entries)
  BY <1>11, Zenon DEF Accept
<1>13. QueueStep(kept)
  BY <1>6, <1>7, <1>9, <1>11, Stepping, Zenon
<1>14. ~MarkerDone => ((e.gap \/ sticky) => e'.gap)
  BY <1>1, <1>4, EngineKeeps, Zenon DEF IInv
<1>15. Ordered'
  BY <1>4, <1>6, <1>11, <1>13, <1>14, OrderedNext, Zenon
<1>16. Owed'
  BY <1>1, <1>4, <1>11, OwedNext, Zenon
<1>17. PathInv'
  BY <1>5, <1>15, <1>16, Zenon DEF PathInv
<1>18. Queue' = (IF MarkerDone THEN Stream!InsertAt(Queue, Len(Unconsumed) + 1, Gap)
                               ELSE Queue) \o kept
  <2>1. /\ Unconsumed' \in Seq(Entries) /\ stage' \in Seq(Entries) /\ fifo' \in Seq(Entries)
        /\ held' \in Seq(Entries)
    <3>1. /\ RingInv' /\ Landed'
      BY <1>5, Zenon
    <3>2. /\ \A q \in Seq(Nat) : q \in Seq(Entries)
      BY NatsAreEntries
    <3>3. ring' \in [Slots -> Entries] /\ rd' \in Slots /\ e'.producer \in Slots
      BY <3>1, Zenon DEF Landed, RingInv, Pointers, Entries
    <3>4. Unconsumed' = Stretch(ring', rd', e'.producer)
      BY Zenon DEF Unconsumed, Stretch
    <3>5. Unconsumed' \in Seq(Entries)
      BY <3>3, <3>4, StretchIs, Zenon
    <3> QED
      BY <3>1, <3>2, <3>5, Zenon DEF RingInv, Contents
  <2>2. (Unconsumed' \o stage' \o fifo') \o held' = (Unconsumed' \o stage') \o (fifo' \o held')
    <3> DEFINE a == Unconsumed' \o stage'
    <3>1. a \in Seq(Entries)
      BY <2>1, ConcatProperties
    <3> HIDE DEF a
    <3>2. (a \o fifo') \o held' = a \o (fifo' \o held')
      BY ONLY <2>1, <3>1, ConcatAssociative, SMTT(60)
    <3> QED
      BY <3>2, Zenon DEF a
  <2>3. Queue' = Passed' \o Waiting'
    BY <2>2, Zenon DEF Queue, Passed, Waiting
  <2> QED
    BY <1>6, <1>12, <1>13, <2>3, QueueMoves, Zenon
<1>19. ASSUME MarkerDone
       PROVE  Len(Unconsumed) <= Len(Queue) /\ Stream!Mark(Len(Unconsumed))
  <2>1. e.gap
    BY <1>4, <1>19, Zenon DEF Owed, MarkerDone, InFlight
  <2>2. Lossless => dropped
    BY <1>4, <2>1, Zenon DEF Owed
  <2>3. /\ Queue = Unconsumed \o (stage \o Waiting) /\ stage \o Waiting \in Seq(Entries)
    BY <1>6, QueueIs, Zenon
  <2> DEFINE t == stage \o Waiting
  <2> HIDE DEF t
  <2>4. /\ Len(Queue) = Len(Unconsumed) + Len(t) /\ Len(Unconsumed) \in Nat /\ Len(t) \in Nat
        /\ \A i \in 1 .. Len(Unconsumed) : Queue[i] = Unconsumed[i]
    <3>1. t \in Seq(Entries) /\ Queue = Unconsumed \o t
      BY <2>3 DEF t
    <3>2. \A i \in 1 .. Len(Unconsumed) :
            i \in 1 .. Len(Unconsumed) + Len(t) /\ i <= Len(Unconsumed)
      BY <1>6, <3>1, LenProperties
    <3> QED
      BY <1>6, <3>1, <3>2, ConcatProperties, LenProperties
  <2>5. \A i \in 1 .. Len(Unconsumed) : Unconsumed[i] = Gap \/ \A l \in lost : Unconsumed[i] < l
    <3>1. Of(Passed) = Of(Unconsumed) \cup Of(stage)
      BY <1>6, OfConcat DEF Passed
    <3>2. \A i \in 1 .. Len(Unconsumed) : Unconsumed[i] \in Of(Passed)
      BY <3>1, Zenon DEF Of
    <3> QED
      BY <1>4, <3>2, Zenon DEF Ordered, Ahead
  <2>6. Len(Unconsumed) <= Len(Queue)
    BY <2>4
  <2>7. \A i \in 1 .. Len(Unconsumed) : Queue[i] = Gap \/ \A l \in lost : Queue[i] < l
    BY <2>4, <2>5, Zenon
  <2>8. Stream!Mark(Len(Unconsumed))
    BY <2>2, <2>7, Zenon DEF Stream!Mark, Queue
  <2> QED
    BY <2>6, <2>8
<1>20. Queue \in Seq(Entries)
  BY <1>6, QueueIs, Zenon
<1>21. Stream!Supply
  BY <1>6, <1>11, <1>12, <1>18, <1>19, <1>20, SupplyStep, Zenon
<1> QED
  BY <1>17, <1>21

LEMMA TailConcat ==
  ASSUME NEW S, NEW u \in Seq(S), NEW t \in Seq(S), u # <<>>
  PROVE  u \o t # <<>> /\ Head(u \o t) = Head(u) /\ Tail(u \o t) = Tail(u) \o t
<1> DEFINE q == u \o t
           a == Tail(q)
           b == Tail(u) \o t
<1>1. Len(u) \in Nat /\ Len(t) \in Nat /\ Len(u) > 0
  BY EmptySeq, LenProperties
<1>2. /\ q \in Seq(S) /\ Len(q) = Len(u) + Len(t)
      /\ \A i \in 1 .. Len(u) + Len(t) : q[i] = IF i <= Len(u) THEN u[i] ELSE t[i - Len(u)]
  BY ConcatProperties
<1> HIDE DEF q
<1>3. q # <<>> /\ q[1] = u[1]
  BY <1>1, <1>2
<1>4. Head(q) = q[1] /\ Head(u) = u[1]
  BY <1>2, <1>3
<1>5. /\ a \in Seq(S) /\ Len(a) = Len(q) - 1
      /\ \A i \in 1 .. Len(a) : a[i] = q[i + 1]
  BY <1>2, <1>3, HeadTailProperties
<1>6. /\ Tail(u) \in Seq(S) /\ Len(Tail(u)) = Len(u) - 1
      /\ \A i \in 1 .. Len(Tail(u)) : Tail(u)[i] = u[i + 1]
  BY HeadTailProperties
<1> DEFINE v == Tail(u)
<1> HIDE DEF v
<1>7. /\ b \in Seq(S) /\ Len(b) = Len(v) + Len(t)
      /\ \A i \in 1 .. Len(v) + Len(t) : b[i] = IF i <= Len(v) THEN v[i] ELSE t[i - Len(v)]
  BY <1>6, ConcatProperties DEF v
<1>8. Len(v) = Len(u) - 1 /\ \A i \in 1 .. Len(v) : v[i] = u[i + 1]
  BY <1>6 DEF v
<1> HIDE DEF a, b
<1>9. Len(a) = Len(b) /\ Len(a) = Len(u) - 1 + Len(t)
  BY <1>1, <1>2, <1>5, <1>7, <1>8
<1>10. ASSUME NEW i \in 1 .. Len(a) PROVE a[i] = b[i]
  <2>1. /\ i \in 1 .. Len(v) + Len(t) /\ i + 1 \in 1 .. Len(u) + Len(t)
        /\ (i <= Len(v) <=> i + 1 <= Len(u)) /\ (i <= Len(v) => i \in 1 .. Len(v))
        /\ i - Len(v) = (i + 1) - Len(u)
    BY <1>1, <1>8, <1>9
  <2>2. a[i] = IF i + 1 <= Len(u) THEN u[i + 1] ELSE t[(i + 1) - Len(u)]
    BY <1>2, <1>5, <2>1, Zenon
  <2>3. b[i] = IF i <= Len(v) THEN v[i] ELSE t[i - Len(v)]
    BY <1>7, <2>1, Zenon
  <2> QED
    BY <1>8, <2>1, <2>2, <2>3, Zenon
<1>11. a = b
  BY <1>5, <1>7, <1>9, <1>10, SeqEqual, Zenon
<1> QED
  BY <1>3, <1>4, <1>11 DEF a, b, q

LEMMA DeliverStep ==
  ASSUME PathInv, Deliver, RingInv', IInv'
  PROVE  PathInv' /\ Stream!Deliver
<1>1. /\ RingInv /\ Landed /\ Ordered /\ Owed
      /\ UNCHANGED <<stage, e, ring, produced, held, fifo, sticky, dropped, lost>>
  BY DEF PathInv, Deliver, engine, capture
<1>2. /\ ring \in [Slots -> Entries] /\ rd \in Slots /\ e.producer \in Slots
      /\ Unconsumed = Stretch(ring, rd, e.producer) /\ Unconsumed \in Seq(Entries)
      /\ stage \in Seq(Entries) /\ fifo \in Seq(Entries) /\ held \in Seq(Entries)
  BY <1>1, PathTypes, Zenon
<1>3. rd' = After(rd) /\ From(rd, e.producer) > 0
  BY <1>1, DeliverLeft
<1>4. Unconsumed # <<>> /\ Unconsumed' = Tail(Unconsumed)
  <2>1. Unconsumed' = Stretch(ring, After(rd), e.producer)
    BY <1>1, <1>3, Zenon DEF Unconsumed, Stretch
  <2> QED
    BY <1>2, <1>3, <2>1, StretchShrinks, Zenon
<1>5. /\ Queue = Unconsumed \o (stage \o Waiting) /\ stage \o Waiting \in Seq(Entries)
      /\ Queue \in Seq(Entries) /\ Queue = Passed \o Waiting
  BY <1>2, QueueIs, Zenon
<1>6. Unconsumed' \in Seq(Entries) /\ Waiting' = Waiting
  BY <1>1, <1>2, <1>4, HeadTailProperties, Zenon DEF Waiting
<1>7. Queue' = Tail(Unconsumed) \o (stage \o Waiting)
  <2> DEFINE u == Tail(Unconsumed)
  <2>1. u \in Seq(Entries)
    BY <1>4, <1>6
  <2>2. Queue' = u \o stage \o fifo \o held
    BY <1>1, <1>4, Zenon DEF Queue
  <2> HIDE DEF u
  <2>3. u \o stage \o fifo \o held = u \o (stage \o (fifo \o held))
    <3> DEFINE a == u \o stage
               b == fifo \o held
    <3>1. a \in Seq(Entries) /\ b \in Seq(Entries)
      BY <1>2, <2>1, ConcatProperties
    <3> HIDE DEF b
    <3>2. (u \o stage) \o b = u \o (stage \o b)
      <4>1. u \in Seq(Entries) /\ stage \in Seq(Entries) /\ b \in Seq(Entries)
        BY <1>2, <2>1, <3>1, Zenon
      <4> QED
        BY ONLY <4>1, ConcatAssociative
    <3> HIDE DEF a
    <3>3. (a \o fifo) \o held = a \o (fifo \o held)
      <4>1. a \in Seq(Entries) /\ fifo \in Seq(Entries) /\ held \in Seq(Entries)
        BY <1>2, <3>1, Zenon
      <4> QED
        BY ONLY <4>1, ConcatAssociative
    <3> QED
      BY <3>2, <3>3, Zenon DEF a, b
  <2> QED
    BY <2>2, <2>3, Zenon DEF u, Waiting
<1>8. Queue # <<>> /\ Head(Queue) = Head(Unconsumed) /\ Queue' = Tail(Queue)
  <2> DEFINE t == stage \o Waiting
  <2>1. t \in Seq(Entries) /\ Queue = Unconsumed \o t /\ Queue' = Tail(Unconsumed) \o t
    BY <1>5, <1>7, Zenon
  <2> HIDE DEF t
  <2>2. /\ Unconsumed \o t # <<>> /\ Head(Unconsumed \o t) = Head(Unconsumed)
        /\ Tail(Unconsumed \o t) = Tail(Unconsumed) \o t
    BY ONLY <1>2, <1>4, <2>1, TailConcat
  <2> QED
    BY <2>1, <2>2, Zenon
<1>9. Of(Passed) = Of(Unconsumed) \cup Of(stage)
  BY <1>2, OfConcat DEF Passed
<1>10. Of(Passed') \subseteq Of(Passed)
  <2> DEFINE u == Unconsumed
  <2>1. u = <<Head(u)>> \o Tail(u) /\ Head(u) \in Entries /\ Tail(u) \in Seq(Entries)
    BY <1>2, <1>4, SplitHead, HeadTailProperties
  <2> HIDE DEF u
  <2>2. Of(u) = Of(<<Head(u)>>) \cup Of(Tail(u))
    <3>1. <<Head(u)>> \in Seq(Entries)
      BY <2>1
    <3>2. Of(<<Head(u)>> \o Tail(u)) = Of(<<Head(u)>>) \cup Of(Tail(u))
      BY <2>1, <3>1, OfConcat, ZenonT(60)
    <3> QED
      BY <2>1, <3>2, Zenon
  <2>3. Passed' = Tail(u) \o stage
    BY <1>1, <1>4, Zenon DEF Passed, u
  <2>4. Of(Passed') = Of(Tail(u)) \cup Of(stage)
    BY <1>2, <2>1, <2>3, OfConcat, ZenonT(60)
  <2> QED
    BY <1>9, <2>2, <2>4, Zenon DEF u
<1>11. Ordered'
  <2>1. \A x : Ahead(x) => Ahead(x)'
    BY <1>1, Zenon DEF Ahead
  <2> QED
    BY <1>1, <1>6, <1>10, <2>1, Zenon DEF Ordered
<1>12. Landed' /\ Owed'
  BY <1>1, Zenon DEF Landed, Owed, InFlight
<1>13. PathInv'
  BY <1>11, <1>12, Zenon DEF PathInv
<1>14. Head(Queue) # Gap => \A l \in lost : Head(Queue) < l
  <2>1. Head(Unconsumed) \in Of(Unconsumed)
    <3>1. 1 \in 1 .. Len(Unconsumed) /\ Head(Unconsumed) = Unconsumed[1]
      BY <1>2, <1>4, EmptySeq, LenProperties
    <3> QED
      BY <3>1, Zenon DEF Of
  <2> QED
    BY <1>1, <1>8, <1>9, <2>1, Zenon DEF Ordered, Ahead
<1>15. Stream!Deliver
  BY <1>1, <1>8, <1>14, Zenon DEF Stream!Deliver, Queue
<1> QED
  BY <1>13, <1>15

LEMMA PathNext == PathInv /\ [Next]_vars => PathInv' /\ [Stream!Next]_Stream!vars
<1> SUFFICES ASSUME PathInv, [Next]_vars PROVE PathInv' /\ [Stream!Next]_Stream!vars
  OBVIOUS
<1>1. RingInv' /\ IInv'
  <2>1. RingInv /\ IInv /\ produced \in Nat
    BY Zenon DEF PathInv, IInv, Flags
  <2> QED
    BY <2>1, RingNext, StepInv, Zenon
<1>2. CASE Clock
  BY <1>1, <1>2, ClockStep, Zenon DEF Stream!Next
<1>3. CASE Deliver
  BY <1>1, <1>3, DeliverStep, Zenon DEF Stream!Next
<1>4. CASE Poll \/ Publish \/ UNCHANGED vars
  <2>1. UNCHANGED <<stage, e, ring, rd, produced, held, fifo, sticky, dropped, lost>>
    BY <1>4 DEF Poll, Publish, vars, engine, capture, cpu
  <2>2. UNCHANGED <<Unconsumed, Queue, Passed, Waiting>>
    BY <2>1, Zenon DEF Unconsumed, Queue, Passed, Waiting
  <2>3. Landed' /\ Owed' /\ Ordered'
    <3>1. Landed /\ Owed /\ Ordered
      BY Zenon DEF PathInv
    <3>2. \A x : Ahead(x) => Ahead(x)'
      BY <2>1, Zenon DEF Ahead
    <3>3. Ordered'
      BY <2>1, <2>2, <3>1, <3>2, Zenon DEF Ordered
    <3> QED
      BY <2>1, <3>1, <3>3, Zenon DEF Landed, Owed, InFlight
  <2> QED
    BY <1>1, <2>1, <2>2, <2>3, Zenon DEF PathInv, Stream!vars, Queue
<1> QED
  BY <1>2, <1>3, <1>4, Zenon DEF Next

\* The record path keeps order, loses only by dropping at its entry, puts a
\* marker ahead of every record that follows a loss and, when lossless, a
\* marker only if a record was dropped (apple_cycle_egress.sv,
\* apple_cycle_egress.c:195-338).
THEOREM PathKeepsOrder == Spec => ImplementsMarkedStream
<1>1. PathInv => (Init => Stream!Init)
  <2> SUFFICES ASSUME PathInv, Init PROVE Stream!Init
    OBVIOUS
  <2>1. produced = 0 /\ held = <<>> /\ fifo = <<>> /\ stage = <<>> /\ lost = {} /\ dropped = FALSE
    BY DEF Init
  <2>2. Unconsumed = <<>>
    BY InitEmpty
  <2>3. <<>> \o <<>> = <<>>
    OBVIOUS
  <2> QED
    BY <2>1, <2>2, <2>3, Zenon DEF Stream!Init
<1> QED
  BY <1>1, PathInit, PathNext, PTL DEF Spec, ImplementsMarkedStream, Stream!Spec
==============================================================================
