---------------------------- MODULE PsramTiming ----------------------------
(***************************************************************************)
(* The schedule of the PSRAM, one step per fabric clock: the background    *)
(* window of hdl/apple/psram_simple.sv, the command tapes and the rest of  *)
(* hdl/apple/psram_driver.sv, the strobes of hdl/apple/apple_bus_wrapper.sv *)
(* and the handover of hdl/apple/vtw_bus_engine.sv.  Addresses and data    *)
(* are left out: they stand in PsramQueue.                                 *)
(***************************************************************************)
EXTENDS Naturals

CONSTANTS
    CycleClks,          \* the lengths of an Apple cycle, in clocks
    Depth               \* entries of the write queue

\* Clocks after the fall of PHI0 at which the strobes come, and at which the
\* card must have its data (TAP_DATA_EMIT after the rise of PHI0 at 65).
DriveEn == 8
AddrEn  == 25
SssEn   == 26
DataEn  == 124
DataDue == 90

\* admit_delay_q and admit_window_q, both loaded by addr_en.
AdmitDelay == 3
AdmitWindow == 40

Commands == {"qpi", "wrap", "read", "write"}

\* Clocks a command holds CE low and clocks until its useful work ends.  The
\* tapes of 31 bits (read, wrap) start with one bit more, a zero.
CeLow == [qpi |-> 9, wrap |-> 4, read |-> 25, write |-> 17]
Useful == [qpi |-> 8, wrap |-> 2, read |-> 24, write |-> 16]

\* ce_rest_cycles: with the clocks around it, the rest of 50 ns of the chip.
RestCount == 4

VARIABLES
    t,          \* clocks since PHI0 fell
    st,         \* the state of psram_simple
    budget,     \* this cycle may still admit background work
    queued,     \* bytes in the write queue
    pending,    \* a write waits for its data_en
    park,       \* a patched line waits
    cmd,        \* the command offered to the driver (psram_valid), or "none"
    op,         \* the command the driver works on
    slot,       \* clocks since it was accepted, 0 when its tape has run out
    busy,       \* the driver's state
    rest,       \* ce_rest_cycles
    rvalid,     \* the completion pulse
    bus,        \* who owns the bus: "native", "grace", "owned", "guard"
    drain       \* owned_drain_q

vars == <<t, st, budget, queued, pending, park, cmd, op, slot, busy, rest, rvalid, bus,
          drain>>

Starting == st \in {"boot", "bootQpi", "bootWrap", "waitWrap"}

Init ==
    /\ t \in 0 .. DataEn
    /\ st = "boot"
    /\ budget = FALSE
    /\ queued = 0 /\ pending = FALSE /\ park = FALSE
    /\ cmd = "none" /\ op = "qpi" /\ slot = 0
    /\ busy = FALSE /\ rest = 0 /\ rvalid = FALSE
    /\ bus = "native" /\ drain = FALSE

-----------------------------------------------------------------------------
(* The driver.                                                             *)

Ready == ~busy /\ rest = 0 /\ ~rvalid

Accept == cmd # "none" /\ Ready

OpDone == busy /\ slot = 2 + Useful[op]

\* The rest is counted from the clock after CE was seen to rise.
RestNext ==
    IF slot = 2 + CeLow[op] THEN RestCount ELSE IF rest = 0 THEN 0 ELSE rest - 1

Driver ==
    /\ op' = IF Accept THEN cmd ELSE op
    /\ slot' = IF Accept THEN 1
               ELSE IF slot \in {0, 2 + CeLow[op]} THEN 0 ELSE slot + 1
    /\ busy' = (Accept \/ (busy /\ ~OpDone))
    /\ rvalid' = OpDone
    /\ rest' = RestNext

-----------------------------------------------------------------------------
(* The bus: its cycles, and the accelerator taking it and giving it back   *)
(* at the drive point, with a cycle of grace or guard between.  A II+ that *)
(* is reset stays in the guarded state and may take the bus again.         *)

Cycle ==
    t' \in (IF t + 1 \in CycleClks THEN {0} ELSE {})
           \cup (IF \E l \in CycleClks : l > t + 1 THEN {t + 1} ELSE {})

Owned == bus = "owned"

Handover ==
    \/ bus = "native" /\ bus' \in {"native", "grace"}
    \/ bus \in {"grace", "owned"} /\ bus' \in {"owned", "guard"}
    \/ bus = "guard" /\ bus' \in {"guard", "owned", "native"}

Ownership ==
    /\ IF t = DriveEn THEN Handover ELSE bus' = bus
    /\ drain' = (Owned \/ (drain /\ ~(st = "idle" /\ cmd = "none" /\ Ready)))

-----------------------------------------------------------------------------
(* The arbiter.  a is what the Apple does in this cycle, known at sss_en:  *)
(* a write, a read that the queue answers ("hit") or the chip must, none.  *)

Served(a) == t = SssEn /\ a \in {"hit", "read"} /\ ~Owned /\ ~drain

\* A bug: an armed cycle stays open until the next one.
NeverCloses == t \notin AddrEn + 1 .. AddrEn + AdmitDelay

WindowOpen == t \in AddrEn + AdmitDelay + 1 .. AddrEn + AdmitWindow

CanAdmit == Owned \/ (~drain /\ budget /\ WindowOpen)

\* Background work starts on this clock, if there is any.
Admits(a) == st = "idle" /\ ~Served(a) /\ CanAdmit

Offer(c) == cmd' = c

Hold == cmd' = IF Accept THEN "none" ELSE cmd

\* The chip is initialised before anything is served.
Boot ==
    \/ st = "boot" /\ st' = "bootQpi" /\ Offer("qpi") /\ park' = park
    \/ st = "bootWrap" /\ st' = "waitWrap" /\ Offer("wrap") /\ park' = park

Serve(a) ==
    /\ Served(a) /\ a = "read"
    /\ st \in {"idle", "issue"}
    /\ st' = "serve" /\ Offer("read")
    /\ park' = (park \/ st = "issue")

AdmitParked(a) ==
    /\ Admits(a) /\ park
    /\ st' = "wait" /\ Offer("write")
    /\ park' = FALSE

AdmitRmw(a) ==
    /\ Admits(a) /\ ~park /\ queued > 0
    /\ st' = "rmw" /\ Offer("read")
    /\ park' = park

\* A bug: the ports do not wait for the queue.
PortFirst(a) ==
    /\ Admits(a) /\ ~park
    /\ st' = "port" /\ (Offer("read") \/ Offer("write"))
    /\ park' = park

AdmitPort(a) ==
    /\ Admits(a) /\ ~park /\ queued = 0
    /\ st' = "port" /\ (Offer("read") \/ Offer("write"))
    /\ park' = park

\* The line has been read and patched: its write follows in the same window.
Issue(a) ==
    /\ st = "issue" /\ Ready /\ ~Served(a)
    /\ st' = "wait" /\ Offer("write")
    /\ park' = park

Completed ==
    /\ rvalid
    /\ \/ st \in {"serve", "wait", "port", "waitWrap"} /\ st' = "idle"
       \/ st = "rmw" /\ st' = "issue"
       \/ st = "bootQpi" /\ st' = "bootWrap"
    /\ Hold /\ park' = park

Waiting(a) ==
    /\ \/ st \in {"serve", "wait", "port", "rmw", "bootQpi", "waitWrap"} /\ ~rvalid
       \/ st = "issue" /\ (~Ready \/ Served(a))
       \/ st = "idle" /\ (Admits(a) => ~park /\ queued = 0)
    /\ ~(Served(a) /\ a = "read" /\ st \in {"idle", "issue"})
    /\ st' = st /\ Hold /\ park' = park

Machine(a) ==
    \/ Boot \/ Serve(a) \/ AdmitParked(a) \/ AdmitRmw(a) \/ AdmitPort(a)
    \/ Issue(a) \/ Completed \/ Waiting(a)

Budget(a) ==
    budget' = (t = AddrEn \/ (budget /\ ~Served(a) /\ (Admits(a) => st' = "idle")))

\* A push and the retirement of the head may fall on one clock.
Queue(a) ==
    /\ pending' = ((t = SssEn /\ a = "write") \/ (pending /\ t # DataEn))
    /\ queued' = queued + (IF pending /\ t = DataEn /\ queued < Depth THEN 1 ELSE 0)
                        - (IF st = "wait" /\ rvalid THEN 1 ELSE 0)

Access == IF t # SssEn THEN {"none"}
          ELSE {"none", "write", "read"} \cup (IF queued > 0 THEN {"hit"} ELSE {})

Clock(a) == Cycle /\ Ownership /\ Machine(a) /\ Budget(a) /\ Queue(a) /\ Driver

Next == \E a \in Access : Clock(a)

Spec == Init /\ [][Next]_vars

-----------------------------------------------------------------------------
\* dbg_deadline_miss_count and dbg_serve_late_count stay zero: when a native
\* cycle asks for a byte the chip is free or can be taken back from a patched
\* line, the drain of the accelerator's work is over, and the byte is there
\* before the card must drive it.
ServedInTime ==
    /\ t = SssEn /\ bus \in {"native", "grace"} /\ ~Starting =>
          st \in {"idle", "issue"} /\ ~drain
    /\ st = "serve" => t \in SssEn + 1 .. DataDue

\* dbg_wq_drop_count stays zero: there is room for every byte the Apple
\* writes, however it mixes reads with writes and the other ports press.
NoWriteDropped == pending /\ t = DataEn => queued < Depth

=============================================================================
