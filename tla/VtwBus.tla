------------------------------- MODULE VtwBus -------------------------------
(***************************************************************************)
(* hdl/apple/vtw_bus_engine.sv and its requester in vtw_core_top.sv: the   *)
(* accelerator takes the Apple's bus by /DMA, issues the core's posted     *)
(* writes and synchronous accesses as bus cycles, and hands the bus back   *)
(* at a reset of the Apple or when it is disabled.                         *)
(*                                                                         *)
(* Steps are the strobes drive_en and data_en, the clocks of the posted    *)
(* pipeline between them, the core's moves, and changes of enable and RES#. *)
(* What the code does on every clock in which an input has a new level is  *)
(* part of the step that changes it.  Left out: the mirror of TURBO video, *)
(* posts and requests of the ARM, and the data direction on a II+.         *)
(***************************************************************************)
EXTENDS Naturals, Sequences

CONSTANTS
    Stock,              \* STOCK_RUN_CYCLES
    Depth, Margin,      \* POST_DEPTH, POST_FULL_MARGIN
    Write, Access, Barriers, None

ASSUME VtwAssumption ==
    /\ Stock \in Nat /\ Depth \in Nat /\ Margin \in 1 .. Depth - 1
    /\ Barriers \subseteq Access
    /\ None \notin Write \cup Access
    /\ {"access", "orphan"} \cap (Write \cup {None}) = {}

VARIABLES
    iiplus,     \* the host is a II or II+
    enable, res,            \* the engine's enable, RES# high
    enOld, resOld,          \* that level has lasted for a drive_en
    phase,      \* the last strobe: "drive" or "data"
    session,    \* session_q
    count,      \* stock_run_cnt_q
    dma, drives,            \* assert_dma_q, wr_addr_rw_en_q
    cyc,        \* cyc_q
    posted,     \* the posted write queue
    reg,        \* the write fetched from it or on the bus, or None
    pending,    \* the latched request, or None
    resp,       \* resp_valid_q
    stage,      \* the requester's post stage, or None
    want,       \* the access the core waits for, or None
    inflight,   \* req_inflight_q
    awake,      \* the core has had an answer since its reset
    ran,        \* history: cycles the Apple has run by itself, up to Stock
    kept        \* history: enable has been high ever since the bus was taken

vars == <<iiplus, enable, res, enOld, resOld, phase, session, count, dma, drives, cyc, posted,
          reg, pending, resp, stage, want, inflight, awake, ran, kept>>
inputs == <<iiplus, enable, res, enOld, resOld>>
engine == <<session, count, dma, drives, ran, kept>>
core   == <<stage, want, inflight, awake>>

Init ==
    /\ iiplus \in BOOLEAN
    /\ enable = FALSE /\ res \in BOOLEAN
    /\ enOld = TRUE /\ resOld = TRUE
    /\ phase = "data"
    /\ session = "off" /\ count = 0 /\ dma = FALSE /\ drives = FALSE
    /\ cyc = "parked" /\ posted = <<>> /\ reg = None
    /\ pending = None /\ resp = FALSE
    /\ stage = None /\ want = None /\ inflight = FALSE /\ awake = FALSE
    /\ ran = 0 /\ kept = FALSE

-----------------------------------------------------------------------------
(* The inputs.  RES# is filtered for two microseconds and the processor    *)
(* takes far longer between two writes of the enable bit: each level lasts *)
(* for at least one drive_en.                                              *)

\* A bug: the request in flight is not forgotten.
KeepsInflight ==
    /\ stage' = None /\ want' = None /\ inflight' = inflight /\ awake' = FALSE
    /\ resp' = FALSE

\* The core is in reset, its request forgotten; the stage is empty.
CoreOff ==
    /\ stage' = None /\ want' = None /\ inflight' = FALSE /\ awake' = FALSE
    /\ resp' = FALSE

\* A write that has not reached the pins is cancelled.
CancelFetch ==
    IF session = "run" /\ cyc \in {"fetch", "load"}
    THEN cyc' = "parked" /\ reg' = None
    ELSE UNCHANGED <<cyc, reg>>

\* A bug: a reset ends the session on every host.
ReleasesAll == IF session = "grace" THEN "release" ELSE session

\* The session after RES# has fallen; a II+ keeps /DMA.
AfterResetFell ==
    IF session = "grace" THEN (IF iiplus THEN "hold" ELSE "release") ELSE session

\* A bug: the count goes on over a reset.
KeepsCount == count

CountAfterReset == IF session \in {"arm", "grace", "hold"} THEN 0 ELSE count

ResFalls ==
    /\ res /\ resOld
    /\ res' = FALSE /\ resOld' = FALSE
    /\ session' = AfterResetFell
    /\ count' = CountAfterReset
    /\ IF session = "run" THEN posted' = <<>> /\ pending' = None ELSE UNCHANGED <<posted, pending>>
    /\ CancelFetch
    /\ CoreOff
    /\ ran' = 0
    /\ UNCHANGED <<iiplus, enable, enOld, phase, dma, drives, kept>>

ResRises ==
    /\ ~res /\ resOld
    /\ res' = TRUE /\ resOld' = FALSE
    /\ UNCHANGED <<iiplus, enable, enOld, phase, engine, cyc, posted, reg, pending, resp, core>>

Enable ==
    /\ ~enable /\ enOld
    /\ enable' = TRUE /\ enOld' = FALSE
    /\ UNCHANGED <<iiplus, res, resOld, phase, engine, cyc, posted, reg, pending, resp, core>>

\* /DMA must not change at an arbitrary clock: the release state waits.
AfterDisable ==
    IF session = "arm" THEN "off" ELSE IF session \in {"grace", "hold"} THEN "release" ELSE session

\* A waiter gets an abort answer, which the core, in reset too, does not see.
Disable ==
    /\ enable /\ enOld
    /\ enable' = FALSE /\ enOld' = FALSE
    /\ session' = AfterDisable
    /\ pending' = IF session = "run" THEN None ELSE pending
    /\ CancelFetch
    /\ CoreOff
    /\ kept' = FALSE
    /\ UNCHANGED <<iiplus, res, resOld, phase, count, dma, drives, posted, ran>>

Inputs == ResFalls \/ ResRises \/ Enable \/ Disable

-----------------------------------------------------------------------------
(* drive_en: the early point of a cycle, at which ownership changes and    *)
(* the next cycle is chosen.  A cycle whose data_en was missed ends here.  *)

\* The posted pipeline takes a few of the clocks between two strobes.
Strobe == cyc \notin {"fetch", "load"}

Drive ==
    /\ Strobe
    /\ phase' = "drive"
    /\ enOld' = TRUE /\ resOld' = TRUE
    /\ ran' = IF dma THEN 0 ELSE IF res /\ ran < Stock THEN ran + 1 ELSE ran
    /\ kept' = IF dma THEN kept ELSE enable
    /\ UNCHANGED <<iiplus, enable, res, core>>

NoCycle == cyc' = "parked" /\ reg' = None /\ UNCHANGED <<posted, pending, resp>>

DriveOff ==
    /\ session = "off" /\ Drive
    /\ session' = IF enable THEN "arm" ELSE "off"
    /\ count' = 0 /\ dma' = FALSE /\ drives' = FALSE
    /\ NoCycle

\* The Apple's own processor runs for a while after each reset.
DriveArm ==
    /\ session = "arm" /\ Drive
    /\ IF res /\ count = Stock
       THEN session' = "grace" /\ dma' = TRUE /\ count' = count
       ELSE session' = session /\ dma' = dma /\ count' = IF res THEN count + 1 ELSE count
    /\ drives' = drives
    /\ NoCycle

\* One whole cycle with /DMA before anything is driven.
DriveGrace ==
    /\ session = "grace" /\ Drive
    /\ session' = "run" /\ drives' = TRUE
    /\ UNCHANGED <<count, dma>>
    /\ NoCycle

\* The drivers go first, /DMA stays.
DriveStop ==
    /\ session = "run" /\ Drive
    /\ ~enable \/ ~res
    /\ session' = IF ~enable \/ ~iiplus THEN "release" ELSE "hold"
    /\ drives' = FALSE /\ dma' = TRUE /\ count' = 0
    /\ posted' = <<>>
    /\ cyc' = "parked" /\ reg' = None
    /\ UNCHANGED <<pending, resp>>

\* sync_flush_wait
MustWait == pending \in Barriers /\ posted # <<>>

\* An access without data_en is answered with the last sample.
DriveRun ==
    /\ session = "run" /\ Drive
    /\ enable /\ res
    /\ resp' = (resp \/ cyc = "access")
    /\ IF pending # None /\ ~MustWait /\ cyc # "access"
       THEN cyc' = "access"
       ELSE cyc' = IF posted # <<>> THEN "fetch" ELSE "parked"
    /\ pending' = IF cyc = "access" THEN None ELSE pending
    /\ reg' = None
    /\ UNCHANGED <<session, count, dma, drives, posted>>

\* Again one whole cycle, then a II+ drives again.
DriveHold ==
    /\ session = "hold" /\ Drive
    /\ IF res /\ count # 0
       THEN session' = "run" /\ drives' = TRUE /\ count' = 0
       ELSE session' = session /\ drives' = FALSE /\ count' = IF res THEN 1 ELSE 0
    /\ dma' = TRUE
    /\ NoCycle

DriveRelease ==
    /\ session = "release" /\ Drive
    /\ session' = IF enable THEN "arm" ELSE "off"
    /\ dma' = FALSE /\ drives' = FALSE /\ count' = 0
    /\ NoCycle

DriveEn ==
    \/ DriveOff \/ DriveArm \/ DriveGrace \/ DriveStop \/ DriveRun \/ DriveHold \/ DriveRelease

\* data_en: the cycle on the bus is complete.
DataEn ==
    /\ phase = "drive" /\ Strobe
    /\ phase' = "data"
    /\ IF session = "run" /\ cyc = "access" /\ res /\ enable
       THEN resp' = TRUE /\ pending' = None
       ELSE UNCHANGED <<resp, pending>>
    /\ IF session = "run" /\ (cyc = "post" \/ (cyc = "access" /\ res /\ enable))
       THEN cyc' = "parked" /\ reg' = None
       ELSE UNCHANGED <<cyc, reg>>
    /\ UNCHANGED <<inputs, engine, posted, core>>

Fetch ==
    /\ cyc = "fetch"
    /\ cyc' = "load" /\ reg' = Head(posted) /\ posted' = Tail(posted)
    /\ UNCHANGED <<inputs, phase, engine, pending, resp, core>>

Load ==
    /\ cyc = "load"
    /\ cyc' = "post"
    /\ UNCHANGED <<inputs, phase, engine, posted, reg, pending, resp, core>>

-----------------------------------------------------------------------------
(* The core.                                                               *)

CoreRuns == enable /\ res

PostFull == Len(posted) >= Depth - Margin

\* What the stage holds enters the queue on the next clock, or is lost.
Pushed == IF stage # None /\ Len(posted) < Depth THEN Append(posted, stage) ELSE posted

\* Before its first access to the bus the firmware writes to no screen.
CorePost(w) ==
    /\ CoreRuns /\ awake /\ want = None
    /\ ~PostFull
    /\ stage' = w
    /\ posted' = Pushed
    /\ UNCHANGED <<inputs, phase, engine, cyc, reg, pending, resp, want, inflight, awake>>

Push ==
    /\ stage # None
    /\ stage' = None
    /\ posted' = Pushed
    /\ UNCHANGED <<inputs, phase, engine, cyc, reg, pending, resp, want, inflight, awake>>

\* The core needs several clocks from a write to its next access, the stage
\* one to empty.
CoreAsk(r) ==
    /\ CoreRuns /\ want = None /\ stage = None
    /\ want' = r
    /\ UNCHANGED <<inputs, phase, engine, cyc, posted, reg, pending, resp, stage, inflight, awake>>

ReqReady == session = "run" /\ enable /\ pending = None /\ res

\* A bug: the request is still valid on the clock of its answer.
UntrackedRequest ==
    /\ want # None /\ ReqReady
    /\ pending' = want /\ inflight' = TRUE
    /\ UNCHANGED <<inputs, phase, engine, cyc, posted, reg, resp, stage, want, awake>>

Request ==
    /\ want # None /\ ReqReady /\ ~inflight
    /\ pending' = want /\ inflight' = TRUE
    /\ UNCHANGED <<inputs, phase, engine, cyc, posted, reg, resp, stage, want, awake>>

TakeAnswer ==
    /\ resp
    /\ resp' = FALSE
    /\ want' = None /\ inflight' = FALSE /\ awake' = TRUE
    /\ UNCHANGED <<inputs, phase, engine, cyc, posted, reg, pending, stage>>

Core ==
    \/ \E w \in Write : CorePost(w)
    \/ \E r \in Access : CoreAsk(r)
    \/ Push \/ Request \/ TakeAnswer

Next == Inputs \/ DriveEn \/ DataEn \/ Fetch \/ Load \/ Core

Spec == Init /\ [][Next]_vars

\* The bus has its cycles, and the logic its clocks.
FairSpec ==
    /\ Spec
    /\ WF_vars(DriveEn) /\ WF_vars(Fetch) /\ WF_vars(Load)
    /\ WF_vars(Push) /\ WF_vars(Request) /\ WF_vars(TakeAnswer)

-----------------------------------------------------------------------------
\* Ownership of the bus changes hands by the rules of the Apple's technical
\* note: only at the drive point, one signal at a time, so that /DMA is there
\* a whole cycle before the first driver and a whole cycle after the last.  A
\* II+ moreover keeps the bus from the moment it is taken until it is disabled,
\* through every reset of the Apple (vtw_bus_engine.sv:668 and 811, "a II+
\* reset enters S_RESET_HOLD and never releases ownership").
HandoverGuarded ==
    [][/\ dma' # dma \/ drives' # drives => DriveEn /\ (dma' = dma \/ drives' = drives)
       /\ drives' => dma'
       /\ iiplus /\ kept /\ dma => dma']_vars

\* The Apple's own processor has completed its start-up before the bus is
\* taken: after every reset of a //e, and at the start of every session.
StockRunFirst == [][dma' /\ ~dma => ran = Stock]_vars

Promise == INSTANCE BusMaster
              WITH todo <- IF session = "run" /\ ~enable THEN <<>>
                           ELSE (IF cyc = "load" THEN <<reg>> ELSE <<>>) \o posted
                                \o (IF stage = None THEN <<>> ELSE <<stage>>),
                   ask <- want,
                   bus <- IF cyc = "post" THEN reg
                          ELSE IF cyc # "access" THEN None
                          ELSE IF want = None THEN "orphan" ELSE "access",
                   answered <- resp

\* Through takeover, handback, resets, missed strobes and a full queue, the
\* core's writes and accesses go out as BusMaster promises.
ImplementsBusMaster == Promise!Spec

\* An access ends: with its answer, or with a reset or the end of the session.
AccessAnswered == want # None ~> want = None
=============================================================================
