----------------------------- MODULE PsramQueue -----------------------------
(***************************************************************************)
(* hdl/apple/psram_simple.sv: the arbiter in front of the PSRAM.  Apple    *)
(* reads are served at once, Apple writes wait in a queue and are patched  *)
(* into their lines by read-modify-write, and two line-wide ports (the     *)
(* accelerator and the DMA engine) use what is left.                       *)
(*                                                                         *)
(* The bus strobes addr_en, sss_en and data_en are steps of their own; so  *)
(* is every move of the state machine.  A completion (psram_rvalid) may    *)
(* come at any moment: how fast it really is stands in PsramTiming.  Of    *)
(* the strobes and moves that can fall on one clock, those that do not     *)
(* commute are a served read and an admission or an issue, where the code  *)
(* lets the read go first; the others equal one of their two orders.       *)
(***************************************************************************)
EXTENDS Naturals, Sequences

CONSTANTS
    Line, Lane, Byte,   \* lines, bytes of a line, values of a byte
    Depth,              \* entries of the write queue (WQ_DEPTH)
    BusAddr,            \* the addresses the Apple uses, at most Addr
    PortOps,            \* what each port may ask for: port -> set of operations
    None, Missed        \* values outside the others

Port == {"vtw", "dma"}
Addr == [line : Line, lane : Lane]
Op   == [rw : {"read", "write"}, line : Line, data : [Lane -> Byte]]

ASSUME QueueAssumption ==
    /\ Depth \in Nat \ {0}
    /\ BusAddr \subseteq Addr
    /\ PortOps \in [Port -> SUBSET Op]
    /\ None \notin Byte \cup [Lane -> Byte] \cup Addr \cup Op
    /\ Missed \notin Byte \cup {None}

VARIABLES
    mem,        \* what the chip holds
    st,         \* "idle", "serve", "read", "issue", "wait" (of an RMW), or the port served
    wq,         \* queued byte writes, oldest first
    rdPtr,      \* ring index of the oldest
    pending,    \* address of a write whose data have not come, or None
    rmw,        \* the line being patched: its address, the entries to patch
                \* in, its bytes; None when there is none
    park,       \* the patched line waits because a served read went first
    read,       \* address the bus cycle reads from the card, or None
    serve,      \* address of the read in flight, or None
    fwd,        \* its data are not wanted: a later cycle owns the bus (serve_fwd_q)
    drive,      \* what the card answers in this bus cycle
    phase,      \* the last strobe seen: "sss" or "data"
    admit,      \* this cycle may still admit background work (admit_armed_q)
    owned,      \* the accelerator owns the bus
    drain,      \* after it gave the bus back, until its last operation ended
    port        \* the two ports

vars == <<mem, st, wq, rdPtr, pending, rmw, park, read, serve, fwd, drive, phase, admit,
          owned, drain, port>>
queueVars == <<wq, rdPtr, pending>>
rmwVars   == <<rmw, park>>
serveVars == <<read, serve, fwd, drive>>
ownVars   == <<owned, drain>>

Entry   == [line : Line, lane : Lane, data : Byte]
Off     == [mode |-> "off", val |-> None]
Idle    == [st |-> "idle", op |-> None, got |-> None]
Ready(v) == [mode |-> "ready", val |-> v]

-----------------------------------------------------------------------------
(* The queue: which entries hold an address, and the newest of them.       *)

Holding(q, a) == {j \in DOMAIN q : q[j].line = a.line /\ q[j].lane = a.lane}

IsNewest(q, a, j) == j \in Holding(q, a) /\ \A i \in Holding(q, a) : i <= j

Newest(q, a) == q[CHOOSE j \in Holding(q, a) : IsNewest(q, a, j)].data

\* Ring index of the j-th oldest entry.
Slot(j) == (rdPtr + j - 1) % Depth

\* rmw_patch: of the entries flagged at admission, the one highest in the
\* ring, not the newest, lands in its byte.
Patching(k) == {j \in rmw.hit : wq[j].lane = k}

IsHighest(k, j) == j \in Patching(k) /\ \A i \in Patching(k) : Slot(i) <= Slot(j)

Patched(line) ==
    [k \in Lane |->
        IF Patching(k) = {} THEN line[k]
        ELSE wq[CHOOSE j \in Patching(k) : IsHighest(k, j)].data]

-----------------------------------------------------------------------------
Init ==
    /\ mem \in [Line -> [Lane -> Byte]]
    /\ st = "idle"
    /\ wq = <<>> /\ rdPtr = 0 /\ pending = None
    /\ rmw = None
    /\ park = FALSE
    /\ read = None /\ serve = None
    /\ fwd = FALSE
    /\ drive = Off
    /\ phase = "data"
    /\ admit = FALSE
    /\ owned = FALSE /\ drain = FALSE
    /\ port = [p \in Port |-> Idle]

(* The bus cycle.  addr_en ends the drive of the cycle before (data_en has  *)
(* ended it already), and sss_en follows one clock later: one step for both. *)

\* The cycle is not an access to serve, or has no sss_en at all; the window
\* for background work opens.
NoService ==
    /\ phase = "data"
    /\ phase' = "sss"
    /\ admit' = TRUE
    /\ UNCHANGED <<mem, st, queueVars, rmwVars, serveVars, ownVars, port>>

\* A write to the card's memory.
WriteStart(a) ==
    /\ phase = "data"
    /\ phase' = "sss"
    /\ pending' = a
    /\ admit' = TRUE
    /\ UNCHANGED <<mem, st, wq, rdPtr, rmwVars, serveVars, ownVars, port>>

\* A bug: data of a read that a later cycle overtook are still driven.
NeverOvertaken == FALSE

\* The read in flight belongs to an earlier cycle: its data are not for this one.
Overtaken == st = "serve"

ServeStart(a) ==
    /\ phase = "data"
    /\ ~owned /\ ~drain
    /\ phase' = "sss"
    /\ read' = a
    /\ admit' = FALSE
    /\ UNCHANGED <<mem, queueVars, rmw, ownVars, port>>

\* A queued byte answers the read.
ServeForwarded(a) ==
    /\ ServeStart(a)
    /\ Holding(wq, a) # {}
    /\ drive' = Ready(Newest(wq, a))
    /\ fwd' = Overtaken
    /\ UNCHANGED <<st, serve, park>>

\* The chip is free, or the patched line has not been issued and yields.
ServeIssued(a) ==
    /\ ServeStart(a)
    /\ Holding(wq, a) = {}
    /\ st \in {"idle", "issue"}
    /\ st' = "serve"
    /\ park' = (park \/ st = "issue")
    /\ serve' = a
    /\ fwd' = FALSE
    /\ drive' = [mode |-> "wait", val |-> drive.val]

\* The chip is busy: the old data stay on the bus.
ServeMissed(a) ==
    /\ ServeStart(a)
    /\ Holding(wq, a) = {}
    /\ st \notin {"idle", "issue"}
    /\ fwd' = Overtaken
    /\ drive' = [mode |-> "miss", val |-> drive.val]
    /\ UNCHANGED <<st, serve, park>>

\* data_en: the cycle ends, the window with it (it is shorter), and the data
\* of a write enter the queue, or are dropped when it is full.
DataEn(v) ==
    /\ phase = "sss"
    /\ phase' = "data"
    /\ drive' = Off
    /\ read' = None
    /\ pending' = None
    /\ IF pending # None /\ Len(wq) < Depth
       THEN wq' = Append(wq, [line |-> pending.line, lane |-> pending.lane, data |-> v])
       ELSE wq' = wq
    /\ admit' = FALSE
    /\ UNCHANGED <<mem, st, rdPtr, rmwVars, serve, fwd, ownVars, port>>

(* The accelerator takes the bus and gives it back. *)

TakeBus ==
    /\ ~owned
    /\ owned' = TRUE /\ drain' = TRUE
    /\ UNCHANGED <<mem, st, queueVars, rmwVars, serveVars, phase, admit, port>>

GiveBus ==
    /\ owned
    /\ owned' = FALSE
    /\ UNCHANGED <<mem, st, queueVars, rmwVars, serveVars, phase, admit, drain, port>>

DrainDone ==
    /\ ~owned /\ drain /\ st = "idle"
    /\ drain' = FALSE
    /\ UNCHANGED <<mem, st, queueVars, rmwVars, serveVars, phase, admit, owned, port>>

(* Background work: parked write, then queue, then accelerator, then DMA.  *)

CanAdmit == st = "idle" /\ (owned \/ (~drain /\ admit))

Admit == CanAdmit /\ admit' = FALSE /\ UNCHANGED <<mem, queueVars, serveVars, phase, ownVars>>

AdmitParked ==
    /\ Admit
    /\ park
    /\ park' = FALSE
    /\ st' = "wait"
    /\ UNCHANGED <<rmw, port>>

AdmitRmw ==
    /\ Admit
    /\ ~park
    /\ wq # <<>>
    /\ st' = "read"
    /\ rmw' = [line |-> wq[1].line, hit |-> {j \in DOMAIN wq : wq[j].line = wq[1].line},
               data |-> None]
    /\ UNCHANGED <<park, port>>

AdmitPort(p) ==
    /\ Admit
    /\ ~park
    /\ wq = <<>>
    /\ port[p].st = "asked"
    /\ p = "dma" => port["vtw"].st # "asked"
    /\ st' = p
    /\ port' = [port EXCEPT ![p].st = "busy"]
    /\ UNCHANGED rmwVars

(* Completions. *)

ServeDone ==
    /\ st = "serve"
    /\ st' = "idle"
    /\ drive' = IF fwd THEN drive
                ELSE [mode |-> IF drive.mode = "wait" THEN "ready" ELSE drive.mode,
                      val |-> mem[serve.line][serve.lane]]
    /\ serve' = None
    /\ fwd' = FALSE
    /\ UNCHANGED <<mem, read, queueVars, rmwVars, phase, admit, ownVars, port>>

RmwRead ==
    /\ st = "read"
    /\ st' = "issue"
    /\ rmw' = [rmw EXCEPT !.data = Patched(mem[rmw.line])]
    /\ UNCHANGED <<mem, queueVars, park, serveVars, phase, admit, ownVars, port>>

RmwIssue ==
    /\ st = "issue"
    /\ st' = "wait"
    /\ UNCHANGED <<mem, queueVars, rmwVars, serveVars, phase, admit, ownVars, port>>

\* The line is written, and only now the oldest entry leaves the queue.
RmwWritten ==
    /\ st = "wait"
    /\ st' = "idle"
    /\ mem' = [mem EXCEPT ![rmw.line] = rmw.data]
    /\ wq' = Tail(wq)
    /\ rdPtr' = (rdPtr + 1) % Depth
    /\ rmw' = None
    /\ UNCHANGED <<pending, park, serveVars, phase, admit, ownVars, port>>

PortDone(p) ==
    /\ st = p
    /\ st' = "idle"
    /\ IF port[p].op.rw = "read"
       THEN /\ port' = [port EXCEPT ![p].st = "done", ![p].got = mem[port[p].op.line]]
            /\ mem' = mem
       ELSE /\ port' = [port EXCEPT ![p] = Idle]
            /\ mem' = [mem EXCEPT ![port[p].op.line] = port[p].op.data]
    /\ UNCHANGED <<queueVars, rmwVars, serveVars, phase, admit, ownVars>>

(* The clients of the two ports. *)

PortAsk(p, op) ==
    /\ port[p].st = "idle"
    /\ port' = [port EXCEPT ![p] = [st |-> "asked", op |-> op, got |-> None]]
    /\ UNCHANGED <<mem, st, queueVars, rmwVars, serveVars, phase, admit, ownVars>>

PortTake(p) ==
    /\ port[p].st = "done"
    /\ port' = [port EXCEPT ![p] = Idle]
    /\ UNCHANGED <<mem, st, queueVars, rmwVars, serveVars, phase, admit, ownVars>>

\* An abort of the DMA engine takes back a request not yet admitted.
Withdraw ==
    /\ port["dma"].st = "asked"
    /\ port' = [port EXCEPT !["dma"] = Idle]
    /\ UNCHANGED <<mem, st, queueVars, rmwVars, serveVars, phase, admit, ownVars>>

Bus ==
    \/ NoService
    \/ \E a \in BusAddr : WriteStart(a) \/ ServeForwarded(a) \/ ServeIssued(a) \/ ServeMissed(a)
    \/ \E v \in Byte : DataEn(v)

Ownership == TakeBus \/ GiveBus \/ DrainDone

Machine ==
    \/ AdmitParked \/ AdmitRmw \/ ServeDone \/ RmwRead \/ RmwIssue \/ RmwWritten
    \/ \E p \in Port : AdmitPort(p) \/ PortDone(p)

Clients ==
    \/ \E p \in Port : PortTake(p) \/ \E op \in PortOps[p] : PortAsk(p, op)
    \/ Withdraw

Next == Bus \/ Ownership \/ Machine \/ Clients

Spec == Init /\ [][Next]_vars

-----------------------------------------------------------------------------
(* What a user sees: the newest queued byte, else an admitted port write,  *)
(* else the chip.                                                          *)

Writing(l) == st \in Port /\ port[st].op.rw = "write" /\ port[st].op.line = l

Stored(l, k) == IF Writing(l) THEN port[st].op.data[k] ELSE mem[l][k]

ContentOf(l, k) ==
    IF Holding(wq, [line |-> l, lane |-> k]) # {}
    THEN Newest(wq, [line |-> l, lane |-> k])
    ELSE Stored(l, k)

Contents == [l \in Line |-> [k \in Lane |-> ContentOf(l, k)]]

ReplyValue ==
    IF drive.mode = "miss" THEN Missed
    ELSE IF drive.mode = "ready" THEN drive.val
    ELSE mem[serve.line][serve.lane]

ReplyView == IF read = None THEN None ELSE [addr |-> read, val |-> ReplyValue]

RequestView == [p \in Port |-> IF port[p].st = "asked" THEN port[p].op ELSE None]

AnswerView ==
    [p \in Port |->
        IF port[p].st = "done" THEN port[p].got
        ELSE IF port[p].st = "busy" /\ port[p].op.rw = "read" THEN mem[port[p].op.line]
        ELSE None]

Promise == INSTANCE CoherentMemory
              WITH memory <- Contents, room <- Len(wq) < Depth, write <- pending,
                   reply <- ReplyView, request <- RequestView, answer <- AnswerView

\* The queue, the forwarding, the patching of lines with its yield to served
\* reads, and the two ports together behave as one memory: no served byte,
\* no line given to a port is older than the last write accepted before it,
\* and no patched line undoes a write.
ImplementsCoherentMemory == Promise!Spec

-----------------------------------------------------------------------------
(* Type invariant. *)

RmwRecord == [line : Line, hit : SUBSET (1 .. Depth), data : [Lane -> Byte] \cup {None}]

PortRecord ==
    [st : {"idle", "asked", "busy", "done"}, op : Op \cup {None}, got : [Lane -> Byte] \cup {None}]

TypeOK ==
    /\ mem \in [Line -> [Lane -> Byte]]
    /\ st \in {"idle", "serve", "read", "issue", "wait"} \cup Port
    /\ wq \in Seq(Entry) /\ Len(wq) <= Depth
    /\ rdPtr \in 0 .. Depth - 1
    /\ pending \in Addr \cup {None}
    /\ rmw \in RmwRecord \cup {None}
    /\ park \in BOOLEAN
    /\ read \in Addr \cup {None}
    /\ serve \in Addr \cup {None}
    /\ fwd \in BOOLEAN
    /\ drive \in [mode : {"off", "wait", "ready", "miss"}, val : Byte \cup {None}]
    /\ phase \in {"data", "sss"}
    /\ admit \in BOOLEAN /\ owned \in BOOLEAN /\ drain \in BOOLEAN
    /\ port \in [Port -> PortRecord]
=============================================================================
