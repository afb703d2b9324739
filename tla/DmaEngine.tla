------------------------------ MODULE DmaEngine ------------------------------
(***************************************************************************)
(* The copy engine between DDR and PSRAM, hdl/apple/apple_dma_engine.sv,   *)
(* with the PSRAM port of psram_simple.sv it drives and the AXI port (an   *)
(* external slave).  A step is one clock edge: every register takes its    *)
(* next value from the values before the edge, and the handshakes that the *)
(* other side may delay are chosen freely.  The names of states are those  *)
(* of the code (S_W_ and S_R_ tell the direction); a line of PSRAM and a   *)
(* beat of DDR are W bytes.                                                *)
(***************************************************************************)
EXTENDS Integers, Sequences

CONSTANTS
  W,           \* bytes of a line and of a beat (8)
  MaxBurst,    \* beats of a burst (16)
  PageBeats,   \* beats that a burst may not cross (512: 4 KB)
  Beats, Lines,\* size of the DDR and of the PSRAM, in beats and lines
  Requests,    \* what may be asked: [mc, ddr, len, rw]
  MaxCalls     \* bound on the number of requests

ASSUME WidthAssumption ==
  /\ W \in Nat \ {0} /\ MaxBurst \in Nat \ {0}
  /\ PageBeats \in Nat \ {0} /\ PageBeats % MaxBurst = 0
  /\ Beats \in Nat /\ Lines \in Nat

Bytes == 0 .. W - 1
Min2(a, b) == IF a < b THEN a ELSE b

\* Every request stays in both memories; ddr counts beats, mc counts bytes.
ASSUME RequestsAssumption ==
  \A q \in Requests : /\ q \in [mc : Nat, ddr : Nat, len : Nat \ {0}, rw : BOOLEAN]
                      /\ q.mc + q.len <= Lines * W /\ q.ddr * W + q.len <= Beats * W

VARIABLES
  cmd,    \* ps_dma_command: the request registers
  valid, abort, busy, complete, aborted,  \* and its flags
  e,      \* the engine's registers
  size,   \* ar_burst_size_q and aw_burst_size_q: one clock behind
  port,   \* psram_simple: the line operation admitted, or NoOp
  ready, rvalid, rdata,  \* its registered outputs to the engine
  reads,  \* AXI: beats of accepted read bursts not yet delivered
  write,  \* AXI: next beat and beats left of the accepted write burst
  ddr, psram,            \* the memories, by byte
  was,    \* ghost: the memories when the engine took its request, and
          \*   whether nothing of an earlier request was under way then
  calls   \* bound: how many requests have been made

command == <<cmd, valid, abort, busy, complete, aborted>>
memport == <<port, ready, rvalid, rdata, psram>>
axi == <<reads, write, ddr>>
evars == <<command, e, size, memport, axi, was, calls>>

NoOp == [line |-> 0 - 1, read |-> TRUE, data |-> [b \in Bytes |-> 0]]

Off == e.rq.mc % W
NumLines(q) == ((q.mc % W) + q.len + W - 1) \div W
NumBeats(q) == (q.len + W - 1) \div W
LastBytes(q) == (((q.mc % W) + q.len - 1) % W) + 1
HasExtra == NumLines(e.rq) # NumBeats(e.rq)

\* Address of the next burst, in beats, and the most it may hold.
NextBeat == (e.rq.ddr + NumBeats(e.rq)) - e.issue
\* Mutant: the burst is cut only by what is left and by its own maximum.
Mut_BurstCap_page == Min2(e.issue, MaxBurst)

BurstCap ==
  LET page == IF NextBeat % PageBeats >= PageBeats - MaxBurst
              THEN MaxBurst - (NextBeat % MaxBurst) ELSE MaxBurst
  IN  Min2(Min2(e.issue, MaxBurst), page)

-----------------------------------------------------------------------------
(* Bytes of the line being written, and of the beat being written          *)

\* ddr_byte_for: byte b of the current line out of the two beats held.
DdrByte(b) ==
  LET t == (e.idx * W + b) - Off
      lastBeat == IF e.last THEN NumBeats(e.rq) - 1 ELSE e.idx
  IN  IF t \div W = lastBeat THEN e.hi[t % W] ELSE e.lo[t % W]

MergedLine ==
  [b \in Bytes |->
     IF /\ e.idx = 0 => b >= Off
        /\ e.last => b < LastBytes(e.rq)
     THEN DdrByte(b) ELSE e.old[b]]

\* Mutant: the last beat looks for its second line one too far.
Mut_McByte_last(k) ==
  LET t == e.idx * W + k + Off
      lastLine == IF Off = 0 THEN e.idx ELSE e.idx + 1
  IN  IF t \div W = lastLine THEN e.hi[t % W] ELSE e.lo[t % W]

\* mc_byte_for: byte k of the current beat out of the two lines held.
McByte(k) ==
  LET t == e.idx * W + k + Off
      lastLine == IF Off = 0 THEN e.idx
                  ELSE IF e.last THEN NumLines(e.rq) - 1 ELSE e.idx + 1
  IN  IF t \div W = lastLine THEN e.hi[t % W] ELSE e.lo[t % W]

BeatData == [k \in Bytes |-> McByte(k)]

Part(memory, i) == [b \in Bytes |-> memory[i * W + b]]
Put(memory, i, data) ==
  [a \in DOMAIN memory |-> IF a \div W = i THEN data[a % W] ELSE memory[a]]
-----------------------------------------------------------------------------
(* Edges of the engine: the state, then what it does                       *)

Become(s) == e' = [e EXCEPT !.st = s]
Quiet == UNCHANGED axi
Wait == UNCHANGED <<e, axi>>

\* S_IDLE with a request: latch it and seed the counters.
Accept ==
  LET q == cmd  n == NumLines(q)  m == NumBeats(q)  off == q.mc % W
      partial == off # 0 \/ (n = 1 /\ LastBytes(q) # W)
  IN  /\ e.st = "idle" /\ Quiet
      /\ IF ~valid THEN UNCHANGED <<e, was>>
         ELSE /\ e' = [e EXCEPT
                  !.st = IF q.rw THEN "w_line" ELSE "r_prep",
                  !.rq = q, !.idx = 0, !.loaded = 0, !.burst = 0, !.issue = m,
                  !.left = IF q.rw THEN n ELSE m,
                  !.fetch = IF q.rw \/ off = 0 \/ n = 1 THEN 1 ELSE 2,
                  !.last = IF q.rw THEN n = 1 ELSE m = 1,
                  !.part = partial]
              /\ was' = [ddr |-> ddr, psram |-> psram, clean |-> reads = <<>> /\ port = NoOp]

LineBegin ==
  /\ e.st = "w_line" /\ Quiet
  /\ Become(IF e.fetch # 0 THEN IF e.burst # 0 THEN "w_r" ELSE "w_ar"
            ELSE IF e.part THEN "w_rmw" ELSE "w_write")

IssueRead ==
  /\ e.st = "w_ar"
  /\ \/ Wait
     \/ /\ e' = [e EXCEPT !.st = "w_r", !.burst = size, !.issue = @ - size]
        /\ reads' = reads \o [k \in 1 .. size |-> NextBeat + k - 1]
        /\ UNCHANGED <<write, ddr>>

TakeBeat ==
  /\ e.st = "w_r"
  /\ \/ Wait
     \/ /\ reads # <<>> /\ reads' = Tail(reads) /\ UNCHANGED <<write, ddr>>
        /\ e' = [e EXCEPT !.st = "w_line", !.lo = e.hi, !.hi = Part(ddr, Head(reads)),
                          !.burst = @ - 1, !.fetch = @ - 1]

\* A line partly covered is read first.
ReadOld ==
  \/ /\ e.st = "w_rmw" /\ Quiet
     /\ IF ready THEN Become("w_rmw_wait") ELSE UNCHANGED e
  \/ /\ e.st = "w_rmw_wait" /\ Quiet
     /\ e' = IF rvalid THEN [e EXCEPT !.st = "w_write", !.old = rdata] ELSE e

WriteLine ==
  e.st = "w_write" /\ Quiet /\ IF ready THEN Become("w_write_wait") ELSE UNCHANGED e

LineWritten ==
  /\ e.st = "w_write_wait" /\ Quiet
  /\ e' = IF ~rvalid THEN e
          ELSE IF e.left = 1 THEN [e EXCEPT !.st = "done", !.left = 0]
          ELSE [e EXCEPT !.st = "w_line", !.left = @ - 1, !.idx = @ + 1,
                         !.last = e.left = 2,
                         !.fetch = IF e.left = 2 /\ HasExtra THEN 0 ELSE 1,
                         !.part = e.left = 2 /\ LastBytes(e.rq) # W]

PrepareWrite == e.st = "r_prep" /\ Quiet /\ Become("r_aw")

IssueWrite ==
  /\ e.st = "r_aw"
  /\ \/ Wait
     \/ /\ e' = [e EXCEPT !.st = "r_beat", !.burst = size, !.issue = @ - size]
        /\ write' = [next |-> NextBeat, left |-> size] /\ UNCHANGED <<reads, ddr>>

BeatBegin ==
  /\ e.st = "r_beat" /\ Quiet
  /\ e' = IF e.fetch # 0 THEN [e EXCEPT !.st = "r_mc"]
          ELSE [e EXCEPT !.st = "r_w", !.out = BeatData]

ReadLine ==
  \/ e.st = "r_mc" /\ Quiet /\ IF ready THEN Become("r_mc_wait") ELSE UNCHANGED e
  \/ /\ e.st = "r_mc_wait" /\ Quiet
     /\ e' = IF ~rvalid THEN e
             ELSE [e EXCEPT !.st = "r_beat", !.lo = e.hi, !.hi = rdata,
                            !.loaded = @ + 1, !.fetch = @ - 1]

\* A beat goes out with its last-of-burst mark; the slave counts for itself.
WriteBeat ==
  /\ e.st = "r_w"
  /\ \/ Wait
     \/ /\ e' = [e EXCEPT !.st = IF e.burst = 1 THEN "r_b" ELSE "r_beat",
                          !.burst = @ - 1, !.idx = @ + 1, !.left = @ - 1,
                          !.last = e.left = 2,
                          !.fetch = IF e.left = 2 /\ Off # 0 /\ ~HasExtra THEN 0 ELSE 1]
        /\ ddr' = Put(ddr, write.next, e.out) /\ UNCHANGED reads
        /\ write' = [next |-> write.next + 1, left |-> write.left - 1]

\* The response to the burst comes when the slave has all its beats.
BurstWritten ==
  /\ e.st = "r_b" /\ Quiet
  /\ \/ UNCHANGED e
     \/ write.left = 0 /\ Become(IF e.left = 0 THEN "done" ELSE "r_aw")

Done == e.st = "done" /\ Quiet /\ Become("idle")
-----------------------------------------------------------------------------
(* Abort.  From DDR to PSRAM it stops before the next write; the other     *)
(* direction runs to its end first.                                        *)

Aborting == e.st \in {"abort_r", "abort_mc", "abort_done"}
AbortNow == abort /\ ~Aborting /\ (e.st = "idle" \/ e.rq.rw)

\* Mutant: the abort goes on draining after the burst's last beat.
Mut_AbortRead_last ==
  \/ /\ e.st = "w_ar"
     /\ \/ Become("abort_done") /\ Quiet
        \/ /\ e' = [e EXCEPT !.st = "abort_r", !.burst = size]
           /\ reads' = reads \o [k \in 1 .. size |-> NextBeat + k - 1]
           /\ UNCHANGED <<write, ddr>>
  \/ /\ e.st = "w_r"
     /\ \/ Become("abort_r") /\ Quiet
        \/ /\ reads # <<>> /\ reads' = Tail(reads) /\ UNCHANGED <<write, ddr>>
           /\ e' = [e EXCEPT !.burst = @ - 1, !.st = "abort_r"]
  \/ e.st = "w_line" /\ Quiet /\ Become(IF e.burst # 0 THEN "abort_r" ELSE "abort_done")

AbortRead ==
  \/ /\ e.st = "w_ar"
     /\ \/ Become("abort_done") /\ Quiet
        \/ /\ e' = [e EXCEPT !.st = "abort_r", !.burst = size]
           /\ reads' = reads \o [k \in 1 .. size |-> NextBeat + k - 1]
           /\ UNCHANGED <<write, ddr>>
  \/ /\ e.st = "w_r"
     /\ \/ Become("abort_r") /\ Quiet
        \/ /\ reads # <<>> /\ reads' = Tail(reads) /\ UNCHANGED <<write, ddr>>
           /\ e' = [e EXCEPT !.burst = @ - 1,
                             !.st = IF e.burst = 1 THEN "abort_done" ELSE "abort_r"]
  \/ e.st = "w_line" /\ Quiet /\ Become(IF e.burst # 0 THEN "abort_r" ELSE "abort_done")

AbortLine ==
  /\ Quiet
  /\ \/ e.st \in {"w_rmw", "w_write"} /\ Become(IF ready THEN "abort_mc" ELSE "abort_done")
     \/ /\ e.st \in {"w_rmw_wait", "w_write_wait"}
        /\ Become(IF rvalid THEN "abort_done" ELSE "abort_mc")
     \/ e.st \in {"idle", "done"} /\ Become("abort_done")

\* Draining, once the abort has been taken.
Drain ==
  \/ /\ e.st = "abort_r"
     /\ \/ Wait
        \/ /\ reads # <<>> /\ reads' = Tail(reads) /\ UNCHANGED <<write, ddr>>
           /\ e' = [e EXCEPT !.burst = @ - 1,
                             !.st = IF e.burst = 1 THEN "abort_done" ELSE "abort_r"]
  \/ e.st = "abort_mc" /\ Quiet /\ IF rvalid THEN Become("abort_done") ELSE UNCHANGED e
  \/ e.st = "abort_done" /\ Quiet /\ Become("idle")

Copy ==
  \/ LineBegin \/ IssueRead \/ TakeBeat \/ ReadOld \/ WriteLine \/ LineWritten
  \/ PrepareWrite \/ IssueWrite \/ BeatBegin \/ ReadLine \/ WriteBeat \/ BurstWritten \/ Done

Engine ==
  /\ size' = BurstCap
  /\ IF AbortNow THEN (AbortRead \/ AbortLine) /\ UNCHANGED was
     ELSE Accept \/ ((Copy \/ Drain) /\ UNCHANGED was)
-----------------------------------------------------------------------------
(* psram_simple: the engine is its last client, served when it can be      *)

Asked ==   \* dma_valid with dma_line_addr, dma_rw and dma_wdata
  IF e.st \in {"w_rmw", "w_write"}
  THEN [line |-> e.rq.mc \div W + e.idx, read |-> e.st = "w_rmw", data |-> MergedLine]
  ELSE [line |-> e.rq.mc \div W + e.loaded, read |-> TRUE, data |-> NoOp.data]

Admit ==
  /\ port = NoOp /\ e.st \in {"w_rmw", "w_write", "r_mc"}
  /\ port' = [Asked EXCEPT !.data = IF Asked.read THEN NoOp.data ELSE @]
  /\ ready' = TRUE /\ rvalid' = FALSE /\ UNCHANGED <<rdata, psram>>

Serve ==
  /\ port # NoOp /\ port' = NoOp
  /\ ready' = FALSE /\ rvalid' = TRUE
  /\ rdata' = Part(psram, port.line)
  /\ psram' = IF port.read THEN psram ELSE Put(psram, port.line, port.data)

Busy == ready' = FALSE /\ rvalid' = FALSE /\ UNCHANGED <<port, rdata, psram>>

PsramPort == Admit \/ Serve \/ Busy
(* ps_dma_command: the flags follow the engine, a register write wins      *)

NoWrite == [op |-> "none"]
Go(q) == [op |-> "go", q |-> q]           \* LENGTH_RW, after MC_ADDR and DDR_ADDR
AbortWrite == [op |-> "abort"]            \* CONTROL

Command(w) ==
  LET go == w.op = "go"  stop == w.op = "abort" /\ busy
  IN  /\ cmd' = IF go THEN w.q ELSE cmd
      /\ valid' = (go \/ (~stop /\ valid /\ e.st # "idle"))
      /\ abort' = (~go /\ (stop \/ (abort /\ e.st # "abort_done")))
      /\ busy' = (go \/ (busy /\ e.st \notin {"done", "abort_done"}))
      /\ complete' = (~go /\ (complete \/ e.st = "done"))
      /\ aborted' = (~go /\ (aborted \/ e.st = "abort_done"))
      /\ calls' = IF go THEN calls + 1 ELSE calls

\* One clock edge, with what the processor writes at it.
Edge(w) == Engine /\ PsramPort /\ Command(w)

CommandInit ==
  /\ cmd = [mc |-> 0, ddr |-> 0, len |-> 1, rw |-> FALSE]
  /\ valid = FALSE /\ abort = FALSE /\ busy = FALSE
  /\ complete = FALSE /\ aborted = FALSE /\ calls = 0

EngineInit ==
  /\ e = [st |-> "idle", rq |-> [mc |-> 0, ddr |-> 0, len |-> 1, rw |-> FALSE],
          idx |-> 0, left |-> 0, loaded |-> 0, issue |-> 0, burst |-> 0, fetch |-> 0,
          last |-> FALSE, part |-> FALSE, lo |-> NoOp.data, hi |-> NoOp.data,
          old |-> NoOp.data, out |-> NoOp.data]
  /\ size = 0
  /\ port = NoOp /\ ready = FALSE /\ rvalid = FALSE /\ rdata = NoOp.data
  /\ reads = <<>> /\ write = [next |-> 0, left |-> 0]
  /\ ddr = [a \in 0 .. Beats * W - 1 |-> a]
  /\ psram = [a \in 0 .. Lines * W - 1 |-> 0 - 1 - a]
  /\ was = [ddr |-> ddr, psram |-> psram, clean |-> TRUE]

Init == CommandInit /\ EngineInit

\* A processor that starts a request only when BUSY is clear and may ask for
\* an abort at any edge.
Next ==
  \/ Edge(NoWrite)
  \/ Edge(AbortWrite)
  \/ \E q \in Requests : ~busy /\ calls < MaxCalls /\ Edge(Go(q))

Spec == Init /\ [][Next]_evars
-----------------------------------------------------------------------------
\* The transfer that reports done has put every byte asked for where it belongs.
Copied(q) ==
  \A i \in 0 .. q.len - 1 :
    IF q.rw THEN psram[q.mc + i] = was.ddr[q.ddr * W + i]
    ELSE ddr[q.ddr * W + i] = was.psram[q.mc + i]

\* Partial lines of PSRAM keep the bytes around the range (the read-modify-write),
\* and in DDR only the whole beats of the range are written.
OnlyDestination(q) ==
  /\ \A a \in DOMAIN psram :
       (q.rw /\ a \in q.mc .. q.mc + q.len - 1) \/ psram[a] = was.psram[a]
  /\ \A a \in DOMAIN ddr :
       (~q.rw /\ a \in q.ddr * W .. (q.ddr + NumBeats(q)) * W - 1) \/ ddr[a] = was.ddr[a]

\* Whatever the offset, the length and the bursts: at every moment, through aborts
\* too, nothing but the destination has changed, and at the end all of it has --
\* provided nothing of an aborted request was still under way when it began
\* (was.clean).
CopyExact == was.clean => OnlyDestination(e.rq) /\ (e.st = "done" => Copied(e.rq))

\* While an address is offered to AXI the registered burst size has settled
\* (it cannot change under arvalid or awvalid), is at least one beat, takes no
\* more than is left and stays inside one 4 KB page; and while the burst runs
\* engine and slave count alike: wlast is raised on the beat the slave takes
\* for its last, and a beat awaited is a beat that will come.
BurstLegal ==
  /\ e.st \in {"w_ar", "r_aw"} =>
       /\ size = BurstCap /\ size \in 1 .. Min2(MaxBurst, e.issue)
       /\ NextBeat \div PageBeats = (NextBeat + size - 1) \div PageBeats
  /\ e.st = "r_w" => /\ write.left = e.burst /\ write.left > 0
                     /\ write.next = e.rq.ddr + e.idx
  /\ e.st = "r_b" => write.left = 0
  /\ e.st \in {"w_r", "abort_r"} /\ was.clean => Len(reads) = e.burst /\ e.burst > 0

\* psdma.c:83, "BUSY clear still proves that no accepted AXI or PSRAM work remains":
\* no beat of an accepted AXI read is left to come, and no operation of the PSRAM
\* port is left to finish.
BusyClearMeansDrained == ~busy => reads = <<>> /\ port = NoOp
=============================================================================
