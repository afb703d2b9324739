----------------------------- MODULE PsDmaProofs -----------------------------
(***************************************************************************)
(* The copy engine and its driver, for any memories, widths, requests and  *)
(* number of calls.  Three arguments.                                      *)
(*                                                                         *)
(* Reservation: while the engine is reserved no command runs in it.  It    *)
(* is about four states of the engine only: it leaves "idle" for work only *)
(* on a valid command, BUSY covers every state but "idle" and              *)
(* "abort_done", and an abort still held when BUSY clears is acknowledged  *)
(* before the driver can start again.                                      *)
(*                                                                         *)
(* The copy: EngineInv says where the counters stand against the lines and *)
(* beats of the request (Counted) and which bytes the port, the holding    *)
(* registers and the memories hold (Exact).  It holds whoever writes the   *)
(* registers.  Addresses are bytes, lines and beats; At(i) hides the       *)
(* product i * W from the provers, and Split, Unique and Within are all    *)
(* they are told of division.                                              *)
(*                                                                         *)
(* The driver: CallInv ties COMPLETE to the command that ended and that    *)
(* command to the caller that is told so.                                  *)
(***************************************************************************)
EXTENDS PsDma, SequenceTheorems, TLAPS

-----------------------------------------------------------------------------
(* The reservation                                                        *)

Resting == {"idle", "abort_done"}

\* The engine's registers are a record that keeps its state field.
Registers == "st" \in DOMAIN e

\* A command that waits is a busy one, and the engine is about to take it.
Waiting == valid => busy /\ e.st = "idle" /\ ~abort

\* Outside its resting states the engine is busy and has taken its command.
Working == e.st \notin Resting => busy /\ ~valid

\* The driver starts a command only when no abort is left to acknowledge.
Starting == pc = "go" => ~busy /\ ~(e.st = "idle" /\ abort)

Owning ==
  /\ (owner = "transfer") <=> (pc # "idle")
  /\ owner = "reserved" => ~busy
  /\ {valid, abort, busy} \subseteq BOOLEAN

IInv == Registers /\ Waiting /\ Working /\ Starting /\ Owning

\* At the start the engine rests and nothing is asked.
LEMMA InitInv == PsInit => IInv
<1> SUFFICES ASSUME PsInit PROVE IInv
  OBVIOUS
<1>1. /\ valid = FALSE /\ abort = FALSE /\ busy = FALSE
      /\ pc = "idle" /\ owner = "none"
  BY DEF PsInit, Init, DriverInit, CommandInit
<1>2. "st" \in DOMAIN e /\ e.st = "idle"
  BY SMT DEF PsInit, Init, EngineInit
<1> QED
  BY <1>1, <1>2, Zenon DEF IInv, Registers, Waiting, Working, Starting, Owning, Resting

\* From rest the engine goes to work only on a valid command, and an abort is
\* acknowledged at once; from its end it comes to rest.
LEMMA CopyKeeps ==
  ASSUME Registers, Copy
  PROVE  /\ Registers'
         /\ e.st \notin Resting
         /\ e.st = "done" => e'.st = "idle"
<1> USE DEF Registers, Become, Wait, Resting
<1>1. CASE LineBegin
  BY <1>1, SMT DEF LineBegin
<1>2. CASE IssueRead
  BY <1>2, Zenon DEF IssueRead
<1>3. CASE TakeBeat
  BY <1>3, Zenon DEF TakeBeat
<1>4. CASE ReadOld
  BY <1>4, Zenon DEF ReadOld
<1>5. CASE WriteLine
  BY <1>5, SMT DEF WriteLine
<1>6. CASE LineWritten
  BY <1>6, SMT DEF LineWritten
<1>7. CASE PrepareWrite
  BY <1>7, SMT DEF PrepareWrite
<1>8. CASE IssueWrite
  BY <1>8, Zenon DEF IssueWrite
<1>9. CASE BeatBegin
  BY <1>9, SMT DEF BeatBegin
<1>10. CASE ReadLine
  BY <1>10, Zenon DEF ReadLine
<1>11. CASE WriteBeat
  BY <1>11, Zenon DEF WriteBeat
<1>12. CASE BurstWritten
  BY <1>12, SMT DEF BurstWritten
<1>13. CASE Done
  BY <1>13, SMT DEF Done
<1> QED
  BY <1>1, <1>2, <1>3, <1>4, <1>5, <1>6, <1>7, <1>8, <1>9, <1>10, <1>11, <1>12, <1>13 DEF Copy

\* What the engine does at rest, at its end, and when an abort waits.
LEMMA Rest ==
  ASSUME Registers, Engine
  PROVE  /\ Registers'
         /\ e.st = "idle" /\ abort => e'.st = "abort_done"
         /\ e.st = "idle" /\ ~abort /\ ~valid => e'.st = "idle"
         /\ e.st = "abort_done" => e'.st = "idle"
         /\ e.st = "done" => e'.st \in Resting
<1> USE DEF Registers, Become, Wait
<1>1. CASE AbortNow
  <2>0. abort /\ e.st # "abort_done"
    BY <1>1 DEF AbortNow, Aborting
  <2>1. AbortRead \/ AbortLine
    BY <1>1 DEF Engine
  <2>2. CASE AbortRead
    <3>1. e.st \in {"w_ar", "w_r", "w_line"}
      BY <2>2 DEF AbortRead
    <3>2. CASE e.st = "w_ar"
      BY <2>2, <3>2, Zenon DEF AbortRead
    <3>3. CASE e.st = "w_r"
      BY <2>2, <3>3, Zenon DEF AbortRead
    <3>4. CASE e.st = "w_line"
      BY <2>2, <3>4, SMT DEF AbortRead
    <3> QED
      BY <3>1, <3>2, <3>3, <3>4
  <2>3. CASE AbortLine
    <3>1. e.st \in {"w_rmw", "w_write", "w_rmw_wait", "w_write_wait", "idle", "done"}
      BY <2>3, Zenon DEF AbortLine
    <3>2. CASE e.st \in {"w_rmw", "w_write", "w_rmw_wait", "w_write_wait"}
      BY <2>3, <3>2, Zenon DEF AbortLine
    <3>3. CASE e.st \in {"idle", "done"}
      <4>1. e' = [e EXCEPT !.st = "abort_done"]
        BY <2>3, <3>3, Zenon DEF AbortLine
      <4> QED
        BY <2>0, <4>1, Zenon DEF Resting
    <3> QED
      BY <3>1, <3>2, <3>3
  <2> QED
    BY <2>1, <2>2, <2>3
<1>2. CASE ~AbortNow
  <2>0. Accept \/ Copy \/ Drain
    BY <1>2 DEF Engine
  <2>a. e.st = "idle" => ~abort
    BY <1>2 DEF AbortNow, Aborting
  <2>1. CASE Accept
    <3>1. e.st = "idle"
      BY <2>1 DEF Accept
    <3>2. CASE ~valid
      BY <2>1, <2>a, <3>1, <3>2 DEF Accept
    <3>3. CASE valid
      <4>1. Registers'
        BY <2>1, <3>3, SMT DEF Accept
      <4> QED
        BY <2>a, <3>1, <3>3, <4>1
    <3> QED
      BY <3>2, <3>3
  <2>2. CASE Drain
    <3>1. e.st \in {"abort_r", "abort_mc", "abort_done"}
      BY <2>2 DEF Drain
    <3>2. CASE e.st = "abort_r"
      BY <2>2, <3>2, Zenon DEF Drain
    <3>3. CASE e.st = "abort_mc"
      BY <2>2, <3>3, SMT DEF Drain
    <3>4. CASE e.st = "abort_done"
      BY <2>2, <3>4, SMT DEF Drain
    <3> QED
      BY <3>1, <3>2, <3>3, <3>4
  <2>3. CASE Copy
    BY <2>3, CopyKeeps DEF Resting
  <2> QED
    BY <2>0, <2>1, <2>2, <2>3
<1> QED
  BY <1>1, <1>2

\* Every edge keeps the flags and the engine's state in step.
LEMMA NextInv == IInv /\ [PsNext]_vars => IInv'
<1> SUFFICES ASSUME IInv, [PsNext]_vars PROVE IInv'
  OBVIOUS
<1> USE DEF IInv
<1>1. CASE UNCHANGED vars
  BY <1>1, SMT DEF vars, evars, dvars, command, Registers, Waiting, Working, Starting, Owning
<1>2. CASE Step
  <2>1. Engine /\ Command(NoWrite)
    BY <1>2 DEF Step, Edge
  <2>2. /\ valid' = (valid /\ e.st # "idle")
        /\ abort' = (abort /\ e.st # "abort_done")
        /\ busy' = (busy /\ e.st \notin {"done", "abort_done"})
    BY <2>1, SMT DEF Command, NoWrite, Owning
  <2>3. Registers' /\ Waiting' /\ Working'
    BY <2>1, <2>2, Rest, SMT DEF Waiting, Working, Resting, Owning
  <2>4. CASE UNCHANGED dvars
    BY <2>1, <2>2, <2>3, <2>4, Rest, SMT DEF dvars, Starting, Owning, Waiting, Working, Resting
  <2>5. CASE Driver
    <3>1. Owning'
      BY <2>2, <2>5, SMT DEF Driver, Claim, CheckBusy, Poll, AwaitDrain, Reserve, Release,
         Return, AbortFor, dvars, Owning
    <3>2. pc' = "go" => pc = "status" /\ ~busy
      BY <2>5, SMT DEF Driver, Claim, CheckBusy, Poll, AwaitDrain, Reserve, Release,
         Return, AbortFor, dvars, Owning
    <3>3. Starting'
      BY <2>1, <2>2, <3>2, Rest, SMT DEF Starting, Waiting, Working, Resting, Owning
    <3> QED
      BY <2>3, <3>1, <3>3
  <2> QED
    BY <1>2, <2>4, <2>5 DEF Step
<1>3. CASE KickEdge
  <2>1. Engine /\ Command(Go(wanted)) /\ Kick
    BY <1>3 DEF KickEdge, Edge
  <2>2. valid' /\ ~abort' /\ busy'
    BY <2>1, Zenon DEF Command, Go
  <2>3. ~busy /\ ~valid /\ ~(e.st = "idle" /\ abort) /\ e.st \in Resting
    BY <2>1 DEF Kick, Starting, Waiting, Working
  <2>4. Registers' /\ e'.st = "idle"
    BY <2>1, <2>3, Rest DEF Resting
  <2>5. valid' = TRUE /\ abort' = FALSE /\ busy' = TRUE
    BY <2>1, Zenon DEF Command, Go
  <2>6. pc = "go" /\ pc' = "poll" /\ owner' = owner
    BY <2>1 DEF Kick
  <2> QED
    BY <2>4, <2>5, <2>6, Zenon DEF Waiting, Working, Starting, Owning, Resting
<1>4. CASE AbortEdge
  <2>1. Engine /\ Command(AbortWrite) /\ AskAbort
    BY <1>4 DEF AbortEdge, Edge
  <2>2. /\ valid' = (~busy /\ valid /\ e.st # "idle")
        /\ abort' = (busy \/ (abort /\ e.st # "abort_done"))
        /\ busy' = (busy /\ e.st \notin {"done", "abort_done"})
    BY <2>1, SMT DEF Command, AbortWrite, Owning
  <2>3. Registers' /\ Waiting' /\ Working'
    BY <2>1, <2>2, Rest, SMT DEF Waiting, Working, Resting, Owning
  <2>4. pc = "abort" /\ pc' = "drain" /\ owner' = owner
    BY <2>1 DEF AskAbort
  <2> QED
    BY <2>2, <2>3, <2>4, SMT DEF Starting, Owning
<1> QED
  BY <1>1, <1>2, <1>3, <1>4 DEF PsNext

\* BUSY, the command and the driver stay in step.
THEOREM Invariance == PsSpec => []IInv
  BY InitInv, NextInv, PTL DEF PsSpec

\* What psdma_acquire promises its caller: until psdma_release no command of
\* the engine runs or waits to run, whatever transfers timed out or were
\* aborted before.
THEOREM Reserved == PsSpec => []ReservedIsQuiet
<1>1. IInv => ReservedIsQuiet
  BY SMT DEF IInv, ReservedIsQuiet, Waiting, Working, Owning, Resting
<1> QED
  BY <1>1, Invariance, PTL

-----------------------------------------------------------------------------
(* Addresses                                                              *)

\* The first byte of a line, or of a beat.
At(i) == i * W

\* Lines and beats hold at least one byte.
LEMMA Width == W \in Nat \ {0} /\ W \in Int /\ W > 0 /\ Bytes = 0 .. W - 1
BY WidthAssumption DEF Bytes

\* First bytes are numbers.
LEMMA AtInt == ASSUME NEW i \in Int PROVE At(i) \in Int
BY Width DEF At

\* The first byte of a line is an address.
LEMMA AtNat == ASSUME NEW i \in Nat PROVE At(i) \in Nat
BY Width, SMT DEF At

\* First bytes add up.
LEMMA AtPlus == ASSUME NEW i \in Int, NEW j \in Int PROVE At(i + j) = At(i) + At(j)
BY Width, SMT DEF At

\* The next line begins W bytes on, the one before it W bytes back.
LEMMA AtNext == ASSUME NEW i \in Int PROVE At(i + 1) = At(i) + W /\ At(i - 1) = At(i) - W
BY Width, SMT DEF At

\* A line whose first byte comes first comes first.
LEMMA AtLess == ASSUME NEW i \in Int, NEW j \in Int, At(i) < At(j) PROVE i < j
BY Width, SMT DEF At

\* Lines in order have first bytes in order.
LEMMA AtMost == ASSUME NEW i \in Int, NEW j \in Int, i <= j PROVE At(i) <= At(j)
BY Width, SMT DEF At

\* Every address is a line and a byte of it.
LEMMA Split ==
  ASSUME NEW a \in Nat
  PROVE  /\ a \div W \in Nat /\ a % W \in Bytes
         /\ a = At(a \div W) + (a % W)
BY Width, SMT DEF At

\* A line and a byte of it give back the line and the byte.
LEMMA Unique ==
  ASSUME NEW i \in Nat, NEW b \in Bytes
  PROVE  (At(i) + b) \div W = i /\ (At(i) + b) % W = b /\ At(i) + b \in Nat
BY Width, SMT DEF At

\* In which line a byte is.
LEMMA Within ==
  ASSUME NEW i \in Nat, NEW a \in Int, At(i) <= a, a < At(i) + W
  PROVE  a \div W = i /\ a % W = a - At(i) /\ a - At(i) \in Bytes
<1> DEFINE b == a - At(i)
<1>1. b \in Bytes /\ a = At(i) + b
  <2>1. At(i) \in Int
    BY AtInt
  <2> QED
    BY <2>1, Width
<1> HIDE DEF b
<1>2. (At(i) + b) \div W = i /\ (At(i) + b) % W = b
  BY <1>1, Unique, Zenon
<1> QED
  BY <1>1, <1>2 DEF b

\* How a number of bytes fills lines.
LEMMA Filled ==
  ASSUME NEW x \in Nat \ {0}
  PROVE  LET n == (x + W - 1) \div W  l == ((x - 1) % W) + 1 IN
         /\ n \in Nat \ {0} /\ l \in 1 .. W
         /\ x = At(n) - W + l /\ At(n) - W < x /\ x <= At(n)
<1> DEFINE i == (x - 1) \div W
           b == (x - 1) % W
<1>1. x - 1 \in Nat
  OBVIOUS
<1>2. i \in Nat /\ b \in Bytes /\ x - 1 = At(i) + b
  BY <1>1, Split, Zenon
<1> HIDE DEF i, b
<1>3. i + 1 \in Nat \ {0} /\ At(i) \in Int /\ At(i + 1) = At(i) + W
  BY <1>2, AtInt, AtNext
<1>4. b + 1 \in 1 .. W /\ b \in 0 .. W - 1 /\ b \in Nat
  BY <1>2, Width
<1>5. x + W - 1 = At(i + 1) + b
  BY <1>2, <1>3, <1>4, Width
<1>6. (x + W - 1) \div W = i + 1
  BY <1>2, <1>3, <1>5, Unique
<1>7. /\ x = At(i + 1) - W + (b + 1) /\ At(i + 1) - W < x /\ x <= At(i + 1)
  BY <1>2, <1>3, <1>4, Width
<1> QED
  BY <1>3, <1>4, <1>6, <1>7, Zenon DEF b

\* A request's lines and beats.
LEMMA Requested ==
  ASSUME NEW q \in Requests
  PROVE  LET i == q.mc \div W  o == q.mc % W
             n == NumLines(q)  m == NumBeats(q)  l == LastBytes(q)
         IN  /\ q.mc \in Nat /\ q.ddr \in Nat /\ q.len \in Nat \ {0} /\ q.rw \in BOOLEAN
             /\ i \in Nat /\ o \in 0 .. W - 1 /\ q.mc = At(i) + o
             /\ n \in Nat \ {0} /\ m \in Nat \ {0} /\ l \in 1 .. W
             /\ o + q.len = At(n) - W + l
             /\ At(m) - W < q.len /\ q.len <= At(m)
             /\ n = m \/ n = m + 1
             /\ i + n <= Lines /\ q.ddr + m <= Beats
<1> DEFINE i == q.mc \div W
           o == q.mc % W
           n == NumLines(q)
           m == NumBeats(q)
           l == LastBytes(q)
<1>1. /\ q.mc \in Nat /\ q.ddr \in Nat /\ q.len \in Nat \ {0} /\ q.rw \in BOOLEAN
      /\ q.mc + q.len <= At(Lines) /\ At(q.ddr) + q.len <= At(Beats)
      /\ Lines \in Nat /\ Beats \in Nat
  BY RequestsAssumption, WidthAssumption DEF At
<1>2. i \in Nat /\ o \in 0 .. W - 1 /\ q.mc = At(i) + o
  BY <1>1, Split, Zenon DEF Bytes
<1>3. o + q.len \in Nat \ {0}
  <2> HIDE DEF o
  <2> QED
    BY <1>1, <1>2, Width
<1>4. /\ n \in Nat \ {0} /\ l \in 1 .. W
      /\ o + q.len = At(n) - W + l /\ At(n) - W < o + q.len /\ o + q.len <= At(n)
  <2>1. ((o + q.len) + (W - 1)) \div W = n /\ ((o + (q.len - 1)) % W) + 1 = l
    BY Zenon DEF NumLines, LastBytes
  <2> HIDE DEF n, l, o
  <2>2. o + (q.len - 1) = (o + q.len) - 1
    BY <1>1, <1>2, Width
  <2> QED
    BY <1>3, <2>1, <2>2, Filled, Zenon
<1>5. m \in Nat \ {0} /\ At(m) - W < q.len /\ q.len <= At(m)
  BY <1>1, Filled, Zenon DEF NumBeats
<1> HIDE DEF i, o, n, m, l
<1>0. /\ At(i) \in Int /\ At(n) \in Int /\ At(m) \in Int
      /\ At(q.ddr) \in Int /\ At(Lines) \in Int /\ At(Beats) \in Int
      /\ At(m - 1) = At(m) - W /\ At(m + 1) = At(m) + W /\ At(n - 1) = At(n) - W
      /\ W \in Int /\ W > 0
  <2>1. /\ i \in Int /\ n \in Int /\ m \in Int /\ q.ddr \in Int /\ Lines \in Int /\ Beats \in Int
    BY <1>1, <1>2, <1>4, <1>5
  <2> QED
    BY <2>1, AtInt, AtNext, Width, Zenon
<1>6. n = m \/ n = m + 1
  <2>1. m - 1 < n
    <3>1. At(m - 1) < At(n)
      BY <1>0, <1>1, <1>2, <1>4, <1>5
    <3> QED
      BY <1>4, <1>5, <3>1, AtLess
  <2>2. n - 1 < m + 1
    <3>2. At(n - 1) < At(m + 1)
      BY <1>0, <1>1, <1>2, <1>4, <1>5
    <3> QED
      BY <1>4, <1>5, <3>2, AtLess
  <2> QED
    BY <1>4, <1>5, <2>1, <2>2
<1>7. i + n <= Lines
  <2>1. At(i + (n - 1)) = At(i) + (At(n) - W)
    BY <1>0, <1>2, <1>4, AtPlus
  <2>2. At(i + (n - 1)) < At(Lines)
    BY <1>0, <1>1, <1>2, <1>4, <2>1
  <2>3. i + (n - 1) < Lines
    BY <1>1, <1>2, <1>4, <2>2, AtLess
  <2> QED
    BY <1>1, <1>2, <1>4, <2>3
<1>8. q.ddr + m <= Beats
  <2>1. At(q.ddr + (m - 1)) = At(q.ddr) + (At(m) - W)
    <3>1. q.ddr \in Int /\ m - 1 \in Int
      BY <1>1, <1>5
    <3>2. At(q.ddr + (m - 1)) = At(q.ddr) + At(m - 1)
      BY ONLY <3>1, AtPlus
    <3> QED
      BY <1>0, <3>2
  <2>2. At(q.ddr + (m - 1)) < At(Beats)
    BY <1>0, <1>1, <1>5, <2>1
  <2>3. q.ddr + (m - 1) < Beats
    BY <1>1, <1>5, <2>2, AtLess
  <2> QED
    BY <1>1, <1>5, <2>3
<1> QED
  BY <1>1, <1>2, <1>4, <1>5, <1>6, <1>7, <1>8, Zenon DEF i, o, n, m, l

\* Division with remainder.
LEMMA DivSplit ==
  ASSUME NEW w \in Nat \ {0}, NEW a \in Nat
  PROVE  a \div w \in Nat /\ a % w \in 0 .. w - 1 /\ a = ((a \div w) * w) + (a % w)
BY SMT

\* Quotient and remainder are determined.
LEMMA DivUnique ==
  ASSUME NEW w \in Nat \ {0}, NEW i \in Nat, NEW b \in 0 .. w - 1
  PROVE  ((i * w) + b) \div w = i /\ ((i * w) + b) % w = b
BY SMT

\* The burst that the address and the counters allow stays in its page.
LEMMA CapFits ==
  ASSUME e.issue \in Nat \ {0}, NextBeat \in Nat
  PROVE  /\ BurstCap \in Nat /\ BurstCap \in 1 .. Min2(MaxBurst, e.issue)
         /\ NextBeat \div PageBeats = (NextBeat + BurstCap - 1) \div PageBeats
<1> DEFINE x == NextBeat
           c == x \div PageBeats
           p == x % PageBeats
           k == PageBeats \div MaxBurst
           s == x % MaxBurst
           page == IF p >= PageBeats - MaxBurst THEN MaxBurst - s ELSE MaxBurst
<1>1. MaxBurst \in Nat \ {0} /\ PageBeats \in Nat \ {0} /\ PageBeats % MaxBurst = 0
  BY WidthAssumption
<1>2. c \in Nat /\ p \in 0 .. PageBeats - 1 /\ x = (c * PageBeats) + p
  BY <1>1, DivSplit
<1>3. k \in Nat /\ PageBeats = k * MaxBurst
  <2>1. k \in Nat /\ PageBeats = (k * MaxBurst) + (PageBeats % MaxBurst)
    BY <1>1, DivSplit
  <2> HIDE DEF k
  <2>2. k * MaxBurst \in Int
    BY <1>1, <2>1
  <2> QED
    BY <1>1, <2>1, <2>2
<1>4. s \in 0 .. MaxBurst - 1
  BY <1>1, DivSplit
<1>5. BurstCap = Min2(Min2(e.issue, MaxBurst), page)
  BY DEF BurstCap
<1> HIDE DEF x, c, p, k, s
<1>6. k # 0
  BY <1>1, <1>3, SMT
<1>7. ASSUME p >= PageBeats - MaxBurst PROVE s = p - (PageBeats - MaxBurst)
  <2> DEFINE d == p - (PageBeats - MaxBurst)
             i == (c * k) + (k - 1)
  <2>1. d \in 0 .. MaxBurst - 1
    BY <1>1, <1>2, <1>7
  <2>2. i \in Nat
    <3>1. c * k \in Nat /\ k - 1 \in Nat
      BY <1>2, <1>3, <1>6, SMT
    <3> QED
      BY <3>1
  <2>3. x = (i * MaxBurst) + d
    <3>1. c * PageBeats = (c * k) * MaxBurst
      BY <1>1, <1>2, <1>3, SMT
    <3>2. i * MaxBurst = ((c * k) * MaxBurst) + (PageBeats - MaxBurst)
      BY <1>1, <1>2, <1>3, SMT
    <3>3. (c * k) * MaxBurst \in Int
      BY <1>1, <1>2, <1>3, SMT
    <3> HIDE DEF i
    <3> DEFINE y == (c * k) * MaxBurst
               z == i * MaxBurst
    <3>4. x = y + p /\ z = y + (PageBeats - MaxBurst) /\ y \in Int
      BY <1>2, <3>1, <3>2, <3>3
    <3> HIDE DEF y, z
    <3>5. x = z + d
      BY <1>1, <1>2, <3>4
    <3> QED
      BY <3>5 DEF z
  <2> HIDE DEF d, i
  <2>4. x % MaxBurst = d
    BY <1>1, <2>1, <2>2, <2>3, DivUnique
  <2> QED
    BY <2>4 DEF s, d
<1>8. /\ page \in 1 .. MaxBurst /\ p + page - 1 < PageBeats
  BY <1>1, <1>2, <1>4, <1>7
<1> HIDE DEF page
<1>9. /\ BurstCap \in Nat /\ BurstCap >= 1 /\ BurstCap <= e.issue /\ BurstCap <= MaxBurst
      /\ BurstCap <= page
  BY <1>1, <1>5, <1>8 DEF Min2
<1>10. (x + BurstCap - 1) \div PageBeats = c
  <2> DEFINE d == p + (BurstCap - 1)
  <2>1. d \in 0 .. PageBeats - 1
    BY <1>1, <1>2, <1>8, <1>9
  <2>2. x + (BurstCap - 1) = (c * PageBeats) + d
    <3>1. c * PageBeats \in Int
      BY <1>1, <1>2, SMT
    <3> DEFINE y == c * PageBeats
    <3> HIDE DEF y
    <3>2. y \in Int /\ x = y + p
      BY <1>2, <3>1 DEF y
    <3>3. x + (BurstCap - 1) = y + d
      BY <1>2, <1>9, <3>2
    <3> QED
      BY <3>3 DEF y
  <2> HIDE DEF d
  <2> QED
    BY <1>1, <1>2, <2>1, <2>2, DivUnique
<1> QED
  BY <1>1, <1>9, <1>10 DEF x, c, Min2

-----------------------------------------------------------------------------
(* What a clock edge does to the registers                                *)

Fields == {"st", "rq", "idx", "left", "loaded", "issue", "burst", "fetch", "last", "part",
           "lo", "hi", "old", "out"}

\* The registers outside F keep their value.
Same(F) == Fields \subseteq DOMAIN e' /\ \A f \in Fields \ F : e'[f] = e[f]

\* The states of a copy to the PSRAM, and of one to the DDR; where the engine
\* has asked the PSRAM port for a line, and where it waits for it.
ToPsram == {"w_line", "w_ar", "w_r", "w_rmw", "w_rmw_wait", "w_write", "w_write_wait"}
ToDdr == {"r_prep", "r_aw", "r_beat", "r_mc", "r_mc_wait", "r_w", "r_b"}
Ended == {"idle", "done", "abort_r", "abort_mc", "abort_done"}
Asking == e.st \in {"w_rmw", "w_write", "r_mc"}
Awaiting == e.st \in {"w_rmw_wait", "w_write_wait", "r_mc_wait"}

Stays == Same({}) /\ (Asking => ~ready) /\ (Awaiting => ~rvalid)

\* A change of state and of nothing else.
Turns(st) ==
  /\ Same({"st"}) /\ e'.st = st
  /\ st = "w_r" => e.st = "w_line" /\ e.fetch # 0 /\ e.burst # 0
  /\ st = "w_ar" => e.st = "w_line" /\ e.fetch # 0 /\ e.burst = 0
  /\ st = "w_rmw" => e.st = "w_line" /\ e.fetch = 0 /\ e.part
  /\ st = "w_write" => e.st = "w_line" /\ e.fetch = 0 /\ ~e.part
  /\ st = "w_rmw_wait" => e.st = "w_rmw" /\ ready
  /\ st = "w_write_wait" => e.st = "w_write" /\ ready
  /\ st = "r_aw" => e.st = "r_prep" \/ (e.st = "r_b" /\ e.left # 0 /\ write.left = 0)
  /\ st = "r_mc" => e.st = "r_beat" /\ e.fetch # 0
  /\ st = "r_mc_wait" => e.st = "r_mc" /\ ready
  /\ st = "done" => e.st = "r_b" /\ e.left = 0
  /\ st = "abort_r" => e.st = "w_r" \/ (e.st = "w_line" /\ e.burst # 0)
  /\ st \in {"w_r", "w_ar", "w_rmw", "w_write", "w_rmw_wait", "w_write_wait", "r_aw", "r_mc",
             "r_mc_wait", "done", "abort_r", "abort_mc", "abort_done", "idle"}

Begins ==
  LET n == NumLines(cmd)  m == NumBeats(cmd)  off == cmd.mc % W
  IN  /\ e.st = "idle" /\ valid
      /\ Fields \subseteq DOMAIN e'
      /\ e'.st = IF cmd.rw THEN "w_line" ELSE "r_prep"
      /\ e'.rq = cmd /\ e'.idx = 0 /\ e'.loaded = 0 /\ e'.burst = 0 /\ e'.issue = m
      /\ e'.left = IF cmd.rw THEN n ELSE m
      /\ e'.fetch = IF cmd.rw \/ off = 0 \/ n = 1 THEN 1 ELSE 2
      /\ e'.last = IF cmd.rw THEN n = 1 ELSE m = 1
      /\ e'.part = (off # 0 \/ (n = 1 /\ LastBytes(cmd) # W))
      /\ was' = [ddr |-> ddr, psram |-> psram, clean |-> reads = <<>> /\ port = NoOp]

IssuesRead ==
  /\ e.st = "w_ar" /\ Same({"st", "burst", "issue"})
  /\ e'.st = "w_r" /\ e'.burst = size /\ e'.issue = e.issue - size
  /\ reads' = reads \o [k \in 1 .. size |-> NextBeat + k - 1]

IssuesLast ==
  /\ e.st = "w_ar" /\ Same({"st", "burst"})
  /\ e'.st = "abort_r" /\ e'.burst = size
  /\ reads' = reads \o [k \in 1 .. size |-> NextBeat + k - 1]

TakesBeat ==
  /\ e.st = "w_r" /\ Same({"st", "lo", "hi", "burst", "fetch"})
  /\ reads # <<>> /\ reads' = Tail(reads)
  /\ e'.st = "w_line" /\ e'.lo = e.hi /\ e'.hi = Part(ddr, Head(reads))
  /\ e'.burst = e.burst - 1 /\ e'.fetch = e.fetch - 1

DropsBeat ==
  /\ e.st \in {"w_r", "abort_r"} /\ Same({"st", "burst"})
  /\ reads # <<>> /\ reads' = Tail(reads)
  /\ e'.burst = e.burst - 1 /\ e'.st = IF e.burst = 1 THEN "abort_done" ELSE "abort_r"

KeepsOld ==
  /\ e.st = "w_rmw_wait" /\ rvalid /\ Same({"st", "old"})
  /\ e'.st = "w_write" /\ e'.old = rdata

NextLine ==
  /\ e.st = "w_write_wait" /\ rvalid /\ e.left # 1
  /\ Same({"st", "left", "idx", "last", "fetch", "part"})
  /\ e'.st = "w_line" /\ e'.left = e.left - 1 /\ e'.idx = e.idx + 1
  /\ e'.last = (e.left = 2)
  /\ e'.fetch = IF e.left = 2 /\ HasExtra THEN 0 ELSE 1
  /\ e'.part = (e.left = 2 /\ LastBytes(e.rq) # W)

LastLine ==
  /\ e.st = "w_write_wait" /\ rvalid /\ e.left = 1 /\ Same({"st", "left"})
  /\ e'.st = "done" /\ e'.left = 0

IssuesWrite ==
  /\ e.st = "r_aw" /\ Same({"st", "burst", "issue"})
  /\ e'.st = "r_beat" /\ e'.burst = size /\ e'.issue = e.issue - size
  /\ write' = [next |-> NextBeat, left |-> size]

Gathers ==
  /\ e.st = "r_beat" /\ e.fetch = 0 /\ Same({"st", "out"})
  /\ e'.st = "r_w" /\ e'.out = BeatData

KeepsLine ==
  /\ e.st = "r_mc_wait" /\ rvalid /\ Same({"st", "lo", "hi", "loaded", "fetch"})
  /\ e'.st = "r_beat" /\ e'.lo = e.hi /\ e'.hi = rdata
  /\ e'.loaded = e.loaded + 1 /\ e'.fetch = e.fetch - 1

WritesBeat ==
  /\ e.st = "r_w" /\ Same({"st", "burst", "idx", "left", "last", "fetch"})
  /\ e'.st = IF e.burst = 1 THEN "r_b" ELSE "r_beat"
  /\ e'.burst = e.burst - 1 /\ e'.idx = e.idx + 1 /\ e'.left = e.left - 1
  /\ e'.last = (e.left = 2)
  /\ e'.fetch = IF e.left = 2 /\ Off # 0 /\ ~HasExtra THEN 0 ELSE 1
  /\ ddr' = Put(ddr, write.next, e.out)
  /\ write' = [next |-> write.next + 1, left |-> write.left - 1]

\* What a clock edge does to the engine's registers, the AXI port and the DDR.
Moves ==
  \/ Stays /\ UNCHANGED <<axi, was>>
  \/ (\E st : Turns(st)) /\ UNCHANGED <<axi, was>>
  \/ Begins /\ UNCHANGED axi
  \/ (IssuesRead \/ IssuesLast \/ TakesBeat \/ DropsBeat) /\ UNCHANGED <<write, ddr, was>>
  \/ (KeepsOld \/ NextLine \/ LastLine \/ Gathers \/ KeepsLine) /\ UNCHANGED <<axi, was>>
  \/ IssuesWrite /\ UNCHANGED <<reads, ddr, was>>
  \/ WritesBeat /\ UNCHANGED <<reads, was>>

\* A change of state and nothing else.
LEMMA BecomeIs == ASSUME Fields \subseteq DOMAIN e, NEW st, Become(st)
  PROVE Same({"st"}) /\ e'.st = st
BY Zenon DEF Become, Same, Fields

\* Every step of a copy is one of the moves.
LEMMA CopyMoves ==
  ASSUME Fields \subseteq DOMAIN e, Copy, UNCHANGED was
  PROVE  Moves
<1> USE DEF Wait, Quiet
<1>a. UNCHANGED e => Same({})
  BY Zenon DEF Same
<1>1. CASE LineBegin
  <2>1. \E st : Turns(st)
    BY <1>1, BecomeIs, SMT DEF LineBegin, Turns
  <2> QED
    BY <1>1, <2>1 DEF Moves, LineBegin
<1>2. CASE IssueRead
  <2>1. CASE Wait
    BY <1>2, <1>a, <2>1, SMT DEF IssueRead, Moves, Stays, Asking, Awaiting
  <2>2. CASE ~Wait
    <3>1. IssuesRead /\ UNCHANGED <<write, ddr>>
      BY <1>2, <2>2, Zenon DEF IssueRead, IssuesRead, Same, Fields
    <3> QED
      BY <3>1 DEF Moves
  <2> QED
    BY <2>1, <2>2
<1>3. CASE TakeBeat
  <2>1. CASE Wait
    BY <1>3, <1>a, <2>1, SMT DEF TakeBeat, Moves, Stays, Asking, Awaiting
  <2>2. CASE ~Wait
    <3>1. TakesBeat /\ UNCHANGED <<write, ddr>>
      BY <1>3, <2>2, Zenon DEF TakeBeat, TakesBeat, Same, Fields
    <3> QED
      BY <3>1 DEF Moves
  <2> QED
    BY <2>1, <2>2
<1>4. CASE ReadOld
  <2>1. CASE e.st = "w_rmw" /\ Quiet /\ IF ready THEN Become("w_rmw_wait") ELSE UNCHANGED e
    <3>1. CASE ready
      <4>1. Turns("w_rmw_wait")
        BY <2>1, <3>1, BecomeIs, SMT DEF Turns
      <4> QED
        BY <1>4, <2>1, <4>1 DEF Moves
    <3>2. CASE ~ready
      BY <1>a, <2>1, <3>2, SMT DEF Moves, Stays, Asking, Awaiting
    <3> QED
      BY <3>1, <3>2
  <2>2. CASE /\ e.st = "w_rmw_wait" /\ Quiet
             /\ e' = IF rvalid THEN [e EXCEPT !.st = "w_write", !.old = rdata] ELSE e
    <3>1. CASE rvalid
      <4>1. KeepsOld
        BY <2>2, <3>1, Zenon DEF KeepsOld, Same, Fields
      <4> QED
        BY <2>2, <4>1 DEF Moves
    <3>2. CASE ~rvalid
      BY <1>a, <2>2, <3>2, SMT DEF Moves, Stays, Asking, Awaiting
    <3> QED
      BY <3>1, <3>2
  <2> QED
    BY <1>4, <2>1, <2>2, Zenon DEF ReadOld
<1>5. CASE WriteLine
  <2>1. CASE ready
    <3>1. Turns("w_write_wait")
      BY <1>5, <2>1, BecomeIs, SMT DEF Turns, WriteLine
    <3> QED
      BY <1>5, <3>1 DEF Moves, WriteLine
  <2>2. CASE ~ready
    BY <1>5, <1>a, <2>2, SMT DEF Moves, Stays, Asking, Awaiting, WriteLine
  <2> QED
    BY <2>1, <2>2
<1>6. CASE LineWritten
  <2>0. e.st = "w_write_wait" /\ UNCHANGED axi
    BY <1>6 DEF LineWritten
  <2>1. CASE ~rvalid
    BY <1>6, <1>a, <2>1, SMT DEF Moves, Stays, Asking, Awaiting, LineWritten
  <2>2. CASE rvalid /\ e.left = 1
    <3>1. LastLine
      BY <1>6, <2>2, Zenon DEF LastLine, LineWritten, Same, Fields
    <3> QED
      BY <2>0, <3>1 DEF Moves
  <2>3. CASE rvalid /\ e.left # 1
    <3>1. e' = [e EXCEPT !.st = "w_line", !.left = @ - 1, !.idx = @ + 1,
                         !.last = e.left = 2,
                         !.fetch = IF e.left = 2 /\ HasExtra THEN 0 ELSE 1,
                         !.part = e.left = 2 /\ LastBytes(e.rq) # W]
      BY <1>6, <2>3, Zenon DEF LineWritten
    <3>2. NextLine
      BY <2>0, <2>3, <3>1, Zenon DEF NextLine, Same, Fields
    <3> QED
      BY <2>0, <3>2 DEF Moves
  <2> QED
    BY <2>1, <2>2, <2>3
<1>7. CASE PrepareWrite
  <2>1. Same({"st"}) /\ e'.st = "r_aw" /\ e.st = "r_prep"
    BY <1>7, BecomeIs, Zenon DEF PrepareWrite
  <2>2. Turns("r_aw")
    BY <2>1, SMT DEF Turns
  <2> QED
    BY <1>7, <2>2 DEF Moves, PrepareWrite
<1>8. CASE IssueWrite
  <2>1. CASE Wait
    BY <1>8, <1>a, <2>1, SMT DEF IssueWrite, Moves, Stays, Asking, Awaiting
  <2>2. CASE ~Wait
    <3>1. IssuesWrite /\ UNCHANGED <<reads, ddr>>
      BY <1>8, <2>2, Zenon DEF IssueWrite, IssuesWrite, Same, Fields
    <3> QED
      BY <3>1 DEF Moves
  <2> QED
    BY <2>1, <2>2
<1>9. CASE BeatBegin
  <2>0. e.st = "r_beat" /\ UNCHANGED axi
    BY <1>9 DEF BeatBegin
  <2>1. CASE e.fetch # 0
    <3>1. Become("r_mc")
      BY <1>9, <2>1 DEF BeatBegin, Become
    <3>2. Turns("r_mc")
      BY <2>0, <2>1, <3>1, BecomeIs, SMT DEF Turns
    <3> QED
      BY <2>0, <3>2 DEF Moves
  <2>2. CASE e.fetch = 0
    <3>1. Gathers
      BY <1>9, <2>2, Zenon DEF Gathers, BeatBegin, Same, Fields
    <3> QED
      BY <2>0, <3>1 DEF Moves
  <2> QED
    BY <2>1, <2>2
<1>10. CASE ReadLine
  <2>1. CASE e.st = "r_mc" /\ Quiet /\ IF ready THEN Become("r_mc_wait") ELSE UNCHANGED e
    <3>1. CASE ready
      <4>1. Turns("r_mc_wait")
        BY <2>1, <3>1, BecomeIs, SMT DEF Turns
      <4> QED
        BY <2>1, <4>1 DEF Moves
    <3>2. CASE ~ready
      BY <1>a, <2>1, <3>2, SMT DEF Moves, Stays, Asking, Awaiting
    <3> QED
      BY <3>1, <3>2
  <2>2. CASE /\ e.st = "r_mc_wait" /\ Quiet
             /\ e' = IF ~rvalid THEN e
                     ELSE [e EXCEPT !.st = "r_beat", !.lo = e.hi, !.hi = rdata,
                                    !.loaded = @ + 1, !.fetch = @ - 1]
    <3>1. CASE rvalid
      <4>1. KeepsLine
        BY <2>2, <3>1, Zenon DEF KeepsLine, Same, Fields
      <4> QED
        BY <2>2, <4>1 DEF Moves
    <3>2. CASE ~rvalid
      BY <1>a, <2>2, <3>2, SMT DEF Moves, Stays, Asking, Awaiting
    <3> QED
      BY <3>1, <3>2
  <2> QED
    BY <1>10, <2>1, <2>2, Zenon DEF ReadLine
<1>11. CASE WriteBeat
  <2>1. CASE Wait
    BY <1>11, <1>a, <2>1, SMT DEF WriteBeat, Moves, Stays, Asking, Awaiting
  <2>2. CASE ~Wait
    <3>1. WritesBeat /\ UNCHANGED reads
      BY <1>11, <2>2, Zenon DEF WriteBeat, WritesBeat, Same, Fields
    <3> QED
      BY <3>1 DEF Moves
  <2> QED
    BY <2>1, <2>2
<1>12. CASE BurstWritten
  <2>0. e.st = "r_b" /\ UNCHANGED axi
    BY <1>12 DEF BurstWritten
  <2>1. CASE UNCHANGED e
    BY <1>a, <2>0, <2>1, SMT DEF Moves, Stays, Asking, Awaiting
  <2>2. CASE write.left = 0 /\ Become(IF e.left = 0 THEN "done" ELSE "r_aw")
    <3>1. \E st : Turns(st)
      BY <2>0, <2>2, BecomeIs, SMT DEF Turns
    <3> QED
      BY <2>0, <3>1 DEF Moves
  <2> QED
    BY <1>12, <2>1, <2>2, Zenon DEF BurstWritten
<1>13. CASE Done
  <2>1. Turns("idle")
    BY <1>13, BecomeIs, SMT DEF Turns, Done
  <2> QED
    BY <1>13, <2>1 DEF Moves, Done
<1> QED
  BY <1>1, <1>2, <1>3, <1>4, <1>5, <1>6, <1>7, <1>8, <1>9, <1>10, <1>11, <1>12, <1>13 DEF Copy

\* Taking an abort is one of the moves.
LEMMA AbortMoves ==
  ASSUME Fields \subseteq DOMAIN e, AbortRead \/ AbortLine, UNCHANGED was
  PROVE  Moves
<1> USE DEF Quiet
<1>1. ASSUME NEW st \in {"abort_mc", "abort_done"}, Become(st), Quiet PROVE Moves
  <2>1. Same({"st"}) /\ e'.st = st
    BY <1>1, BecomeIs, Zenon
  <2>2. Turns(st)
    BY <2>1, SMT DEF Turns
  <2> QED
    BY <1>1, <2>2 DEF Moves
<1>2. ASSUME Become("abort_r"), Quiet, e.st = "w_r" \/ (e.st = "w_line" /\ e.burst # 0)
      PROVE  Moves
  <2>1. Same({"st"}) /\ e'.st = "abort_r"
    BY <1>2, BecomeIs, Zenon
  <2>2. Turns("abort_r")
    BY <1>2, <2>1, SMT DEF Turns
  <2> QED
    BY <1>2, <2>2 DEF Moves
<1>3. CASE AbortRead
  <2>1. CASE e.st = "w_ar"
    <3>1. CASE Become("abort_done") /\ Quiet
      BY <1>1, <3>1
    <3>2. CASE ~(Become("abort_done") /\ Quiet)
      <4>1. IssuesLast /\ UNCHANGED <<write, ddr>>
        BY <1>3, <2>1, <3>2, Zenon DEF AbortRead, IssuesLast, Same, Fields
      <4> QED
        BY <4>1 DEF Moves
    <3> QED
      BY <3>1, <3>2
  <2>2. CASE e.st = "w_r"
    <3>1. CASE Become("abort_r") /\ Quiet
      BY <1>2, <2>2, <3>1
    <3>2. CASE ~(Become("abort_r") /\ Quiet)
      <4>1. DropsBeat /\ UNCHANGED <<write, ddr>>
        BY <1>3, <2>2, <3>2, Zenon DEF AbortRead, DropsBeat, Same, Fields
      <4> QED
        BY <4>1 DEF Moves
    <3> QED
      BY <3>1, <3>2
  <2>3. CASE e.st = "w_line"
    <3>1. Become(IF e.burst # 0 THEN "abort_r" ELSE "abort_done") /\ Quiet
      BY <1>3, <2>3, Zenon DEF AbortRead
    <3>2. CASE e.burst # 0
      BY <1>2, <2>3, <3>1, <3>2
    <3>3. CASE e.burst = 0
      BY <1>1, <3>1, <3>3
    <3> QED
      BY <3>2, <3>3
  <2> QED
    BY <1>3, <2>1, <2>2, <2>3, Zenon DEF AbortRead
<1>4. CASE AbortLine
  <2>1. Quiet /\ \E st \in {"abort_mc", "abort_done"} : Become(st)
    BY <1>4, SMT DEF AbortLine
  <2> QED
    BY <1>1, <2>1
<1> QED
  BY <1>3, <1>4

\* Draining is one of the moves.
LEMMA DrainMoves ==
  ASSUME Fields \subseteq DOMAIN e, Drain, UNCHANGED was
  PROVE  Moves
<1> USE DEF Quiet, Wait
<1>a. UNCHANGED e => Same({})
  BY Zenon DEF Same
<1>1. CASE e.st = "abort_r"
  <2>1. CASE Wait
    BY <1>1, <1>a, <2>1, SMT DEF Moves, Stays, Asking, Awaiting
  <2>2. CASE ~Wait
    <3>1. DropsBeat /\ UNCHANGED <<write, ddr>>
      BY <1>1, <2>2, Zenon DEF Drain, DropsBeat, Same, Fields
    <3> QED
      BY <3>1 DEF Moves
  <2> QED
    BY <2>1, <2>2
<1>2. CASE e.st = "abort_mc"
  <2>1. Quiet /\ IF rvalid THEN Become("abort_done") ELSE UNCHANGED e
    BY <1>2, Zenon DEF Drain
  <2>2. CASE rvalid
    <3>1. Same({"st"}) /\ e'.st = "abort_done"
      BY <2>1, <2>2, BecomeIs, Zenon
    <3>2. Turns("abort_done")
      BY <3>1, SMT DEF Turns
    <3> QED
      BY <2>1, <3>2 DEF Moves
  <2>3. CASE ~rvalid
    BY <1>2, <1>a, <2>1, <2>3, SMT DEF Moves, Stays, Asking, Awaiting
  <2> QED
    BY <2>2, <2>3
<1>3. CASE e.st = "abort_done"
  <2>1. Quiet /\ Become("idle")
    BY <1>3, Zenon DEF Drain
  <2>2. Same({"st"}) /\ e'.st = "idle"
    BY <2>1, BecomeIs, Zenon
  <2>3. Turns("idle")
    BY <2>2, SMT DEF Turns
  <2> QED
    BY <2>1, <2>3 DEF Moves
<1> QED
  BY <1>1, <1>2, <1>3, Zenon DEF Drain

\* Every edge of the engine is one of the moves, and settles the burst size.
LEMMA EngineMoves ==
  ASSUME Fields \subseteq DOMAIN e, Engine
  PROVE  Moves /\ size' = BurstCap
<1>0. size' = BurstCap
  BY DEF Engine
<1>1. CASE AbortNow
  BY <1>0, <1>1, AbortMoves, Zenon DEF Engine
<1>2. CASE ~AbortNow /\ (Copy \/ Drain) /\ UNCHANGED was
  BY <1>0, <1>2, CopyMoves, DrainMoves, Zenon DEF Engine
<1>3. CASE ~AbortNow /\ Accept
  <2>1. e.st = "idle" /\ UNCHANGED axi
    BY <1>3, Zenon DEF Accept, Quiet
  <2>2. CASE valid
    <3>0. /\ e' = [e EXCEPT
                  !.st = IF cmd.rw THEN "w_line" ELSE "r_prep",
                  !.rq = cmd, !.idx = 0, !.loaded = 0, !.burst = 0, !.issue = NumBeats(cmd),
                  !.left = IF cmd.rw THEN NumLines(cmd) ELSE NumBeats(cmd),
                  !.fetch = IF cmd.rw \/ cmd.mc % W = 0 \/ NumLines(cmd) = 1 THEN 1 ELSE 2,
                  !.last = IF cmd.rw THEN NumLines(cmd) = 1 ELSE NumBeats(cmd) = 1,
                  !.part = cmd.mc % W # 0 \/ (NumLines(cmd) = 1 /\ LastBytes(cmd) # W)]
          /\ was' = [ddr |-> ddr, psram |-> psram, clean |-> reads = <<>> /\ port = NoOp]
      BY <1>3, <2>2, Zenon DEF Accept
    <3>1. Begins
      <4> DEFINE part == cmd.mc % W # 0 \/ (NumLines(cmd) = 1 /\ LastBytes(cmd) # W)
                 last == IF cmd.rw THEN NumLines(cmd) = 1 ELSE NumBeats(cmd) = 1
                 fetch == IF cmd.rw \/ cmd.mc % W = 0 \/ NumLines(cmd) = 1 THEN 1 ELSE 2
                 left == IF cmd.rw THEN NumLines(cmd) ELSE NumBeats(cmd)
                 st == IF cmd.rw THEN "w_line" ELSE "r_prep"
      <4>1. /\ Fields \subseteq DOMAIN e' /\ e'.st = st /\ e'.rq = cmd /\ e'.idx = 0
            /\ e'.loaded = 0 /\ e'.burst = 0 /\ e'.issue = NumBeats(cmd) /\ e'.left = left
            /\ e'.fetch = fetch /\ e'.last = last /\ e'.part = part
        <5> HIDE DEF part, last, fetch, left, st
        <5>1. e' = [e EXCEPT !.st = st, !.rq = cmd, !.idx = 0, !.loaded = 0, !.burst = 0,
                             !.issue = NumBeats(cmd), !.left = left, !.fetch = fetch,
                             !.last = last, !.part = part]
          BY <3>0 DEF part, last, fetch, left, st
        <5> QED
          BY <5>1, Zenon DEF Fields
      <4> QED
        BY <2>1, <2>2, <3>0, <4>1, Zenon DEF Begins
    <3> QED
      BY <1>0, <2>1, <3>1 DEF Moves
  <2>3. CASE ~valid
    <3>1. UNCHANGED <<e, was>>
      BY <1>3, <2>3, Zenon DEF Accept
    <3>2. Stays
      BY <2>1, <3>1, SMT DEF Stays, Same, Asking, Awaiting
    <3> QED
      BY <1>0, <2>1, <3>1, <3>2 DEF Moves
  <2> QED
    BY <2>2, <2>3
<1> QED
  BY <1>1, <1>2, <1>3, Zenon DEF Engine

-----------------------------------------------------------------------------
(* The counters                                                           *)

Line0 == e.rq.mc \div W
NL == NumLines(e.rq)
NB == NumBeats(e.rq)

\* How many beats a line needs read, and how many lines a beat.
BeatsFor(line) == IF line + 1 <= NB THEN line + 1 ELSE NB
LinesFor(beat) ==
  IF Off = 0 THEN beat + 1 ELSE IF beat + 2 <= NL THEN beat + 2 ELSE NL

Fetched == (NB - e.issue) - e.burst

Shape ==
  /\ Fields \subseteq DOMAIN e
  /\ e.st \in ToPsram \cup ToDdr \cup Ended
  /\ e.issue \in Nat /\ e.burst \in Nat /\ e.fetch \in Nat
  /\ e.st = "abort_r" => e.burst > 0
  /\ e.st \in ToPsram \cup ToDdr =>
       /\ e.rq \in Requests
       /\ e.idx \in Nat /\ e.left \in Nat /\ e.loaded \in Nat
       /\ e.last = (e.left = 1)

\* The counters of a copy to the PSRAM: every line has had the beats it needs
\* when it is written.
CountsIn ==
  e.st \in ToPsram =>
    /\ e.rq.rw = TRUE
    /\ e.left > 0 /\ e.idx = NL - e.left
    /\ Fetched >= 0 /\ Fetched + e.fetch = BeatsFor(e.idx)
    /\ e.part = ((e.idx = 0 /\ Off # 0) \/ (e.left = 1 /\ LastBytes(e.rq) # W))
    /\ e.fetch = 0 \/ (e.fetch = 1 /\ e.st \in {"w_line", "w_ar", "w_r"})
    /\ e.st \in {"w_ar", "w_r"} => e.fetch = 1
    /\ e.st = "w_ar" => e.burst = 0
    /\ e.st = "w_r" => e.burst > 0

\* The counters of a copy to the DDR, with those of the slave.
CountsOut ==
  e.st \in ToDdr =>
    /\ e.rq.rw = FALSE
    /\ e.left = e.issue + e.burst /\ e.idx = NB - e.left
    /\ e.left > 0 => e.loaded + e.fetch = LinesFor(e.idx)
    /\ e.st \in {"r_mc", "r_mc_wait"} => e.fetch > 0
    /\ e.st = "r_w" => e.fetch = 0
    /\ e.st \in {"r_prep", "r_aw"} => e.burst = 0 /\ e.issue > 0
    /\ e.st \in {"r_beat", "r_mc", "r_mc_wait", "r_w"} => e.burst > 0
    /\ e.st = "r_b" => e.burst = 0
    /\ e.st \notin {"r_prep", "r_aw"} => write.left = e.burst /\ write.next = e.rq.ddr + e.idx

\* The registered burst size is current when it is used.
Settled == e.st \in {"w_ar", "r_aw"} => size = BurstCap

Counted == Shape /\ CountsIn /\ CountsOut /\ Settled

\* The numbers of the request at work.
LEMMA Facts ==
  ASSUME e.rq \in Requests
  PROVE  /\ NL \in Nat \ {0} /\ NB \in Nat \ {0} /\ (NL = NB \/ NL = NB + 1)
         /\ e.rq.ddr \in Nat /\ e.rq.mc \in Nat /\ e.rq.len \in Nat \ {0}
         /\ Off \in 0 .. W - 1 /\ Line0 \in Nat
         /\ HasExtra = (NL = NB + 1)
BY Requested, SMT DEF NL, NB, Off, Line0, HasExtra

\* At the moment a burst is offered.
LEMMA Offered ==
  ASSUME Counted, e.st \in {"w_ar", "r_aw"}
  PROVE  /\ size = BurstCap /\ size \in Nat /\ size \in 1 .. Min2(MaxBurst, e.issue)
         /\ size \in 1 .. e.issue /\ e.issue <= NB
         /\ NextBeat \div PageBeats = (NextBeat + size - 1) \div PageBeats
         /\ NextBeat = (e.rq.ddr + NB) - e.issue
<1>1. e.rq \in Requests /\ e.issue \in Nat /\ e.burst \in Nat /\ e.idx \in Nat /\ e.left \in Nat
  BY SMT DEF Counted, Shape, ToPsram, ToDdr
<1>2. NB \in Nat \ {0} /\ e.rq.ddr \in Nat
  BY <1>1, Facts
<1>3. e.issue \in Nat \ {0} /\ e.issue <= NB
  <2>1. CASE e.st = "w_ar"
    BY <1>1, <1>2, <2>1, SMT DEF Counted, CountsIn, ToPsram, Fetched, BeatsFor
  <2>2. CASE e.st = "r_aw"
    BY <1>1, <1>2, <2>2, SMT DEF Counted, CountsOut, ToDdr
  <2> QED
    BY <2>1, <2>2
<1>4. NextBeat = (e.rq.ddr + NB) - e.issue
  BY DEF NextBeat, NB
<1>5. NextBeat \in Nat
  BY <1>2, <1>3, <1>4
<1>6. size = BurstCap
  BY DEF Counted, Settled
<1>7. Min2(MaxBurst, e.issue) <= e.issue
  BY <1>1, WidthAssumption DEF Min2
<1> QED
  BY <1>1, <1>3, <1>4, <1>5, <1>6, <1>7, CapFits, WidthAssumption DEF Min2

\* At the start nothing is counted.
LEMMA CountedInit == Init => Counted
<1> SUFFICES ASSUME Init PROVE Counted
  OBVIOUS
<1>1. /\ Fields \subseteq DOMAIN e /\ e.st = "idle" /\ e.issue = 0 /\ e.burst = 0 /\ e.fetch = 0
  BY SMT DEF Init, EngineInit, Fields
<1> QED
  BY <1>1, SMT DEF Counted, Shape, CountsIn, CountsOut, Settled, ToPsram, ToDdr, Ended

\* While the request stays, so does what is computed of it.
LEMMA SameRequest ==
  ASSUME e'.rq = e.rq
  PROVE  NL' = NL /\ NB' = NB /\ Off' = Off /\ Line0' = Line0
         /\ LastBytes(e.rq)' = LastBytes(e.rq) /\ HasExtra' = HasExtra
         /\ NextBeat' = (e.rq.ddr + NB) - e'.issue
BY Zenon DEF NL, NB, Off, Line0, HasExtra, NumLines, NumBeats, LastBytes, NextBeat

\* The burst offered stays the same while its counter does.
LEMMA SameCap ==
  ASSUME e'.rq = e.rq, e'.issue = e.issue, size' = BurstCap
  PROVE  size' = BurstCap'
BY Zenon DEF BurstCap, NextBeat, NumBeats, Min2

\* Changes of state leave the counters.
LEMMA CountersKept ==
  ASSUME \/ Stays \/ (\E st : Turns(st)) \/ KeepsOld \/ Gathers
  PROVE  /\ Fields \subseteq DOMAIN e'
         /\ e'.rq = e.rq /\ e'.idx = e.idx /\ e'.left = e.left /\ e'.loaded = e.loaded
         /\ e'.issue = e.issue /\ e'.burst = e.burst /\ e'.fetch = e.fetch
         /\ e'.last = e.last /\ e'.part = e.part
BY Zenon DEF Stays, Turns, KeepsOld, Gathers, Same, Fields

\* Changes of state that leave the counters.
LEMMA CountedTurn ==
  ASSUME Counted, \/ Stays \/ (\E st : Turns(st)) \/ KeepsOld \/ Gathers,
         UNCHANGED axi, size' = BurstCap
  PROVE  Counted'
<1>1. /\ Fields \subseteq DOMAIN e'
      /\ e'.rq = e.rq /\ e'.idx = e.idx /\ e'.left = e.left /\ e'.loaded = e.loaded
      /\ e'.issue = e.issue /\ e'.burst = e.burst /\ e'.fetch = e.fetch
      /\ e'.last = e.last /\ e'.part = e.part
  BY CountersKept
<1>2. UNCHANGED <<NL, NB, Off, Line0, LastBytes(e.rq)>> /\ write' = write
  BY <1>1, SameRequest DEF axi
<1>3. UNCHANGED Fetched /\ \A x : BeatsFor(x)' = BeatsFor(x) /\ LinesFor(x)' = LinesFor(x)
  BY <1>1, <1>2, Zenon DEF Fetched, BeatsFor, LinesFor
<1>4. e'.st \in {"w_ar", "r_aw"} => size' = BurstCap'
  BY <1>1, SameCap
<1>5. CASE Stays
  <2>1. e'.st = e.st
    BY <1>5, Zenon DEF Stays, Same, Fields
  <2> QED
    BY <1>1, <1>2, <1>3, <1>4, <2>1, Zenon DEF Counted, Shape, CountsIn, CountsOut, Settled
<1>6. CASE KeepsOld
  BY <1>1, <1>2, <1>3, <1>6, SMT
     DEF KeepsOld, Counted, Shape, CountsIn, CountsOut, Settled, ToPsram, ToDdr, Ended
<1>7. CASE Gathers
  BY <1>1, <1>2, <1>3, <1>7, SMT
     DEF Gathers, Counted, Shape, CountsIn, CountsOut, Settled, ToPsram, ToDdr, Ended
<1>8. CASE \E st : Turns(st)
  <2>1. PICK st : Turns(st)
    BY <1>8
  <2>2. e'.st = st
    BY <2>1 DEF Turns
  <2>3. CASE st \in {"w_r", "w_ar", "w_rmw", "w_write", "w_rmw_wait", "w_write_wait"}
    BY <1>1, <1>2, <1>3, <1>4, <2>1, <2>2, <2>3, SMT
       DEF Turns, Counted, Shape, CountsIn, CountsOut, Settled, ToPsram, ToDdr, Ended
  <2>4. CASE st \in {"r_aw", "r_mc", "r_mc_wait"}
    BY <1>1, <1>2, <1>3, <1>4, <2>1, <2>2, <2>4, SMT
       DEF Turns, Counted, Shape, CountsIn, CountsOut, Settled, ToPsram, ToDdr, Ended
  <2>5. CASE st \in {"done", "abort_r", "abort_mc", "abort_done", "idle"}
    BY <1>1, <2>1, <2>2, <2>5, SMT
       DEF Turns, Counted, Shape, CountsIn, CountsOut, Settled, ToPsram, ToDdr, Ended
  <2> QED
    BY <2>1, <2>3, <2>4, <2>5, SMT DEF Turns
<1> QED
  BY <1>5, <1>6, <1>7, <1>8

\* The last steps of a copy keep the counters right.
LEMMA CountedEnd ==
  ASSUME Counted, DropsBeat \/ LastLine \/ IssuesLast
  PROVE  Counted'
<1>1. CASE DropsBeat
  <2>1. /\ Fields \subseteq DOMAIN e' /\ e'.issue = e.issue /\ e'.fetch = e.fetch
        /\ e'.burst = e.burst - 1 /\ e.st \in {"w_r", "abort_r"}
        /\ e'.st = IF e.burst = 1 THEN "abort_done" ELSE "abort_r"
    BY <1>1, Zenon DEF DropsBeat, Same, Fields
  <2>2. e.burst > 0 /\ e.burst \in Nat /\ e.issue \in Nat /\ e.fetch \in Nat
    BY <2>1, SMT DEF Counted, Shape, CountsIn, ToPsram
  <2> QED
    BY <2>1, <2>2, SMT DEF Counted, Shape, CountsIn, CountsOut, Settled, ToPsram, ToDdr, Ended
<1>2. CASE LastLine
  <2>1. /\ Fields \subseteq DOMAIN e' /\ e'.issue = e.issue /\ e'.fetch = e.fetch
        /\ e'.burst = e.burst /\ e'.st = "done"
    BY <1>2, Zenon DEF LastLine, Same, Fields
  <2> QED
    BY <2>1, SMT DEF Counted, Shape, CountsIn, CountsOut, Settled, ToPsram, ToDdr, Ended
<1>3. CASE IssuesLast
  <2>1. /\ Fields \subseteq DOMAIN e' /\ e'.issue = e.issue /\ e'.fetch = e.fetch
        /\ e'.burst = size /\ e'.st = "abort_r" /\ e.st = "w_ar"
    BY <1>3, Zenon DEF IssuesLast, Same, Fields
  <2>2. size \in Nat /\ size > 0
    BY <2>1, Offered
  <2> QED
    BY <2>1, <2>2, SMT DEF Counted, Shape, CountsIn, CountsOut, Settled, ToPsram, ToDdr, Ended
<1> QED
  BY <1>1, <1>2, <1>3

\* The engine seeds its counters from the request.
LEMMA CountedBegin ==
  ASSUME Counted, Begins, cmd \in Requests
  PROVE  Counted'
<1> DEFINE q == cmd
           n == NumLines(cmd)
           m == NumBeats(cmd)
           off == cmd.mc % W
<1>1. /\ Fields \subseteq DOMAIN e'
      /\ e'.st = IF cmd.rw THEN "w_line" ELSE "r_prep"
      /\ e'.rq = cmd /\ e'.idx = 0 /\ e'.loaded = 0 /\ e'.burst = 0 /\ e'.issue = m
      /\ e'.left = IF cmd.rw THEN n ELSE m
      /\ e'.fetch = IF cmd.rw \/ off = 0 \/ n = 1 THEN 1 ELSE 2
      /\ e'.last = IF cmd.rw THEN n = 1 ELSE m = 1
      /\ e'.part = (off # 0 \/ (n = 1 /\ LastBytes(cmd) # W))
  BY Zenon DEF Begins
<1>2. n \in Nat \ {0} /\ m \in Nat \ {0} /\ (n = m \/ n = m + 1) /\ cmd.rw \in BOOLEAN
      /\ off \in 0 .. W - 1
  BY Requested
<1>3. NL' = n /\ NB' = m /\ Off' = off /\ LastBytes(e.rq)' = LastBytes(cmd)
  BY <1>1, Zenon DEF NL, NB, Off, NumLines, NumBeats, LastBytes
<1> HIDE DEF n, m, off
<1>4. e'.left \in Nat /\ e'.last = (e'.left = 1) /\ e'.fetch \in Nat
  BY <1>1, <1>2
<1>5. Shape'
  BY <1>1, <1>2, <1>4, SMT DEF Shape, ToPsram, ToDdr
<1>6. CASE cmd.rw = TRUE
  <2>1. /\ e'.st = "w_line" /\ e'.left = n /\ e'.fetch = 1 /\ Fetched' = 0 /\ BeatsFor(0)' = 1
    BY <1>1, <1>2, <1>3, <1>6 DEF Fetched, BeatsFor
  <2>2. CountsIn'
    BY <1>1, <1>2, <1>3, <1>6, <2>1, SMT DEF CountsIn
  <2> QED
    BY <1>5, <2>1, <2>2, SMT DEF Counted, CountsOut, Settled, ToDdr
<1>7. CASE cmd.rw = FALSE
  <2>1. /\ e'.st = "r_prep" /\ e'.left = m /\ e'.fetch = IF off = 0 \/ n = 1 THEN 1 ELSE 2
    BY <1>1, <1>7
  <2>2. LinesFor(0)' = e'.fetch
    BY <1>2, <1>3, <2>1 DEF LinesFor
  <2>3. CountsOut'
    BY <1>1, <1>2, <1>3, <1>7, <2>1, <2>2, SMT DEF CountsOut
  <2> QED
    BY <1>5, <2>1, <2>3, SMT DEF Counted, CountsIn, Settled, ToPsram
<1> QED
  BY <1>2, <1>6, <1>7

\* A copy to the PSRAM keeps its counters right.
LEMMA CountedIn ==
  ASSUME Counted, IssuesRead \/ TakesBeat \/ NextLine
  PROVE  Counted'
<1>1. /\ e.st \in ToPsram /\ e.rq \in Requests /\ e.rq.rw = TRUE
      /\ e.issue \in Nat /\ e.burst \in Nat /\ e.fetch \in Nat
      /\ e.idx \in Nat /\ e.left \in Nat /\ e.left > 0 /\ e.loaded \in Nat
      /\ e.last = (e.left = 1) /\ e.idx = NL - e.left
      /\ Fetched >= 0 /\ Fetched + e.fetch = BeatsFor(e.idx)
      /\ e.part = ((e.idx = 0 /\ Off # 0) \/ (e.left = 1 /\ LastBytes(e.rq) # W))
  <2>1. e.st \in ToPsram
    BY SMT DEF IssuesRead, TakesBeat, NextLine, ToPsram
  <2> QED
    BY <2>1, Zenon DEF Counted, Shape, CountsIn, ToPsram
<1>2. NL \in Nat \ {0} /\ NB \in Nat \ {0} /\ (NL = NB \/ NL = NB + 1) /\ HasExtra = (NL = NB + 1)
  BY <1>1, Facts
<1>3. e'.rq = e.rq /\ e'.loaded = e.loaded /\ Fields \subseteq DOMAIN e'
  BY Zenon DEF IssuesRead, TakesBeat, NextLine, Same, Fields
<1>4. UNCHANGED <<NL, NB, Off, LastBytes(e.rq)>>
  BY <1>3, SameRequest
<1>5. Fetched = (NB - e.issue) - e.burst /\ Fetched' = (NB - e'.issue) - e'.burst
  BY <1>4 DEF Fetched
<1>6. \A x : BeatsFor(x)' = BeatsFor(x)
  BY <1>4, Zenon DEF BeatsFor
<1>7. CASE IssuesRead
  <2>1. /\ e'.st = "w_r" /\ e'.burst = size /\ e'.issue = e.issue - size
        /\ e'.idx = e.idx /\ e'.left = e.left /\ e'.fetch = e.fetch /\ e'.last = e.last
        /\ e'.part = e.part /\ e.st = "w_ar"
    BY <1>7, Zenon DEF IssuesRead, Same, Fields
  <2>2. size \in Nat /\ size > 0 /\ size <= e.issue
    BY <2>1, Offered
  <2>3. e.burst = 0 /\ e.fetch = 1
    BY <2>1, SMT DEF Counted, CountsIn, ToPsram
  <2>4. Fetched' = Fetched
    BY <1>1, <1>2, <1>5, <2>1, <2>2, <2>3
  <2> QED
    BY <1>1, <1>3, <1>4, <1>6, <2>1, <2>2, <2>3, <2>4, SMT
       DEF Counted, Shape, CountsIn, CountsOut, Settled, ToPsram, ToDdr
<1>8. CASE TakesBeat
  <2>1. /\ e'.st = "w_line" /\ e'.burst = e.burst - 1 /\ e'.fetch = e.fetch - 1
        /\ e'.idx = e.idx /\ e'.left = e.left /\ e'.last = e.last /\ e'.issue = e.issue
        /\ e'.part = e.part /\ e.st = "w_r"
    BY <1>8, Zenon DEF TakesBeat, Same, Fields
  <2>2. e.burst > 0 /\ e.fetch = 1
    BY <2>1, SMT DEF Counted, CountsIn, ToPsram
  <2>3. Fetched' = Fetched + 1
    BY <1>1, <1>2, <1>5, <2>1, <2>2
  <2>4. Fetched \in Int /\ BeatsFor(e.idx) \in Int
    BY <1>1, <1>2, <1>5 DEF BeatsFor
  <2>5. Fetched' >= 0 /\ Fetched' + e'.fetch = BeatsFor(e.idx)
    BY <1>1, <2>1, <2>2, <2>3, <2>4
  <2> QED
    BY <1>1, <1>3, <1>4, <1>6, <2>1, <2>2, <2>5, SMT
       DEF Counted, Shape, CountsIn, CountsOut, Settled, ToPsram, ToDdr
<1>9. CASE NextLine
  <2>1. /\ e'.st = "w_line" /\ e'.left = e.left - 1 /\ e'.idx = e.idx + 1
        /\ e'.last = (e.left = 2) /\ e'.issue = e.issue /\ e'.burst = e.burst
        /\ e'.fetch = IF e.left = 2 /\ HasExtra THEN 0 ELSE 1
        /\ e'.part = (e.left = 2 /\ LastBytes(e.rq) # W)
        /\ e.st = "w_write_wait" /\ e.left # 1
    BY <1>9, Zenon DEF NextLine, Same, Fields
  <2>2. e.fetch = 0
    BY <2>1, SMT DEF Counted, CountsIn, ToPsram
  <2>3. Fetched' = Fetched /\ Fetched \in Int
    BY <1>1, <1>2, <1>5, <2>1
  <2>4. BeatsFor(e.idx + 1) = BeatsFor(e.idx) + e'.fetch
    <3>1. /\ e.idx \in Int /\ e.left \in Int /\ e.left >= 2 /\ NL \in Int /\ NB \in Int
          /\ e.idx = NL - e.left
      BY <1>1, <1>2, <2>1
    <3>2. BeatsFor(e.idx) = e.idx + 1
      BY <1>2, <3>1 DEF BeatsFor
    <3>3. CASE e.left = 2
      <4>1. (e.idx + 1) + 1 = NL
        BY <3>1, <3>3
      <4> QED
        <5>1. e'.fetch = IF NL = NB + 1 THEN 0 ELSE 1
          BY <1>2, <2>1, <3>3, Zenon
        <5>2. BeatsFor(e.idx + 1) = IF NL <= NB THEN NL ELSE NB
          BY <4>1, Zenon DEF BeatsFor
        <5> QED
          BY <1>2, <3>1, <3>2, <4>1, <5>1, <5>2
    <3>4. CASE e.left # 2
      <4>1. (e.idx + 1) + 1 <= NB /\ e'.fetch = 1
        BY <1>2, <2>1, <3>1, <3>4
      <4> QED
        BY <3>1, <3>2, <4>1 DEF BeatsFor
    <3> QED
      BY <3>3, <3>4
  <2>5. Fetched' >= 0 /\ Fetched' + e'.fetch = BeatsFor(e'.idx)
    BY <1>1, <2>1, <2>2, <2>3, <2>4
  <2>6. e'.part = ((e'.idx = 0 /\ Off # 0) \/ (e'.left = 1 /\ LastBytes(e.rq) # W))
    <3>1. e'.idx # 0 /\ (e'.left = 1) = (e.left = 2)
      BY <1>1, <2>1
    <3> QED
      BY <2>1, <3>1
  <2>7. e'.last = (e'.left = 1) /\ e'.left \in Nat /\ e'.left > 0 /\ e'.idx = NL - e'.left
        /\ e'.idx \in Nat /\ (e'.fetch = 0 \/ e'.fetch = 1)
    BY <1>1, <1>2, <2>1
  <2> QED
    BY <1>1, <1>3, <1>4, <1>6, <2>1, <2>5, <2>6, <2>7, SMT
       DEF Counted, Shape, CountsIn, CountsOut, Settled, ToPsram, ToDdr
<1> QED
  BY <1>7, <1>8, <1>9

\* A copy to the DDR keeps its counters right.
LEMMA CountedOut ==
  ASSUME Counted, \/ KeepsLine /\ write' = write
                  \/ IssuesWrite \/ WritesBeat
  PROVE  Counted'
<1>1. /\ e.st \in ToDdr /\ e.rq \in Requests /\ e.rq.rw = FALSE
      /\ e.issue \in Nat /\ e.burst \in Nat /\ e.fetch \in Nat
      /\ e.idx \in Nat /\ e.left \in Nat /\ e.loaded \in Nat
      /\ e.last = (e.left = 1) /\ e.left = e.issue + e.burst /\ e.idx = NB - e.left
      /\ e.left > 0 => e.loaded + e.fetch = LinesFor(e.idx)
  <2>1. e.st \in ToDdr
    BY SMT DEF KeepsLine, IssuesWrite, WritesBeat, ToDdr
  <2> QED
    BY <2>1, Zenon DEF Counted, Shape, CountsOut, ToDdr
<1>2. /\ NL \in Nat \ {0} /\ NB \in Nat \ {0} /\ (NL = NB \/ NL = NB + 1)
      /\ HasExtra = (NL = NB + 1) /\ e.rq.ddr \in Nat
  BY <1>1, Facts
<1>3. e'.rq = e.rq /\ Fields \subseteq DOMAIN e'
  BY Zenon DEF KeepsLine, IssuesWrite, WritesBeat, Same, Fields
<1>4. UNCHANGED <<NL, NB, Off, LastBytes(e.rq)>>
  BY <1>3, SameRequest
<1>5. \A x : LinesFor(x)' = LinesFor(x)
  BY <1>4, Zenon DEF LinesFor
<1>6. CASE KeepsLine /\ write' = write
  <2>1. /\ e'.st = "r_beat" /\ e'.loaded = e.loaded + 1 /\ e'.fetch = e.fetch - 1
        /\ e'.idx = e.idx /\ e'.left = e.left /\ e'.last = e.last /\ e'.issue = e.issue
        /\ e'.burst = e.burst /\ e.st = "r_mc_wait"
    BY <1>6, Zenon DEF KeepsLine, Same, Fields
  <2>2. e.fetch > 0 /\ e.burst > 0 /\ write.left = e.burst /\ write.next = e.rq.ddr + e.idx
    BY <2>1, SMT DEF Counted, CountsOut, ToDdr
  <2>3. e'.fetch \in Nat /\ e'.loaded \in Nat /\ e'.loaded + e'.fetch = e.loaded + e.fetch
    BY <1>1, <2>1, <2>2
  <2> QED
    BY <1>1, <1>3, <1>4, <1>5, <1>6, <2>1, <2>2, <2>3, SMT
       DEF Counted, Shape, CountsIn, CountsOut, Settled, ToPsram, ToDdr
<1>7. CASE IssuesWrite
  <2>1. /\ e'.st = "r_beat" /\ e'.burst = size /\ e'.issue = e.issue - size
        /\ e'.idx = e.idx /\ e'.left = e.left /\ e'.last = e.last /\ e'.fetch = e.fetch
        /\ e'.loaded = e.loaded /\ e.st = "r_aw"
        /\ write' = [next |-> NextBeat, left |-> size]
    BY <1>7, Zenon DEF IssuesWrite, Same, Fields
  <2>2. size \in Nat /\ size > 0 /\ size <= e.issue /\ NextBeat = (e.rq.ddr + NB) - e.issue
    BY <2>1, Offered
  <2>3. e.burst = 0
    BY <2>1, SMT DEF Counted, CountsOut, ToDdr
  <2>4. e'.left = e'.issue + e'.burst /\ e'.issue \in Nat /\ NextBeat = e.rq.ddr + e.idx
    BY <1>1, <1>2, <2>1, <2>2, <2>3
  <2>5. write'.next = e.rq.ddr + e.idx /\ write'.left = size
    BY <2>1, <2>4, SMT
  <2> QED
    BY <1>1, <1>3, <1>4, <1>5, <2>1, <2>2, <2>4, <2>5, SMT
       DEF Counted, Shape, CountsIn, CountsOut, Settled, ToPsram, ToDdr
<1>8. CASE WritesBeat
  <2>1. /\ e'.st = IF e.burst = 1 THEN "r_b" ELSE "r_beat"
        /\ e'.burst = e.burst - 1 /\ e'.idx = e.idx + 1 /\ e'.left = e.left - 1
        /\ e'.last = (e.left = 2) /\ e'.issue = e.issue /\ e'.loaded = e.loaded
        /\ e'.fetch = IF e.left = 2 /\ Off # 0 /\ ~HasExtra THEN 0 ELSE 1
        /\ e.st = "r_w"
        /\ write' = [next |-> write.next + 1, left |-> write.left - 1]
    BY <1>8, Zenon DEF WritesBeat, Same, Fields
  <2>2. /\ e.fetch = 0 /\ e.burst > 0 /\ write.left = e.burst /\ write.next = e.rq.ddr + e.idx
    BY <2>1, SMT DEF Counted, CountsOut, ToDdr
  <2>3. write'.next = e.rq.ddr + e'.idx /\ write'.left = e'.burst
    BY <1>1, <1>2, <2>1, <2>2, SMT
  <2>4. /\ e'.burst \in Nat /\ e'.left \in Nat /\ e'.idx \in Nat /\ e'.left = e'.issue + e'.burst
        /\ e'.idx = NB - e'.left /\ e'.last = (e'.left = 1) /\ e'.fetch \in Nat
        /\ (e'.st = "r_b") = (e'.burst = 0)
    BY <1>1, <1>2, <2>1, <2>2
  <2>5. ASSUME e'.left > 0 PROVE e'.loaded + e'.fetch = LinesFor(e'.idx)
    <3>1. LinesFor(e.idx + 1) = LinesFor(e.idx) + e'.fetch
      <4>1. /\ e.idx \in Int /\ e.left \in Int /\ e.left >= 2 /\ NL \in Int /\ NB \in Int
            /\ e.idx = NB - e.left
        BY <1>1, <1>2, <2>1, <2>5
      <4>2. CASE Off = 0
        BY <2>1, <4>1, <4>2 DEF LinesFor
      <4>3. CASE Off # 0
        <5>1. LinesFor(e.idx) = e.idx + 2
          BY <1>2, <4>1, <4>3 DEF LinesFor
        <5>2. CASE e.left = 2
          <6>1. e.idx + 2 = NB /\ (e.idx + 1) + 2 = NB + 1
            BY <4>1, <5>2
          <6> QED
            <7>1. e'.fetch = IF NL = NB + 1 THEN 1 ELSE 0
              BY <1>2, <2>1, <4>3, <5>2, Zenon
            <7>2. LinesFor(e.idx + 1) = IF NB + 1 <= NL THEN NB + 1 ELSE NL
              BY <4>3, <6>1, Zenon DEF LinesFor
            <7> QED
              BY <1>2, <4>1, <5>1, <6>1, <7>1, <7>2
        <5>3. CASE e.left # 2
          <6>1. (e.idx + 1) + 2 <= NL /\ e'.fetch = 1
            BY <1>2, <2>1, <4>1, <5>3
          <6> QED
            BY <4>1, <4>3, <5>1, <6>1 DEF LinesFor
        <5> QED
          BY <5>2, <5>3
      <4> QED
        BY <4>2, <4>3
    <3>2. e.loaded = LinesFor(e.idx)
      BY <1>1, <2>1, <2>2, <2>5
    <3> QED
      BY <2>1, <3>1, <3>2
  <2>6. e'.st \in {"r_b", "r_beat"} /\ (e'.st = "r_beat" => e'.burst > 0)
    BY <1>1, <2>1, <2>2, <2>4
  <2> QED
    BY <1>1, <1>3, <1>4, <1>5, <2>1, <2>3, <2>4, <2>5, <2>6, SMT
       DEF Counted, Shape, CountsIn, CountsOut, Settled, ToPsram, ToDdr
<1> QED
  BY <1>6, <1>7, <1>8

\* A clock edge keeps the counters right.
LEMMA CountedNext ==
  ASSUME Counted, valid => cmd \in Requests, Engine
  PROVE  Counted'
<1>1. Moves /\ size' = BurstCap
  BY EngineMoves DEF Counted, Shape
<1>2. CASE (Stays \/ (\E st : Turns(st)) \/ KeepsOld \/ Gathers) /\ UNCHANGED axi
  BY <1>1, <1>2, CountedTurn
<1>3. CASE DropsBeat \/ LastLine \/ IssuesLast
  BY <1>3, CountedEnd
<1>4. CASE Begins
  BY <1>4, CountedBegin DEF Begins
<1>5. CASE IssuesRead \/ TakesBeat \/ NextLine
  BY <1>5, CountedIn
<1>6. CASE (KeepsLine /\ UNCHANGED axi) \/ IssuesWrite \/ WritesBeat
  BY <1>6, CountedOut DEF axi
<1> QED
  BY <1>1, <1>2, <1>3, <1>4, <1>5, <1>6, Zenon DEF Moves

-----------------------------------------------------------------------------
(* The bytes under way                                                    *)

Memories ==
  /\ DOMAIN psram = 0 .. At(Lines) - 1 /\ DOMAIN was.psram = 0 .. At(Lines) - 1
  /\ DOMAIN ddr = 0 .. At(Beats) - 1 /\ DOMAIN was.ddr = 0 .. At(Beats) - 1
  /\ reads \in Seq(Int)
  /\ e.rq.mc \in Nat /\ e.rq.len \in Nat

\* The bytes of the PSRAM that the request asks to be written.
Dest(a) == e.rq.rw /\ a - e.rq.mc \in 0 .. e.rq.len - 1

\* What may be written over a line of the PSRAM.
Right(line, data) ==
  \A b \in Bytes :
    LET a == At(line) + b IN
    data[b] = IF Dest(a) THEN was.ddr[At(e.rq.ddr) + (a - e.rq.mc)] ELSE was.psram[a]

\* The first n bytes of the request are in place.
InPsram(n) == \A t \in 0 .. e.rq.len - 1 :
                t < n => psram[e.rq.mc + t] = was.ddr[At(e.rq.ddr) + t]
InDdr(n) == \A t \in 0 .. e.rq.len - 1 :
              t < n => ddr[At(e.rq.ddr) + t] = was.psram[e.rq.mc + t]

ThisLine == IF e.st \in ToPsram THEN Line0 + e.idx ELSE Line0 + e.loaded

\* A line of the PSRAM as it was, around what is asked for.
Around(data) == \A b \in Bytes : LET a == At(ThisLine) + b IN ~Dest(a) => data[b] = was.psram[a]

\* The port works on what the engine waits for, or finishes a write that an
\* abort has left there.
Ported ==
  /\ (e.st \notin {"idle", "abort_r", "abort_mc", "abort_done"} /\ ~Asking /\ ~Awaiting)
       => port = NoOp
  /\ Asking => ready = (port # NoOp)
  /\ Awaiting => rvalid = (port = NoOp)
  /\ ((Asking \/ Awaiting) /\ port # NoOp) =>
       port.line = ThisLine /\ port.read = (e.st \notin {"w_write", "w_write_wait"})
  /\ (port # NoOp /\ ~port.read) => /\ Right(port.line, port.data)
                                    /\ port.line \in Nat /\ port.line < Lines

\* What is on its way to the PSRAM, and what has arrived.
CarriedIn ==
  e.st \in ToPsram =>
    /\ Len(reads) = e.burst
    /\ \A k \in 1 .. e.burst : reads[k] = (e.rq.ddr + Fetched) + (k - 1)
    /\ Fetched > 0 => e.hi = Part(was.ddr, (e.rq.ddr + Fetched) - 1)
    /\ Fetched > 1 => e.lo = Part(was.ddr, (e.rq.ddr + Fetched) - 2)
    /\ (e.st = "w_rmw_wait" /\ rvalid) => Around(rdata)
    /\ (e.st = "w_write" /\ e.part) => Around(e.old)
    /\ InPsram(At(e.idx) - Off)
    /\ (e.st = "w_write_wait" /\ rvalid) => InPsram(At(e.idx + 1) - Off)

CarriedOut ==
  e.st \in ToDdr =>
    /\ e.loaded > 0 => e.hi = Part(was.psram, (Line0 + e.loaded) - 1)
    /\ e.loaded > 1 => e.lo = Part(was.psram, (Line0 + e.loaded) - 2)
    /\ (e.st = "r_mc_wait" /\ rvalid) => rdata = Part(was.psram, ThisLine)
    /\ e.st = "r_w" => \A k \in Bytes :
         At(e.idx) + k < e.rq.len => e.out[k] = was.psram[e.rq.mc + (At(e.idx) + k)]
    /\ InDdr(At(e.idx))

Ends ==
  /\ e.st = "abort_r" => Len(reads) = e.burst
  /\ e.st = "done" => Copied(e.rq)

Exact == was.clean => OnlyDestination(e.rq) /\ Ported /\ CarriedIn /\ CarriedOut /\ Ends

\* A byte of a line.
LEMMA PartIs ==
  ASSUME NEW m, NEW i \in Int, NEW b \in Bytes
  PROVE  Part(m, i)[b] = m[At(i) + b]
BY DEF Part, At

\* Byte b of the line being written is asked for when the code says so.
LEMMA Covered ==
  ASSUME Counted, e.st = "w_write", NEW b \in Bytes
  PROVE  LET t == (At(e.idx) + b) - Off
             a == At(Line0 + e.idx) + b
         IN  /\ t = a - e.rq.mc /\ t \in Int
             /\ Dest(a) <=> ((e.idx = 0 => b >= Off) /\ (e.last => b < LastBytes(e.rq)))
             /\ ~Dest(a) => e.part
<1> DEFINE t == (At(e.idx) + b) - Off
           a == At(Line0 + e.idx) + b
           L == LastBytes(e.rq)
<1>1. /\ e.rq \in Requests /\ e.rq.rw = TRUE /\ e.idx \in Nat /\ e.left \in Nat /\ e.left > 0
      /\ e.idx = NL - e.left /\ e.last = (e.left = 1)
      /\ e.part = ((e.idx = 0 /\ Off # 0) \/ (e.left = 1 /\ L # W))
  BY SMT DEF Counted, Shape, CountsIn, ToPsram
<1>2. /\ Line0 \in Nat /\ Off \in 0 .. W - 1 /\ e.rq.mc = At(Line0) + Off /\ e.rq.mc \in Nat
      /\ NL \in Nat \ {0} /\ L \in 1 .. W /\ Off + e.rq.len = (At(NL) - W) + L
      /\ e.rq.len \in Nat \ {0}
  <2>1. Off + e.rq.len = At(NL) - W + L
    BY <1>1, Requested, Zenon DEF Off, NL
  <2>2. /\ Line0 \in Nat /\ Off \in 0 .. W - 1 /\ e.rq.mc = At(Line0) + Off /\ e.rq.mc \in Nat
        /\ NL \in Nat \ {0} /\ L \in 1 .. W /\ e.rq.len \in Nat \ {0}
    BY <1>1, Requested, Zenon DEF Off, NL, Line0
  <2>3. At(NL) \in Int
    BY <2>2, AtInt
  <2> HIDE DEF L
  <2> QED
    BY <2>1, <2>2, <2>3, Width
<1>3. /\ At(Line0 + e.idx) = At(Line0) + At(e.idx) /\ At(Line0) \in Int /\ At(e.idx) \in Int
      /\ At(NL) \in Int /\ b \in Int /\ 0 <= b /\ b < W /\ W \in Int
  <2>1. Line0 \in Int /\ e.idx \in Int /\ NL \in Int
    BY <1>1, <1>2
  <2>2. b \in Int /\ 0 <= b /\ b < W /\ W \in Int
    BY Width
  <2> QED
    BY <2>1, <2>2, AtPlus, AtInt, Zenon
<1> HIDE DEF L
<1>4. t = a - e.rq.mc /\ t \in Int
  BY <1>2, <1>3
<1>5. t >= 0 <=> (e.idx = 0 => b >= Off)
  <2>1. CASE e.idx = 0
    <3>1. At(e.idx) = 0
      BY <2>1, Width DEF At
    <3> QED
      BY <1>2, <1>3, <2>1, <3>1
  <2>2. CASE e.idx # 0
    <3>1. At(e.idx) >= At(1) /\ At(1) = W
      BY <1>1, <2>2, AtMost, Width DEF At
    <3> QED
      BY <1>2, <1>3, <2>2, <3>1
  <2> QED
    BY <2>1, <2>2
<1>6. t <= e.rq.len - 1 <=> (e.last => b < L)
  <2>0. /\ Off + e.rq.len = (At(NL) - W) + L /\ Off \in Int /\ e.rq.len \in Int /\ L \in Int
        /\ L >= 1 /\ t = (At(e.idx) + b) - Off
    BY <1>2
  <2> HIDE DEF t, a
  <2>1. CASE e.left = 1
    <3>1. At(e.idx) = At(NL) - W
      BY <1>1, <1>2, <2>1, AtNext
    <3>2. t <= e.rq.len - 1 <=> b < L
      BY <1>3, <2>0, <3>1
    <3> QED
      BY <1>1, <2>1, <3>2
  <2>2. CASE e.left # 1
    <3>1. e.idx <= (NL - 1) - 1 /\ NL - 1 \in Int /\ (NL - 1) - 1 \in Int
      BY <1>1, <1>2, <2>2
    <3>2. /\ At(e.idx) <= At((NL - 1) - 1)
          /\ At((NL - 1) - 1) = At(NL - 1) - W /\ At(NL - 1) = At(NL) - W
      BY <1>1, <1>2, <3>1, AtMost, AtNext
    <3>3. At(e.idx) <= (At(NL) - W) - W
      BY <3>2
    <3>4. t <= e.rq.len - 1
      BY <1>3, <2>0, <3>3
    <3> QED
      BY <1>1, <2>2, <3>4
  <2> QED
    BY <2>1, <2>2
<1>7. Dest(a) <=> ((e.idx = 0 => b >= Off) /\ (e.last => b < L))
  <2>1. Dest(a) <=> t \in 0 .. e.rq.len - 1
    BY <1>1, <1>4 DEF Dest
  <2> HIDE DEF t, a
  <2>2. t \in 0 .. e.rq.len - 1 <=> (t >= 0 /\ t <= e.rq.len - 1)
    BY <1>2, <1>4
  <2> QED
    BY <1>5, <1>6, <2>1, <2>2, Zenon
<1>8. ~Dest(a) => e.part
  <2> HIDE DEF a
  <2> QED
    BY <1>1, <1>2, <1>3, <1>7
<1> QED
  BY <1>4, <1>7, <1>8, Zenon DEF L

\* What the request of a copy to the PSRAM reads as, all at once.
LEMMA FactsIn ==
  ASSUME Counted, e.st \in ToPsram
  PROVE  /\ e.rq \in Requests /\ e.rq.rw = TRUE /\ e.idx \in Nat /\ e.left \in Nat /\ e.left > 0
         /\ e.idx = NL - e.left /\ e.last = (e.left = 1)
         /\ Line0 \in Nat /\ Off \in 0 .. W - 1 /\ e.rq.mc = At(Line0) + Off /\ e.rq.mc \in Nat
         /\ NL \in Nat \ {0} /\ NB \in Nat \ {0} /\ (NL = NB \/ NL = NB + 1)
         /\ e.rq.len \in Nat \ {0} /\ e.rq.ddr \in Nat
         /\ e.rq.len <= At(NB) /\ Off + e.rq.len <= At(NL)
         /\ Line0 + NL <= Lines /\ e.rq.ddr + NB <= Beats
         /\ Fetched \in Nat /\ Fetched <= NB
<1>1. /\ e.rq \in Requests /\ e.rq.rw = TRUE /\ e.idx \in Nat /\ e.left \in Nat /\ e.left > 0
      /\ e.idx = NL - e.left /\ e.last = (e.left = 1)
      /\ Fetched >= 0 /\ e.issue \in Nat /\ e.burst \in Nat
  BY SMT DEF Counted, Shape, CountsIn, ToPsram
<1>2. /\ Line0 \in Nat /\ Off \in 0 .. W - 1 /\ e.rq.mc = At(Line0) + Off /\ e.rq.mc \in Nat
      /\ NL \in Nat \ {0} /\ NB \in Nat \ {0} /\ (NL = NB \/ NL = NB + 1)
      /\ e.rq.len \in Nat \ {0} /\ e.rq.ddr \in Nat
      /\ e.rq.len <= At(NB) /\ Line0 + NL <= Lines /\ e.rq.ddr + NB <= Beats
  BY <1>1, Requested, Zenon DEF Off, NL, NB, Line0
<1>3. Off + e.rq.len = At(NL) - W + LastBytes(e.rq) /\ LastBytes(e.rq) \in 1 .. W
  BY <1>1, Requested, Zenon DEF Off, NL
<1>4. At(NL) \in Int
  BY <1>2, AtInt
<1>5. Off + e.rq.len <= At(NL)
  BY <1>2, <1>3, <1>4, Width
<1>6. Fetched \in Nat /\ Fetched <= NB
  BY <1>1, <1>2 DEF Fetched
<1> QED
  BY <1>1, <1>2, <1>5, <1>6

\* What the request of a copy to the DDR reads as, all at once.
LEMMA FactsOut ==
  ASSUME Counted, e.st \in ToDdr
  PROVE  /\ e.rq \in Requests /\ e.rq.rw = FALSE /\ e.idx \in Nat /\ e.left \in Nat
         /\ e.idx = NB - e.left /\ e.last = (e.left = 1) /\ e.loaded \in Nat
         /\ Line0 \in Nat /\ Off \in 0 .. W - 1 /\ e.rq.mc = At(Line0) + Off /\ e.rq.mc \in Nat
         /\ NL \in Nat \ {0} /\ NB \in Nat \ {0} /\ (NL = NB \/ NL = NB + 1)
         /\ e.rq.len \in Nat \ {0} /\ e.rq.ddr \in Nat
         /\ e.rq.len <= At(NB) /\ Off + e.rq.len <= At(NL)
         /\ Line0 + NL <= Lines /\ e.rq.ddr + NB <= Beats
<1>1. /\ e.rq \in Requests /\ e.rq.rw = FALSE /\ e.idx \in Nat /\ e.left \in Nat
      /\ e.idx = NB - e.left /\ e.last = (e.left = 1) /\ e.loaded \in Nat
  BY SMT DEF Counted, Shape, CountsOut, ToDdr
<1>2. /\ Line0 \in Nat /\ Off \in 0 .. W - 1 /\ e.rq.mc = At(Line0) + Off /\ e.rq.mc \in Nat
      /\ NL \in Nat \ {0} /\ NB \in Nat \ {0} /\ (NL = NB \/ NL = NB + 1)
      /\ e.rq.len \in Nat \ {0} /\ e.rq.ddr \in Nat
      /\ e.rq.len <= At(NB) /\ Line0 + NL <= Lines /\ e.rq.ddr + NB <= Beats
  BY <1>1, Requested, Zenon DEF Off, NL, NB, Line0
<1>3. Off + e.rq.len = At(NL) - W + LastBytes(e.rq) /\ LastBytes(e.rq) \in 1 .. W
  BY <1>1, Requested, Zenon DEF Off, NL
<1>4. At(NL) \in Int
  BY <1>2, AtInt
<1>5. Off + e.rq.len <= At(NL)
  BY <1>2, <1>3, <1>4, Width
<1> QED
  BY <1>1, <1>2, <1>5

\* A position in one of two neighbouring lines.
LEMMA Neighbour ==
  ASSUME NEW i \in Int, NEW d \in Int, At(i) + d >= 0, d > 0 - W, d < W
  PROVE  LET t == At(i) + d IN
         /\ (t \div W = i /\ d >= 0) \/ (t \div W = i - 1 /\ d < 0)
         /\ t % W \in Bytes /\ t = At(t \div W) + (t % W) /\ t \div W \in Nat
<1> DEFINE t == At(i) + d
<1>1. t \in Nat /\ At(i) \in Int /\ W \in Int /\ W > 0 /\ At(i - 1) = At(i) - W
  <2>1. At(i) \in Int /\ At(i - 1) = At(i) - W
    BY AtInt, AtNext, Zenon
  <2>2. t \in Nat
    BY <2>1
  <2> QED
    BY <2>1, <2>2, Width, Zenon
<1>2. t % W \in Bytes /\ t = At(t \div W) + (t % W) /\ t \div W \in Nat
  BY <1>1, Split, Zenon
<1>3. CASE d >= 0
  <2>1. i \in Nat
    <3>1. At(0 - 1) < At(i)
      <4>1. At(0 - 1) = 0 - W
        BY Width DEF At
      <4> QED
        BY <1>1, <1>3, <4>1
    <3> QED
      BY <3>1, AtLess
  <2>2. t \div W = i
    <3>1. At(i) <= t /\ t < At(i) + W /\ t \in Int
      BY <1>1, <1>3
    <3> HIDE DEF t
    <3> QED
      BY <2>1, <3>1, Within, Zenon
  <2> QED
    BY <1>2, <1>3, <2>2, Zenon
<1>4. CASE d < 0
  <2>1. i - 1 \in Nat
    <3>1. At(0) < At(i)
      <4>1. At(0) = 0
        BY Width DEF At
      <4> QED
        BY <1>1, <1>4, <4>1
    <3> QED
      BY <3>1, AtLess
  <2>2. t \div W = i - 1
    <3>1. At(i - 1) <= t /\ t < At(i - 1) + W /\ t \in Int
      BY <1>1, <1>4
    <3> HIDE DEF t
    <3> QED
      BY <2>1, <3>1, Within, Zenon
  <2> QED
    BY <1>2, <1>4, <2>2, Zenon
<1> QED
  BY <1>3, <1>4

\* The shifter puts the right byte of the DDR into the line.
LEMMA DdrByteRight ==
  ASSUME Counted, CarriedIn, e.st = "w_write", NEW b \in Bytes, Dest(At(Line0 + e.idx) + b)
  PROVE  DdrByte(b) = was.ddr[At(e.rq.ddr) + ((At(Line0 + e.idx) + b) - e.rq.mc)]
<1> DEFINE t == (At(e.idx) + b) - Off
           u == t \div W
           r == t % W
           lastBeat == IF e.last THEN NumBeats(e.rq) - 1 ELSE e.idx
<1>0. e.st \in ToPsram
  BY DEF ToPsram
<1>1. /\ e.rq.rw = TRUE /\ e.idx \in Nat /\ e.left \in Nat /\ e.left > 0
      /\ e.idx = NL - e.left /\ e.last = (e.left = 1) /\ Off \in 0 .. W - 1
      /\ NL \in Nat \ {0} /\ NB \in Nat \ {0} /\ (NL = NB \/ NL = NB + 1)
      /\ e.rq.len \in Nat \ {0} /\ e.rq.ddr \in Nat /\ e.rq.len <= At(NB)
      /\ Fetched \in Nat /\ Fetched <= NB
  BY <1>0, FactsIn
<1>2. t = (At(Line0 + e.idx) + b) - e.rq.mc /\ t \in Int
  BY Covered
<1>3. t >= 0 /\ t < e.rq.len
  BY <1>1, <1>2 DEF Dest
<1>4. At(e.idx) \in Int /\ At(NB) \in Int /\ b \in Int /\ 0 <= b /\ b < W /\ W \in Int
  <2>1. e.idx \in Int /\ NB \in Int
    BY <1>1
  <2>2. b \in Int /\ 0 <= b /\ b < W /\ W \in Int
    BY Width
  <2> QED
    BY <2>1, <2>2, AtInt, Zenon
<1>5. /\ (u = e.idx /\ b - Off >= 0) \/ (u = e.idx - 1 /\ b - Off < 0)
      /\ r \in Bytes /\ t = At(u) + r /\ u \in Nat
  <2>1. t = At(e.idx) + (b - Off) /\ b - Off \in Int /\ b - Off > 0 - W /\ b - Off < W
        /\ e.idx \in Int
    BY <1>1, <1>4
  <2>2. At(e.idx) + (b - Off) >= 0
    BY <1>3, <2>1
  <2> HIDE DEF t
  <2> QED
    BY <2>1, <2>2, Neighbour, Zenon
<1>6. Fetched = BeatsFor(e.idx)
  BY <1>1, SMT DEF Counted, CountsIn, ToPsram
<1>7. lastBeat = Fetched - 1
  <2>1. lastBeat = IF e.left = 1 THEN NB - 1 ELSE e.idx
    BY <1>1, Zenon DEF NB
  <2>2. Fetched = IF e.idx + 1 <= NB THEN e.idx + 1 ELSE NB
    BY <1>6, Zenon DEF BeatsFor
  <2> HIDE DEF lastBeat
  <2> QED
    BY <1>1, <2>1, <2>2
<1> HIDE DEF t, u, r, lastBeat
<1>8. u <= NB - 1
  <2>1. At(u) < At(NB)
    <3>1. At(u) \in Int /\ r \in Int /\ r >= 0
      BY <1>5, AtInt, Width
    <3> QED
      BY <1>1, <1>3, <1>4, <1>5, <3>1
  <2> QED
    BY <1>1, <1>5, <2>1, AtLess
<1>9. u = Fetched - 1 \/ (u = Fetched - 2 /\ Fetched > 1)
  <2>1. e.idx + 1 <= NB => Fetched = e.idx + 1
    BY <1>6 DEF BeatsFor
  <2>2. ~(e.idx + 1 <= NB) => Fetched = NB
    BY <1>6 DEF BeatsFor
  <2> QED
    BY <1>1, <1>5, <1>8, <2>1, <2>2
<1>10. DdrByte(b) = IF u = lastBeat THEN e.hi[r] ELSE e.lo[r]
  BY Zenon DEF DdrByte, t, u, r, lastBeat, At
<1>11. e.hi = Part(was.ddr, (e.rq.ddr + Fetched) - 1) \/ Fetched = 0
  BY <1>0, <1>1 DEF CarriedIn
<1>12. e.lo = Part(was.ddr, (e.rq.ddr + Fetched) - 2) \/ Fetched <= 1
  BY <1>0, <1>1 DEF CarriedIn
<1>13. DdrByte(b) = was.ddr[At(e.rq.ddr + u) + r]
  <2>1. CASE u = Fetched - 1
    <3>1. (e.rq.ddr + Fetched) - 1 = e.rq.ddr + u /\ e.rq.ddr + u \in Int /\ Fetched # 0
      BY <1>1, <1>5, <2>1
    <3>2. e.hi[r] = was.ddr[At(e.rq.ddr + u) + r]
      BY <1>5, <1>11, <3>1, PartIs, SMT
    <3> QED
      BY <1>7, <1>10, <2>1, <3>2, Zenon
  <2>2. CASE u = Fetched - 2 /\ Fetched > 1
    <3>1. (e.rq.ddr + Fetched) - 2 = e.rq.ddr + u /\ e.rq.ddr + u \in Int /\ ~(Fetched <= 1)
          /\ u # lastBeat
      BY <1>1, <1>5, <1>7, <2>2
    <3>2. e.lo[r] = was.ddr[At(e.rq.ddr + u) + r]
      BY <1>5, <1>12, <3>1, PartIs, SMT
    <3> QED
      BY <1>10, <3>1, <3>2, Zenon
  <2> QED
    BY <1>9, <2>1, <2>2
<1>14. At(e.rq.ddr + u) + r = At(e.rq.ddr) + t
  <2>1. At(e.rq.ddr + u) = At(e.rq.ddr) + At(u) /\ At(e.rq.ddr) \in Int /\ At(u) \in Int
    <3>1. e.rq.ddr \in Int /\ u \in Int
      BY <1>1, <1>5
    <3> QED
      BY <3>1, AtPlus, AtInt, Zenon
  <2> QED
    BY <1>5, <2>1, Width
<1> QED
  BY <1>2, <1>13, <1>14, Zenon

\* The line that is written holds the right byte at every place.
LEMMA MergedRight ==
  ASSUME Counted, CarriedIn, e.st = "w_write"
  PROVE  Right(Line0 + e.idx, MergedLine)
<1> SUFFICES ASSUME NEW b \in Bytes
             PROVE  LET a == At(Line0 + e.idx) + b IN
                    MergedLine[b] = IF Dest(a) THEN was.ddr[At(e.rq.ddr) + (a - e.rq.mc)]
                                    ELSE was.psram[a]
  BY DEF Right
<1> DEFINE a == At(Line0 + e.idx) + b
<1>1. /\ Dest(a) <=> ((e.idx = 0 => b >= Off) /\ (e.last => b < LastBytes(e.rq)))
      /\ ~Dest(a) => e.part
  BY Covered
<1>2. MergedLine[b] = IF Dest(a) THEN DdrByte(b) ELSE e.old[b]
  BY <1>1, Zenon DEF MergedLine
<1>3. CASE Dest(a)
  BY <1>2, <1>3, DdrByteRight, Zenon
<1>4. CASE ~Dest(a)
  <2>1. Around(e.old) /\ ThisLine = Line0 + e.idx
    BY <1>1, <1>4, SMT DEF CarriedIn, ToPsram, ThisLine
  <2> QED
    BY <1>2, <1>4, <2>1, Zenon DEF Around
<1> QED
  BY <1>3, <1>4, Zenon

\* The lines that the beat to be gathered needs are loaded, and no more.
LEMMA LoadedLines ==
  ASSUME Counted, e.st = "r_beat"
  PROVE  /\ e.left > 0 /\ e.loaded + e.fetch = LinesFor(e.idx) /\ e.idx < NB
         /\ LinesFor(e.idx) \in Nat /\ LinesFor(e.idx) <= NL
         /\ LinesFor(e.idx) = IF Off = 0 THEN e.idx + 1
                              ELSE IF e.left = 1 THEN NL ELSE e.idx + 2
<1>1. e.st \in ToDdr
  BY DEF ToDdr
<1>2. /\ e.idx \in Nat /\ e.left \in Nat /\ e.idx = NB - e.left /\ e.loaded \in Nat
      /\ NL \in Nat \ {0} /\ NB \in Nat \ {0} /\ (NL = NB \/ NL = NB + 1)
  BY <1>1, FactsOut
<1>3. e.burst > 0 /\ e.left = e.issue + e.burst /\ e.issue \in Nat /\ e.burst \in Nat
  BY <1>1, SMT DEF Counted, Shape, CountsOut, ToDdr
<1>4. e.left > 0 /\ e.idx < NB
  BY <1>2, <1>3
<1>5. e.loaded + e.fetch = LinesFor(e.idx)
  BY <1>1, <1>4 DEF Counted, CountsOut
<1>6. LinesFor(e.idx) = IF Off = 0 THEN e.idx + 1
                        ELSE IF e.idx + 2 <= NL THEN e.idx + 2 ELSE NL
  BY Zenon DEF LinesFor
<1> QED
  BY <1>2, <1>4, <1>5, <1>6

\* The shifter puts the right byte of the PSRAM into the beat.
LEMMA McByteRight ==
  ASSUME Counted, CarriedOut, e.st = "r_beat", e.fetch = 0, NEW k \in Bytes,
         At(e.idx) + k < e.rq.len
  PROVE  McByte(k) = was.psram[e.rq.mc + (At(e.idx) + k)]
<1> DEFINE t == At(e.idx) + k + Off
           u == t \div W
           r == t % W
           lastLine == IF Off = 0 THEN e.idx
                       ELSE IF e.last THEN NumLines(e.rq) - 1 ELSE e.idx + 1
<1>0. e.st \in ToDdr
  BY DEF ToDdr
<1>1. /\ e.idx \in Nat /\ e.left \in Nat
      /\ e.idx = NB - e.left /\ e.last = (e.left = 1) /\ e.loaded \in Nat
      /\ Line0 \in Nat /\ Off \in 0 .. W - 1 /\ e.rq.mc = At(Line0) + Off
      /\ NL \in Nat \ {0} /\ NB \in Nat \ {0} /\ (NL = NB \/ NL = NB + 1)
      /\ e.rq.len \in Nat \ {0} /\ Off + e.rq.len <= At(NL)
  BY <1>0, FactsOut
<1>2. /\ e.left > 0 /\ e.loaded = LinesFor(e.idx)
      /\ LinesFor(e.idx) = IF Off = 0 THEN e.idx + 1
                           ELSE IF e.left = 1 THEN NL ELSE e.idx + 2
  <2>1. e.loaded + e.fetch = LinesFor(e.idx) /\ LinesFor(e.idx) \in Nat
    BY LoadedLines
  <2> QED
    BY <1>1, <2>1, LoadedLines
<1>3. lastLine = e.loaded - 1
  <2>1. lastLine = IF Off = 0 THEN e.idx ELSE IF e.left = 1 THEN NL - 1 ELSE e.idx + 1
    BY <1>1, Zenon DEF NL
  <2> HIDE DEF lastLine
  <2> QED
    BY <1>1, <1>2, <2>1
<1>4. /\ At(e.idx) \in Int /\ At(NL) \in Int /\ At(Line0) \in Int /\ At(e.idx + 1) = At(e.idx) + W
      /\ k \in Int /\ 0 <= k /\ k < W /\ W \in Int
  <2>1. e.idx \in Int /\ NL \in Int /\ Line0 \in Int
    BY <1>1
  <2>2. k \in Int /\ 0 <= k /\ k < W /\ W \in Int
    BY Width
  <2> QED
    BY <2>1, <2>2, AtInt, AtNext, Zenon
<1>5. /\ t \in Int /\ t >= At(e.idx) /\ t = (At(e.idx) + k) + Off /\ t < At(NL)
      /\ t < At(e.idx + 1) + W /\ (Off = 0 => t < At(e.idx) + W)
  BY <1>1, <1>4
<1> HIDE DEF lastLine, t
<1>6. u \in Nat /\ r \in Bytes /\ t = At(u) + r
  <2>1. At(e.idx) \in Nat
    BY <1>1, AtNat
  <2>2. t \in Nat
    BY <1>5, <2>1
  <2> QED
    BY <2>2, Split
<1>7. u = e.idx \/ (u = e.idx + 1 /\ Off # 0)
  <2>1. CASE t < At(e.idx) + W
    BY <1>1, <1>5, <2>1, Within
  <2>2. CASE ~(t < At(e.idx) + W)
    <3>1. e.idx + 1 \in Nat /\ At(e.idx + 1) <= t /\ t < At(e.idx + 1) + W /\ Off # 0
      BY <1>1, <1>4, <1>5, <2>2
    <3> QED
      BY <1>5, <3>1, Within
  <2> QED
    BY <2>1, <2>2
<1> HIDE DEF u, r
<1>8. u < NL
  <2>1. At(u) \in Int /\ r \in Int /\ r >= 0
    BY <1>6, AtInt, Width
  <2>2. At(u) < At(NL)
    BY <1>4, <1>5, <1>6, <2>1
  <2> QED
    BY <1>1, <1>6, <2>2, AtLess
<1>9. u = e.loaded - 1 \/ (u = e.loaded - 2 /\ e.loaded > 1)
  BY <1>1, <1>2, <1>6, <1>7, <1>8
<1>10. McByte(k) = IF u = lastLine THEN e.hi[r] ELSE e.lo[r]
  BY Zenon DEF McByte, t, u, r, lastLine, At
<1>11. /\ e.loaded > 0 => e.hi = Part(was.psram, (Line0 + e.loaded) - 1)
       /\ e.loaded > 1 => e.lo = Part(was.psram, (Line0 + e.loaded) - 2)
  BY <1>0 DEF CarriedOut
<1>12. McByte(k) = was.psram[At(Line0 + u) + r]
  <2>1. CASE u = e.loaded - 1
    <3>1. (Line0 + e.loaded) - 1 = Line0 + u /\ Line0 + u \in Int /\ e.loaded > 0
      BY <1>1, <1>6, <2>1
    <3>2. e.hi[r] = was.psram[At(Line0 + u) + r]
      BY <1>6, <1>11, <3>1, PartIs, SMT
    <3> QED
      BY <1>3, <1>10, <2>1, <3>2, Zenon
  <2>2. CASE u = e.loaded - 2 /\ e.loaded > 1
    <3>1. (Line0 + e.loaded) - 2 = Line0 + u /\ Line0 + u \in Int /\ u # lastLine
      BY <1>1, <1>3, <1>6, <2>2
    <3>2. e.lo[r] = was.psram[At(Line0 + u) + r]
      BY <1>6, <1>11, <2>2, <3>1, PartIs, SMT
    <3> QED
      BY <1>10, <3>1, <3>2, Zenon
  <2> QED
    BY <1>9, <2>1, <2>2
<1>13. At(Line0 + u) + r = e.rq.mc + (At(e.idx) + k)
  <2>1. At(Line0 + u) = At(Line0) + At(u) /\ At(u) \in Int
    <3>1. Line0 \in Int /\ u \in Int
      BY <1>1, <1>6
    <3> QED
      BY <3>1, AtPlus, AtInt, Zenon
  <2>2. r \in Int
    BY <1>6, Width
  <2> QED
    BY <1>1, <1>4, <1>5, <1>6, <2>1, <2>2
<1> QED
  BY <1>12, <1>13, Zenon

\* What the port admits is what the engine asks for.
LEMMA AdmitIs ==
  ASSUME Admit, e.st \in {"w_rmw", "w_write"} => Line0 + e.idx \in Nat,
         e.st = "r_mc" => Line0 + e.loaded \in Nat
  PROVE  /\ port = NoOp /\ Asking /\ ready' = TRUE /\ rvalid' = FALSE /\ psram' = psram
         /\ port' # NoOp /\ port'.line = ThisLine /\ port'.read = (e.st # "w_write")
         /\ port'.line \in Nat
         /\ e.st = "w_write" => port'.data = MergedLine
<1>1. /\ port = NoOp /\ Asking /\ ready' = TRUE /\ rvalid' = FALSE /\ psram' = psram
      /\ port' = [Asked EXCEPT !.data = IF Asked.read THEN NoOp.data ELSE @]
  BY Zenon DEF Admit, Asking
<1>2. e.st \in {"w_rmw", "w_write"} \/ e.st = "r_mc"
  BY <1>1 DEF Asking
<1>3. CASE e.st \in {"w_rmw", "w_write"}
  <2>1. Asked = [line |-> Line0 + e.idx, read |-> e.st = "w_rmw", data |-> MergedLine]
    BY <1>3, Zenon DEF Asked, Line0
  <2>2. ThisLine = Line0 + e.idx
    BY <1>3, SMT DEF ThisLine, ToPsram
  <2> DEFINE l == Line0 + e.idx
             rd == (e.st = "w_rmw")
             m == MergedLine
             z == NoOp.data
  <2>3. port' = [[line |-> l, read |-> rd, data |-> m] EXCEPT !.data = IF rd THEN z ELSE m]
    BY <1>1, <2>1, Zenon
  <2>4. l \in Nat /\ rd = (e.st # "w_write") /\ (e.st = "w_write" => ~rd)
    BY <1>3
  <2> HIDE DEF l, rd, m, z
  <2>5. port'.line = l /\ port'.read = rd /\ (~rd => port'.data = m)
    BY <2>3, Zenon
  <2>6. port' # NoOp
    BY <2>4, <2>5, SMT DEF NoOp
  <2> QED
    BY <1>1, <2>2, <2>4, <2>5, <2>6, Zenon DEF l, m
<1>4. CASE e.st = "r_mc"
  <2>1. Asked = [line |-> Line0 + e.loaded, read |-> TRUE, data |-> NoOp.data]
    BY <1>4, SMT DEF Asked, Line0
  <2>2. ThisLine = Line0 + e.loaded
    BY <1>4, SMT DEF ThisLine, ToPsram
  <2> DEFINE l == Line0 + e.loaded
             z == NoOp.data
  <2>3. port' = [[line |-> l, read |-> TRUE, data |-> z] EXCEPT !.data = z]
    BY <1>1, <2>1, Zenon
  <2>4. l \in Nat
    BY <1>4
  <2> HIDE DEF l, z
  <2>5. port'.line = l /\ port'.read = TRUE
    BY <2>3, Zenon
  <2>6. port' # NoOp
    BY <2>4, <2>5, SMT DEF NoOp
  <2> QED
    <3>1. e.st # "w_write"
      BY <1>4
    <3>2. port'.read = (e.st # "w_write")
      BY <2>5, <3>1
    <3>3. port'.line = ThisLine /\ port'.line \in Nat
      BY <2>2, <2>4, <2>5, Zenon DEF l
    <3> QED
      BY <1>1, <2>6, <3>1, <3>2, <3>3, Zenon
<1> QED
  BY <1>2, <1>3, <1>4

-----------------------------------------------------------------------------
(* What the port does to the PSRAM, and a beat to the DDR                 *)

\* The byte a of the PSRAM once the request is carried out.
Wanted(a) == IF Dest(a) THEN was.ddr[At(e.rq.ddr) + (a - e.rq.mc)] ELSE was.psram[a]

\* What the PSRAM port can do at an edge while the engine works at its request.
LEMMA PortKeeps ==
  ASSUME Counted, Memories, Ported, CarriedIn, PsramPort
  PROVE  /\ DOMAIN psram' = DOMAIN psram
         /\ \A a \in DOMAIN psram : psram'[a] = psram[a] \/ psram'[a] = Wanted(a)
         /\ (port' # NoOp /\ ~port'.read) => /\ Right(port'.line, port'.data)
                                             /\ port'.line \in Nat /\ port'.line < Lines
         /\ (port = NoOp /\ ~Asking)
              => port' = NoOp /\ ready' = FALSE /\ rvalid' = FALSE /\ psram' = psram
         /\ (port = NoOp /\ Asking)
              => /\ ready' = (port' # NoOp) /\ rvalid' = FALSE /\ psram' = psram
                 /\ port' # NoOp => port'.line = ThisLine /\ port'.read = (e.st # "w_write")
         /\ port # NoOp
              => /\ ready' = FALSE /\ rvalid' = (port' = NoOp) /\ port' \in {port, NoOp}
                 /\ port' = NoOp =>
                      /\ rdata' = Part(psram, port.line)
                      /\ psram' = IF port.read THEN psram ELSE Put(psram, port.line, port.data)
                 /\ port' # NoOp => psram' = psram
<1>1. CASE Admit
  <2>1. e.st \in {"w_rmw", "w_write"} => /\ Line0 + e.idx \in Nat /\ Line0 + e.idx < Lines
                                          /\ ThisLine = Line0 + e.idx
    <3>1. SUFFICES ASSUME e.st \in {"w_rmw", "w_write"}
                   PROVE  /\ Line0 + e.idx \in Nat /\ Line0 + e.idx < Lines
                          /\ ThisLine = Line0 + e.idx
      OBVIOUS
    <3>2. e.st \in ToPsram
      BY <3>1, SMT DEF ToPsram
    <3>3. /\ Line0 \in Nat /\ e.idx \in Nat /\ e.left \in Nat /\ e.left > 0 /\ e.idx = NL - e.left
          /\ NL \in Nat \ {0} /\ Line0 + NL <= Lines
      BY <3>2, FactsIn
    <3> QED
      BY <3>2, <3>3, WidthAssumption DEF ThisLine
  <2>2. e.st = "r_mc" => Line0 + e.loaded \in Nat
    <3>1. SUFFICES ASSUME e.st = "r_mc" PROVE Line0 + e.loaded \in Nat
      OBVIOUS
    <3>2. e.st \in ToDdr
      BY <3>1, SMT DEF ToDdr
    <3>3. Line0 \in Nat /\ e.loaded \in Nat
      BY <3>2, FactsOut
    <3> QED
      BY <3>3
  <2>3. /\ port = NoOp /\ Asking /\ ready' = TRUE /\ rvalid' = FALSE /\ psram' = psram
        /\ port' # NoOp /\ port'.line = ThisLine /\ port'.read = (e.st # "w_write")
        /\ e.st = "w_write" => port'.data = MergedLine
    BY <1>1, <2>1, <2>2, AdmitIs
  <2>4. ~port'.read => /\ Right(port'.line, port'.data)
                       /\ port'.line \in Nat /\ port'.line < Lines
    BY <2>1, <2>3, MergedRight
  <2> QED
    BY <2>3, <2>4, Zenon
<1>2. CASE Busy
  <2>1. ready' = FALSE /\ rvalid' = FALSE /\ port' = port /\ psram' = psram
    BY <1>2 DEF Busy
  <2>2. Asking => ready = (port # NoOp)
    BY DEF Ported
  <2>3. (port # NoOp /\ ~port.read) => /\ Right(port.line, port.data)
                                       /\ port.line \in Nat /\ port.line < Lines
    BY DEF Ported
  <2> QED
    BY <2>1, <2>3, Zenon
<1>3. CASE Serve
  <2>1. /\ port # NoOp /\ port' = NoOp /\ ready' = FALSE /\ rvalid' = TRUE
        /\ rdata' = Part(psram, port.line)
        /\ psram' = IF port.read THEN psram ELSE Put(psram, port.line, port.data)
    BY <1>3 DEF Serve
  <2>2. /\ DOMAIN psram' = DOMAIN psram
        /\ \A a \in DOMAIN psram : psram'[a] = psram[a] \/ psram'[a] = Wanted(a)
    <3>1. CASE port.read
      BY <2>1, <3>1
    <3>2. CASE ~port.read
      <4>1. psram' = [a \in DOMAIN psram |-> IF a \div W = port.line THEN port.data[a % W]
                                             ELSE psram[a]]
        BY <2>1, <3>2, Zenon DEF Put
      <4>2. Right(port.line, port.data)
        BY <2>1, <3>2 DEF Ported
      <4>3. ASSUME NEW a \in DOMAIN psram PROVE psram'[a] = psram[a] \/ psram'[a] = Wanted(a)
        <5>1. a \in Nat
          <6>1. a \in 0 .. At(Lines) - 1
            BY <4>3 DEF Memories
          <6> QED
            BY <6>1
        <5>2. CASE a \div W = port.line
          <6>1. a % W \in Bytes /\ a = At(port.line) + (a % W)
            BY <5>1, <5>2, Split
          <6>2. port.data[a % W] = Wanted(a)
            BY <4>2, <6>1, Zenon DEF Right, Wanted
          <6> QED
            BY <4>1, <5>2, <6>2, Zenon
        <5>3. CASE a \div W # port.line
          BY <4>1, <5>3, Zenon
        <5> QED
          BY <5>2, <5>3
      <4> QED
        BY <4>1, <4>3, Zenon
    <3> QED
      BY <3>1, <3>2
  <2> QED
    BY <2>1, <2>2, Zenon
<1> QED
  BY <1>1, <1>2, <1>3 DEF PsramPort

\* What an edge of the port does to the PSRAM.
OneLine == /\ DOMAIN psram' = DOMAIN psram
           /\ \A a \in DOMAIN psram : psram'[a] = psram[a] \/ psram'[a] = Wanted(a)

SameJob == was' = was /\ e'.rq = e.rq

\* The first n bytes of the request are in place after the edge.
WillBeInPsram(n) ==
  \A t \in 0 .. e.rq.len - 1 : t < n => psram'[e.rq.mc + t] = was.ddr[At(e.rq.ddr) + t]
WillBeInDdr(n) ==
  \A t \in 0 .. e.rq.len - 1 : t < n => ddr'[At(e.rq.ddr) + t] = was.psram[e.rq.mc + t]

\* The bytes asked for are the range of the request.
LEMMA DestIs ==
  ASSUME Memories, NEW a \in Int
  PROVE  Dest(a) <=> (e.rq.rw /\ a \in e.rq.mc .. e.rq.mc + e.rq.len - 1)
BY SMT DEF Memories, Dest

\* Outside the destination the PSRAM is what it was.
LEMMA AroundKept ==
  ASSUME Memories, OnlyDestination(e.rq), NEW a \in DOMAIN psram, ~Dest(a)
  PROVE  psram[a] = was.psram[a]
<1>1. a \in Int
  <2>1. a \in 0 .. At(Lines) - 1
    BY DEF Memories
  <2> QED
    BY <2>1
<1> QED
  BY <1>1, DestIs DEF OnlyDestination

\* The port writes nothing outside the destination.
LEMMA PsramOnly ==
  ASSUME Memories, OnlyDestination(e.rq), OneLine, SameJob
  PROVE  \A a \in DOMAIN psram' : \/ e'.rq.rw /\ a \in e'.rq.mc .. e'.rq.mc + e'.rq.len - 1
                                  \/ psram'[a] = was'.psram[a]
<1> SUFFICES ASSUME NEW a \in DOMAIN psram
             PROVE  \/ e.rq.rw /\ a \in e.rq.mc .. e.rq.mc + e.rq.len - 1
                    \/ psram'[a] = was.psram[a]
  BY Zenon DEF OneLine, SameJob
<1>1. a \in Int
  <2>1. a \in 0 .. At(Lines) - 1
    BY DEF Memories
  <2> QED
    BY <2>1
<1>2. Dest(a) <=> (e.rq.rw /\ a \in e.rq.mc .. e.rq.mc + e.rq.len - 1)
  BY <1>1, DestIs
<1>3. ~Dest(a) => psram[a] = was.psram[a] /\ Wanted(a) = was.psram[a]
  BY AroundKept, Zenon DEF Wanted
<1> QED
  BY <1>2, <1>3, Zenon DEF OneLine

\* A byte of the request of a copy to the PSRAM.
LEMMA ByteIn ==
  ASSUME Counted, e.st \in ToPsram, Memories, NEW t \in 0 .. e.rq.len - 1
  PROVE  /\ e.rq.mc + t \in DOMAIN psram /\ t \in Nat
         /\ Dest(e.rq.mc + t) /\ Wanted(e.rq.mc + t) = was.ddr[At(e.rq.ddr) + t]
<1>1. /\ e.rq.rw = TRUE /\ Line0 \in Nat /\ Off \in 0 .. W - 1 /\ e.rq.mc = At(Line0) + Off
      /\ NL \in Nat /\ Line0 + NL <= Lines /\ e.rq.mc \in Nat /\ e.rq.len \in Nat
      /\ Off + e.rq.len <= At(NL)
  BY FactsIn
<1>2. At(Line0) + At(NL) <= At(Lines) /\ At(Lines) \in Int /\ At(Line0) \in Int /\ At(NL) \in Int
  <2>1. Line0 \in Int /\ NL \in Int /\ Line0 + NL \in Int /\ Lines \in Int
    BY <1>1, WidthAssumption
  <2>2. At(Line0 + NL) = At(Line0) + At(NL) /\ At(Line0 + NL) <= At(Lines)
    BY <1>1, <2>1, AtPlus, AtMost
  <2> QED
    BY <2>1, <2>2, AtInt
<1>3. e.rq.mc + t \in 0 .. At(Lines) - 1 /\ t \in Nat /\ (e.rq.mc + t) - e.rq.mc = t
  BY <1>1, <1>2
<1>4. Dest(e.rq.mc + t)
  BY <1>1, <1>3 DEF Dest
<1> QED
  BY <1>3, <1>4, Zenon DEF Wanted, Memories

\* What is in place in the PSRAM stays in place.
LEMMA InPsramStays ==
  ASSUME Counted, e.st \in ToPsram, Memories, OneLine, NEW n, InPsram(n)
  PROVE  WillBeInPsram(n)
<1> SUFFICES ASSUME NEW t \in 0 .. e.rq.len - 1, t < n
             PROVE  psram'[e.rq.mc + t] = was.ddr[At(e.rq.ddr) + t]
  BY DEF WillBeInPsram
<1>1. psram[e.rq.mc + t] = was.ddr[At(e.rq.ddr) + t]
  BY DEF InPsram
<1> QED
  BY <1>1, ByteIn, Zenon DEF OneLine

\* When its line is written, the bytes of the line are in place.
LEMMA InPsramNext ==
  ASSUME Counted, e.st \in ToPsram, Memories, OneLine, InPsram(At(e.idx) - Off),
         NEW data, Right(Line0 + e.idx, data), psram' = Put(psram, Line0 + e.idx, data)
  PROVE  WillBeInPsram(At(e.idx + 1) - Off)
<1> SUFFICES ASSUME NEW t \in 0 .. e.rq.len - 1, t < At(e.idx + 1) - Off
             PROVE  psram'[e.rq.mc + t] = was.ddr[At(e.rq.ddr) + t]
  BY DEF WillBeInPsram
<1>1. /\ e.rq.mc + t \in DOMAIN psram /\ t \in Nat
      /\ Dest(e.rq.mc + t) /\ Wanted(e.rq.mc + t) = was.ddr[At(e.rq.ddr) + t]
  BY ByteIn
<1>2. CASE t < At(e.idx) - Off
  <2>1. WillBeInPsram(At(e.idx) - Off)
    BY InPsramStays
  <2> QED
    BY <1>2, <2>1 DEF WillBeInPsram
<1>3. CASE ~(t < At(e.idx) - Off)
  <2> DEFINE a == e.rq.mc + t
             i == Line0 + e.idx
  <2>1. /\ Line0 \in Nat /\ Off \in 0 .. W - 1 /\ e.rq.mc = At(Line0) + Off /\ e.idx \in Nat
        /\ e.rq.mc \in Nat
    BY FactsIn
  <2>2. /\ At(i) = At(Line0) + At(e.idx) /\ At(Line0) \in Int /\ At(e.idx) \in Int
        /\ At(e.idx + 1) = At(e.idx) + W /\ W \in Int
    <3>1. Line0 \in Int /\ e.idx \in Int
      BY <2>1
    <3> QED
      BY <3>1, AtPlus, AtInt, AtNext, Width, Zenon
  <2>3. i \in Nat /\ a \in Int /\ At(i) <= a /\ a < At(i) + W
    BY <1>1, <1>3, <2>1, <2>2
  <2> HIDE DEF a, i
  <2>4. a \div W = i /\ a % W \in Bytes /\ a = At(i) + (a % W)
    <3>1. a \div W = i /\ a % W = a - At(i) /\ a - At(i) \in Bytes
      BY <2>3, Within
    <3>2. At(i) \in Int
      BY <2>3, AtInt
    <3> QED
      BY <2>3, <3>1, <3>2
  <2>5. psram'[a] = data[a % W]
    BY <1>1, <2>4, Zenon DEF Put, a, i
  <2>6. data[a % W] = Wanted(a)
    BY <2>4, Zenon DEF Right, Wanted, i
  <2> QED
    BY <1>1, <2>5, <2>6, Zenon DEF a
<1> QED
  BY <1>2, <1>3

\* The bytes of a line lie in the memory.
LEMMA InMemory ==
  ASSUME NEW i \in Nat, NEW n \in Nat, i < n, NEW b \in Bytes
  PROVE  At(i) + b \in 0 .. At(n) - 1
<1>1. At(i) \in Nat /\ At(i + 1) = At(i) + W /\ At(i + 1) <= At(n) /\ At(n) \in Int
  <2>1. i \in Int /\ n \in Int /\ i + 1 \in Int /\ i + 1 <= n
    OBVIOUS
  <2>2. At(i) \in Nat
    BY AtNat
  <2> QED
    BY <2>1, <2>2, AtNext, AtMost, AtInt, Zenon
<1> QED
  BY <1>1, Width

\* A line read of the PSRAM is the old one around the request.
LEMMA AroundRead ==
  ASSUME Memories, OnlyDestination(e.rq), NEW i \in Nat, i < Lines, NEW b \in Bytes,
         ~Dest(At(i) + b)
  PROVE  Part(psram, i)[b] = was.psram[At(i) + b]
<1>1. At(i) + b \in DOMAIN psram
  BY InMemory, WidthAssumption DEF Memories
<1>2. Part(psram, i)[b] = psram[At(i) + b]
  BY PartIs
<1> QED
  BY <1>1, <1>2, AroundKept, Zenon

\* A copy to the DDR reads lines that are what they were.
LEMMA SameLine ==
  ASSUME Memories, OnlyDestination(e.rq), e.rq.rw = FALSE, NEW i \in Nat, i < Lines
  PROVE  Part(psram, i) = Part(was.psram, i)
<1>1. ASSUME NEW b \in Bytes PROVE psram[i * W + b] = was.psram[i * W + b]
  <2>1. At(i) + b \in DOMAIN psram
    BY InMemory, WidthAssumption DEF Memories
  <2>2. ~Dest(At(i) + b)
    BY DEF Dest
  <2> QED
    BY <2>1, <2>2, AroundKept, Zenon DEF At
<1> QED
  BY <1>1, Zenon DEF Part

\* What is in place in the DDR stays in place.
LEMMA InDdrStays ==
  ASSUME NEW n, InDdr(n), ddr' = ddr
  PROVE  WillBeInDdr(n)
BY Zenon DEF InDdr, WillBeInDdr

\* A beat written to the DDR.
LEMMA BeatPut ==
  ASSUME Counted, e.st = "r_w", Memories, CarriedOut,
         ddr' = Put(ddr, e.rq.ddr + e.idx, e.out)
  PROVE  /\ DOMAIN ddr' = DOMAIN ddr
         /\ WillBeInDdr(At(e.idx + 1))
         /\ \A a \in DOMAIN ddr :
              \/ a \in e.rq.ddr * W .. (e.rq.ddr + NumBeats(e.rq)) * W - 1
              \/ ddr'[a] = ddr[a]
<1> DEFINE i == e.rq.ddr + e.idx
<1>0. e.st \in ToDdr
  BY DEF ToDdr
<1>1. /\ e.rq.rw = FALSE /\ e.idx \in Nat /\ e.idx < NB /\ e.rq.ddr \in Nat
      /\ NB \in Nat /\ e.rq.ddr + NB <= Beats /\ e.rq.len \in Nat /\ e.rq.len <= At(NB)
  <2>1. e.left = e.issue + e.burst /\ e.burst > 0 /\ e.issue \in Nat /\ e.burst \in Nat
    BY <1>0, SMT DEF Counted, Shape, CountsOut
  <2>2. e.left > 0
    BY <2>1
  <2>3. /\ e.rq.rw = FALSE /\ e.idx \in Nat /\ e.left \in Nat /\ e.idx = NB - e.left
        /\ e.rq.ddr \in Nat /\ NB \in Nat \ {0} /\ e.rq.ddr + NB <= Beats
        /\ e.rq.len \in Nat \ {0} /\ e.rq.len <= At(NB)
    BY <1>0, FactsOut
  <2> QED
    BY <2>2, <2>3
<1>2. i \in Nat /\ i + 1 <= e.rq.ddr + NB /\ i >= e.rq.ddr
  BY <1>1
<1>3. /\ At(i) = At(e.rq.ddr) + At(e.idx) /\ At(i + 1) = At(i) + W
      /\ At(e.idx + 1) = At(e.idx) + W
      /\ At(i) \in Int /\ At(e.idx) \in Int /\ At(e.rq.ddr) \in Int
      /\ At(e.rq.ddr) <= At(i) /\ At(i + 1) <= At(e.rq.ddr + NB)
      /\ At(e.rq.ddr + NB) <= At(Beats) /\ At(e.rq.ddr + NB) \in Int /\ At(Beats) \in Int
      /\ At(e.rq.ddr) \in Nat /\ At(e.rq.ddr + NB) = At(e.rq.ddr) + At(NB) /\ At(NB) \in Int
  <2>1. /\ e.rq.ddr \in Int /\ e.idx \in Int /\ i \in Int /\ i + 1 \in Int
        /\ e.rq.ddr + NB \in Int /\ Beats \in Int /\ NB \in Int
    BY <1>1, <1>2, WidthAssumption
  <2>2. At(e.rq.ddr) \in Nat
    BY <1>1, AtNat
  <2>3. At(i) = At(e.rq.ddr) + At(e.idx)
    BY <2>1, AtPlus
  <2> HIDE DEF i
  <2>4. At(i + 1) = At(i) + W /\ At(e.idx + 1) = At(e.idx) + W
    BY <2>1, AtNext
  <2>5. /\ At(i) \in Int /\ At(e.idx) \in Int /\ At(e.rq.ddr) \in Int
        /\ At(e.rq.ddr + NB) \in Int /\ At(Beats) \in Int /\ At(NB) \in Int
    BY <2>1, AtInt
  <2>6. /\ At(e.rq.ddr) <= At(i) /\ At(i + 1) <= At(e.rq.ddr + NB)
        /\ At(e.rq.ddr + NB) <= At(Beats)
    BY <1>1, <1>2, <2>1, AtMost
  <2>7. At(e.rq.ddr + NB) = At(e.rq.ddr) + At(NB)
    BY <2>1, AtPlus
  <2> QED
    BY <2>2, <2>3, <2>4, <2>5, <2>6, <2>7, Zenon
<1>4. ddr' = [a \in DOMAIN ddr |-> IF a \div W = i THEN e.out[a % W] ELSE ddr[a]]
  BY Zenon DEF Put
<1> HIDE DEF i
<1>5. ASSUME NEW a \in DOMAIN ddr, ddr'[a] # ddr[a]
      PROVE  a \in e.rq.ddr * W .. (e.rq.ddr + NumBeats(e.rq)) * W - 1
  <2>1. a \in 0 .. At(Beats) - 1
    BY DEF Memories
  <2>2. a \in Nat /\ a \div W = i
    BY <1>4, <1>5, <2>1
  <2>3. a = At(i) + (a % W) /\ a % W \in Bytes
    BY <2>2, Split
  <2>4. a \in At(e.rq.ddr) .. At(e.rq.ddr + NB) - 1
    <3> DEFINE r == a % W
    <3>1. r \in Int /\ r >= 0 /\ r < W /\ W \in Int /\ a = At(i) + r
      BY <2>3, Width
    <3> HIDE DEF r
    <3> QED
      BY <1>3, <2>2, <3>1
  <2> QED
    BY <2>4, Zenon DEF At, NB
<1>6. ASSUME NEW t \in 0 .. e.rq.len - 1, t < At(e.idx + 1)
      PROVE  ddr'[At(e.rq.ddr) + t] = was.psram[e.rq.mc + t]
  <2> DEFINE a == At(e.rq.ddr) + t
  <2>1. a \in DOMAIN ddr /\ a \in Nat /\ t \in Nat
    <3>1. a \in 0 .. At(Beats) - 1 /\ t \in Nat
      BY <1>1, <1>3
    <3> QED
      BY <3>1 DEF Memories
  <2>2. CASE t < At(e.idx)
    <3>1. ddr[a] = was.psram[e.rq.mc + t]
      BY <1>0, <2>2, Zenon DEF CarriedOut, InDdr
    <3>2. a \div W # i
      <4>1. SUFFICES ASSUME a \div W = i PROVE FALSE
        OBVIOUS
      <4>2. a = At(i) + (a % W) /\ a % W \in Bytes
        BY <2>1, <4>1, Split, Zenon
      <4> DEFINE r == a % W
      <4>3. r \in Int /\ r >= 0 /\ At(e.rq.ddr) + t = At(i) + r
        BY <4>2, Width
      <4> HIDE DEF r
      <4> QED
        BY <1>3, <2>1, <2>2, <4>3
    <3> QED
      BY <1>4, <2>1, <3>1, <3>2, Zenon
  <2>3. CASE ~(t < At(e.idx))
    <3> DEFINE k == t - At(e.idx)
    <3>1. k \in Bytes /\ At(e.idx) + k = t /\ a = At(i) + k
      <4>1. k \in 0 .. W - 1 /\ At(e.idx) + k = t /\ a = At(i) + k
        BY <1>3, <1>6, <2>1, <2>3, Width
      <4> QED
        BY <4>1, Width
    <3>2. a \div W = i /\ a % W = k
      <4> HIDE DEF a, k
      <4> QED
        BY <1>2, <3>1, Unique
    <3>3. t < e.rq.len
      BY <1>1
    <3>4. e.out[k] = was.psram[e.rq.mc + t]
      <4> HIDE DEF k
      <4> QED
        BY <1>0, <3>1, <3>3, Zenon DEF CarriedOut
    <3> QED
      BY <1>4, <2>1, <3>2, <3>4, Zenon
  <2> QED
    BY <2>2, <2>3
<1>7. WillBeInDdr(At(e.idx + 1))
  BY <1>6, Zenon DEF WillBeInDdr
<1> QED
  BY <1>4, <1>5, <1>7, Zenon

-----------------------------------------------------------------------------
(* A clock edge keeps the bytes right                                     *)

\* Only taking a request changes the job.
LEMMA JobKept == ASSUME Moves, ~Begins PROVE SameJob /\ Fields \subseteq DOMAIN e'
<1>1. was' = was
  BY DEF Moves
<1>2. e'.rq = e.rq /\ Fields \subseteq DOMAIN e'
  BY Zenon DEF Moves, Stays, Turns, IssuesRead, IssuesLast, TakesBeat, DropsBeat, KeepsOld,
     NextLine, LastLine, Gathers, KeepsLine, IssuesWrite, WritesBeat, Same, Fields
<1> QED
  BY <1>1, <1>2 DEF SameJob

Stopped == {"idle", "abort_r", "abort_mc", "abort_done"}

\* The engine as the port sees it.
LEMMA Transits ==
  ASSUME Moves, ~Begins
  PROVE  \/ Stays
         \/ e'.st \in Stopped
         \/ /\ Same({"st"}) /\ ready
            /\ \/ e.st = "w_rmw" /\ e'.st = "w_rmw_wait"
               \/ e.st = "w_write" /\ e'.st = "w_write_wait"
               \/ e.st = "r_mc" /\ e'.st = "r_mc_wait"
         \/ /\ ~Asking /\ (Awaiting => rvalid) /\ e.st \notin Stopped
            /\ e'.st \notin {"w_rmw_wait", "w_write_wait", "r_mc_wait"}
<1>1. CASE \E st : Turns(st)
  <2>1. PICK st : Turns(st)
    BY <1>1
  <2>2. e'.st = st /\ Same({"st"})
    BY <2>1 DEF Turns
  <2>3. CASE st \in {"w_r", "w_ar", "w_rmw", "w_write", "r_aw", "r_mc", "done"}
    BY <2>1, <2>2, <2>3, SMT DEF Turns, Stopped, Asking, Awaiting
  <2>4. CASE st \in {"w_rmw_wait", "w_write_wait", "r_mc_wait"}
    BY <2>1, <2>2, <2>4, SMT DEF Turns
  <2>5. CASE st \in Stopped
    BY <2>2, <2>5
  <2> QED
    BY <2>1, <2>3, <2>4, <2>5, SMT DEF Turns, Stopped
<1>2. CASE IssuesRead \/ TakesBeat \/ KeepsOld \/ NextLine \/ LastLine
  BY <1>2, SMT DEF IssuesRead, TakesBeat, KeepsOld, NextLine, LastLine, Asking, Awaiting, Stopped
<1>3. CASE IssuesLast \/ DropsBeat
  BY <1>3, SMT DEF IssuesLast, DropsBeat, Stopped
<1>4. CASE Gathers \/ KeepsLine \/ IssuesWrite \/ WritesBeat
  BY <1>4, SMT DEF Gathers, KeepsLine, IssuesWrite, WritesBeat, Asking, Awaiting, Stopped
<1> QED
  BY <1>1, <1>2, <1>3, <1>4 DEF Moves

\* An edge keeps the port to what the engine asked for.
LEMMA PortedNext ==
  ASSUME Counted, Memories, Ported, CarriedIn, PsramPort, Moves, ~Begins
  PROVE  Ported'
<1>1. SameJob
  BY JobKept
<1>2. /\ (port' # NoOp /\ ~port'.read) => /\ Right(port'.line, port'.data)
                                          /\ port'.line \in Nat /\ port'.line < Lines
      /\ (port = NoOp /\ ~Asking) => port' = NoOp /\ ready' = FALSE /\ rvalid' = FALSE
      /\ (port = NoOp /\ Asking)
           => /\ ready' = (port' # NoOp) /\ rvalid' = FALSE
              /\ port' # NoOp => port'.line = ThisLine /\ port'.read = (e.st # "w_write")
      /\ port # NoOp
           => ready' = FALSE /\ rvalid' = (port' = NoOp) /\ port' \in {port, NoOp}
  BY PortKeeps
<1>3. /\ (e.st \notin Stopped /\ ~Asking /\ ~Awaiting) => port = NoOp
      /\ Asking => ready = (port # NoOp)
      /\ Awaiting => rvalid = (port = NoOp)
      /\ ((Asking \/ Awaiting) /\ port # NoOp) =>
           port.line = ThisLine /\ port.read = (e.st \notin {"w_write", "w_write_wait"})
  BY DEF Ported, Stopped
<1>4. (port' # NoOp /\ ~port'.read) => /\ Right(port.line, port.data)'
                                       /\ port'.line \in Nat /\ port'.line < Lines
  BY <1>1, <1>2, Zenon DEF Right, Dest, SameJob
<1>5. SUFFICES
        /\ (e'.st \notin Stopped /\ ~Asking' /\ ~Awaiting') => port' = NoOp
        /\ Asking' => ready' = (port' # NoOp)
        /\ Awaiting' => rvalid' = (port' = NoOp)
        /\ ((Asking' \/ Awaiting') /\ port' # NoOp) =>
             port'.line = ThisLine' /\ port'.read = (e'.st \notin {"w_write", "w_write_wait"})
  BY <1>4, Zenon DEF Ported, Stopped
<1>6. CASE e'.st \in Stopped
  BY <1>6, SMT DEF Stopped, Asking, Awaiting
<1>7. ASSUME Same({"st"})
      PROVE  /\ Line0' = Line0 /\ e'.idx = e.idx /\ e'.loaded = e.loaded
             /\ ((e'.st \in ToPsram) = (e.st \in ToPsram)) => ThisLine' = ThisLine
  <2>1. e'.rq = e.rq /\ e'.idx = e.idx /\ e'.loaded = e.loaded
    BY <1>7, Zenon DEF Same, Fields
  <2>2. Line0' = Line0
    BY <2>1, SameRequest
  <2> QED
    BY <2>1, <2>2, Zenon DEF ThisLine
<1>8. CASE Stays /\ e'.st \notin Stopped
  <2>1. Same({"st"}) /\ e'.st = e.st /\ (Asking => ~ready) /\ (Awaiting => ~rvalid)
    BY <1>8, Zenon DEF Stays, Same, Fields
  <2>2. ThisLine' = ThisLine
    BY <1>7, <2>1
  <2>3. Asking' = Asking /\ Awaiting' = Awaiting
    BY <2>1, Zenon DEF Asking, Awaiting
  <2>4. CASE Asking
    <3>0. port = NoOp
      BY <1>3, <2>1, <2>4, Zenon
    <3>1. port = NoOp /\ ~Awaiting /\ e.st \notin {"w_write_wait"}
      BY <2>4, <3>0, SMT DEF Asking, Awaiting
    <3> QED
      BY <1>2, <2>1, <2>2, <2>3, <2>4, <3>1, SMT
  <2>5. CASE ~Asking /\ Awaiting
    <3>1. port # NoOp
      BY <1>3, <2>1, <2>5
    <3> QED
      BY <1>2, <1>3, <2>1, <2>2, <2>3, <2>5, <3>1, SMT
  <2>6. CASE ~Asking /\ ~Awaiting
    BY <1>2, <1>3, <1>8, <2>1, <2>3, <2>6, Zenon
  <2> QED
    BY <2>4, <2>5, <2>6
<1>9. CASE /\ Same({"st"}) /\ ready
           /\ \/ e.st = "w_rmw" /\ e'.st = "w_rmw_wait"
              \/ e.st = "w_write" /\ e'.st = "w_write_wait"
              \/ e.st = "r_mc" /\ e'.st = "r_mc_wait"
  <2>1. ThisLine' = ThisLine
    BY <1>7, <1>9, SMT DEF ToPsram
  <2>2. Asking /\ ~Asking' /\ Awaiting'
    BY <1>9, SMT DEF Asking, Awaiting
  <2>3. port # NoOp
    BY <1>3, <1>9, <2>2
  <2>4. (e'.st \notin {"w_write", "w_write_wait"}) = (e.st \notin {"w_write", "w_write_wait"})
    BY <1>9
  <2> QED
    BY <1>2, <1>3, <2>1, <2>2, <2>3, <2>4, SMT
<1>10. CASE /\ ~Asking /\ (Awaiting => rvalid) /\ e.st \notin Stopped
            /\ e'.st \notin {"w_rmw_wait", "w_write_wait", "r_mc_wait"}
  <2>1. port = NoOp
    BY <1>3, <1>10
  <2>2. port' = NoOp /\ ready' = FALSE /\ ~Awaiting'
    BY <1>2, <1>10, <2>1 DEF Awaiting
  <2> QED
    BY <2>2
<1> QED
  BY <1>6, <1>8, <1>9, <1>10, Transits, Zenon

\* The moves of a copy to the PSRAM that goes on.
LEMMA MovesIn ==
  ASSUME Moves, ~Begins, e'.st \in ToPsram
  PROVE  /\ e.st \in ToPsram
         /\ \/ Stays /\ reads' = reads
            \/ (\E st \in ToPsram \ {"w_line"} : Turns(st)) /\ reads' = reads
            \/ (KeepsOld \/ NextLine) /\ reads' = reads
            \/ IssuesRead \/ TakesBeat
<1>1. CASE (\E st : Turns(st)) /\ UNCHANGED axi
  <2>1. PICK st : Turns(st)
    BY <1>1
  <2>2. e'.st = st
    BY <2>1 DEF Turns
  <2>3. st \in ToPsram \ {"w_line"} /\ e.st \in ToPsram
    BY <2>1, <2>2, SMT DEF Turns, ToPsram
  <2> QED
    BY <1>1, <2>1, <2>3, Zenon DEF axi
<1>2. CASE Stays /\ UNCHANGED axi
  BY <1>2, Zenon DEF Stays, Same, Fields, axi
<1>3. CASE IssuesRead \/ TakesBeat \/ ((KeepsOld \/ NextLine) /\ UNCHANGED axi)
  <2>1. e.st \in {"w_ar", "w_r", "w_rmw_wait", "w_write_wait"}
    BY <1>3, Zenon DEF IssuesRead, TakesBeat, KeepsOld, NextLine
  <2>2. e.st \in ToPsram
    BY <2>1, SMT DEF ToPsram
  <2> QED
    BY <1>3, <2>2, Zenon DEF axi
<1>4. CASE IssuesLast \/ DropsBeat
  BY <1>4, SMT DEF IssuesLast, DropsBeat, ToPsram
<1>5. CASE LastLine \/ Gathers \/ KeepsLine
  BY <1>5, SMT DEF LastLine, Gathers, KeepsLine, ToPsram
<1>6. CASE IssuesWrite \/ WritesBeat
  BY <1>6, SMT DEF IssuesWrite, WritesBeat, ToPsram
<1> QED
  BY <1>1, <1>2, <1>3, <1>4, <1>5, <1>6, Zenon DEF Moves

\* A copy to the PSRAM reads beats that are what they were.
LEMMA SameBeat ==
  ASSUME Memories, OnlyDestination(e.rq), e.rq.rw = TRUE, NEW i \in Nat, i < Beats
  PROVE  Part(ddr, i) = Part(was.ddr, i)
<1>1. ASSUME NEW b \in Bytes PROVE ddr[i * W + b] = was.ddr[i * W + b]
  <2>1. i * W + b \in DOMAIN ddr
    BY InMemory, WidthAssumption DEF Memories, At
  <2> QED
    BY <2>1, Zenon DEF OnlyDestination
<1> QED
  BY <1>1, Zenon DEF Part

\* The beats on their way and the two last beats taken.
BeatsHeld ==
  /\ Len(reads) = e.burst
  /\ \A k \in 1 .. e.burst : reads[k] = (e.rq.ddr + Fetched) + (k - 1)
  /\ Fetched > 0 => e.hi = Part(was.ddr, (e.rq.ddr + Fetched) - 1)
  /\ Fetched > 1 => e.lo = Part(was.ddr, (e.rq.ddr + Fetched) - 2)

\* An edge keeps the beats on their way in order, and the two last ones held.
LEMMA BeatsHeldNext ==
  ASSUME Counted, Memories, OnlyDestination(e.rq), BeatsHeld, Moves, ~Begins, e'.st \in ToPsram
  PROVE  BeatsHeld'
<1>0. e.st \in ToPsram
  BY MovesIn
<1>1. SameJob /\ Fields \subseteq DOMAIN e'
  BY JobKept
<1>2. NB' = NB /\ Fetched' = (NB - e'.issue) - e'.burst /\ Fetched = (NB - e.issue) - e.burst
  BY <1>1, SameRequest, Zenon DEF SameJob, Fetched
<1>3. /\ e.rq.rw = TRUE /\ e.rq.ddr \in Nat /\ NB \in Nat /\ e.rq.ddr + NB <= Beats
      /\ Fetched \in Nat /\ Fetched <= NB /\ e.burst \in Nat /\ e.issue \in Nat
  BY <1>0, FactsIn, Zenon DEF Counted, Shape
<1>4. CASE (Stays \/ (\E st : Turns(st)) \/ KeepsOld \/ NextLine) /\ reads' = reads
  <2>1. e'.burst = e.burst /\ e'.issue = e.issue /\ e'.hi = e.hi /\ e'.lo = e.lo
    BY <1>4, Zenon DEF Stays, Turns, KeepsOld, NextLine, Same, Fields
  <2>2. reads' = reads
    BY <1>4
  <2>3. Fetched' = Fetched
    BY <1>2, <2>1
  <2> QED
    BY <1>1, <2>1, <2>2, <2>3, Zenon DEF BeatsHeld, SameJob
<1>5. CASE IssuesRead
  <2>1. /\ e'.burst = size /\ e'.issue = e.issue - size /\ e'.hi = e.hi /\ e'.lo = e.lo
        /\ reads' = reads \o [k \in 1 .. size |-> NextBeat + k - 1] /\ e.st = "w_ar"
    BY <1>5, Zenon DEF IssuesRead, Same, Fields
  <2>2. size \in Nat /\ NextBeat = (e.rq.ddr + NB) - e.issue
    BY <2>1, Offered
  <2>3. e.burst = 0
    BY <2>1, SMT DEF Counted, CountsIn, ToPsram
  <2>4. Fetched' = Fetched /\ NextBeat = e.rq.ddr + Fetched
    <3>1. Fetched' = (NB - (e.issue - size)) - size /\ Fetched = (NB - e.issue) - 0
      BY <1>2, <2>1, <2>3, Zenon
    <3> QED
      BY <1>3, <2>2, <3>1
  <2>5. reads \in Seq(Int) /\ Len(reads) = 0
    BY <2>3 DEF Memories, BeatsHeld
  <2>6. /\ Len(reads') = size
        /\ \A k \in 1 .. size : reads'[k] = (e.rq.ddr + Fetched) + (k - 1)
    <3> DEFINE s == [k \in 1 .. size |-> NextBeat + k - 1]
    <3>1. s \in Seq(Int) /\ Len(s) = size /\ \A k \in 1 .. size : s[k] = NextBeat + k - 1
      BY <1>3, <2>2, <2>4
    <3> HIDE DEF s
    <3>2. /\ Len(reads \o s) = size /\ \A k \in 1 .. size : (reads \o s)[k] = s[k]
      BY <2>2, <2>5, <3>1
    <3>3. reads' = reads \o s
      BY <2>1 DEF s
    <3>4. \A k \in 1 .. size : NextBeat + k - 1 = (e.rq.ddr + Fetched) + (k - 1)
      BY <1>3, <2>2, <2>4
    <3> QED
      BY <3>1, <3>2, <3>3, <3>4, Zenon
  <2> QED
    BY <1>1, <2>1, <2>4, <2>6, Zenon DEF BeatsHeld, SameJob
<1>6. CASE TakesBeat
  <2>1. /\ e'.burst = e.burst - 1 /\ e'.issue = e.issue
        /\ e'.hi = Part(ddr, Head(reads)) /\ e'.lo = e.hi
        /\ reads # <<>> /\ reads' = Tail(reads) /\ e.st = "w_r"
    BY <1>6, Zenon DEF TakesBeat, Same, Fields
  <2>2. e.burst > 0 /\ Fetched + e.fetch = BeatsFor(e.idx) /\ e.fetch = 1 /\ e.idx \in Nat
    BY <2>1, SMT DEF Counted, Shape, CountsIn, ToPsram
  <2>3. Fetched' = Fetched + 1 /\ Fetched < NB
    <3>1. BeatsFor(e.idx) <= NB
      BY <1>3, <2>2 DEF BeatsFor
    <3> QED
      BY <1>2, <1>3, <2>1, <2>2, <3>1
  <2>4. /\ Len(reads') = e.burst - 1 /\ Head(reads) = reads[1]
        /\ \A k \in 1 .. e.burst - 1 : reads'[k] = reads[k + 1]
    BY <1>3, <2>1, <2>2, SMT DEF Memories, BeatsHeld
  <2>5. Head(reads) = e.rq.ddr + Fetched
    <3>0. 1 \in 1 .. e.burst
      BY <1>3, <2>2
    <3>1. reads[1] = (e.rq.ddr + Fetched) + (1 - 1)
      BY <3>0, Zenon DEF BeatsHeld
    <3> QED
      BY <1>3, <2>4, <3>1
  <2>6. e'.hi = Part(was.ddr, e.rq.ddr + Fetched)
    <3>1. e.rq.ddr + Fetched \in Nat /\ e.rq.ddr + Fetched < Beats
      BY <1>3, <2>3, WidthAssumption
    <3> QED
      BY <1>3, <2>1, <2>5, <3>1, SameBeat
  <2>7. \A k \in 1 .. e.burst - 1 : reads'[k] = (e.rq.ddr + Fetched') + (k - 1)
    <3> SUFFICES ASSUME NEW k \in 1 .. e.burst - 1
                 PROVE  reads'[k] = (e.rq.ddr + Fetched') + (k - 1)
      OBVIOUS
    <3>1. k + 1 \in 1 .. e.burst /\ k \in Int
      BY <1>3
    <3>2. reads[k + 1] = (e.rq.ddr + Fetched) + ((k + 1) - 1)
      BY <3>1, Zenon DEF BeatsHeld
    <3>3. reads'[k] = (e.rq.ddr + Fetched) + ((k + 1) - 1)
      BY <2>4, <3>2, Zenon
    <3> QED
      BY <1>3, <2>3, <3>1, <3>3
  <2>8. /\ (e.rq.ddr + Fetched') - 1 = e.rq.ddr + Fetched
        /\ (e.rq.ddr + Fetched') - 2 = (e.rq.ddr + Fetched) - 1
        /\ Fetched' > 1 => Fetched > 0
    BY <1>3, <2>3
  <2>9. Fetched' > 1 => e'.lo = Part(was.ddr, (e.rq.ddr + Fetched') - 2)
    BY <2>1, <2>8 DEF BeatsHeld
  <2> QED
    BY <1>1, <2>1, <2>4, <2>6, <2>7, <2>8, <2>9, Zenon DEF BeatsHeld, SameJob
<1> QED
  BY <1>4, <1>5, <1>6, MovesIn, Zenon

\* What a copy to the PSRAM keeps of its place when it stays at its line.
LEMMA PlaceIn ==
  ASSUME Moves, ~Begins, e'.st \in ToPsram, ~NextLine
  PROVE  /\ e'.idx = e.idx /\ e'.part = e.part /\ Line0' = Line0 /\ Off' = Off
         /\ ThisLine' = Line0 + e.idx /\ ThisLine = Line0 + e.idx
<1>1. e.st \in ToPsram
  BY MovesIn
<1>2. e'.idx = e.idx /\ e'.part = e.part
  BY MovesIn, Zenon DEF Stays, Turns, IssuesRead, TakesBeat, KeepsOld, Same, Fields
<1>3. Line0' = Line0 /\ Off' = Off
  BY JobKept, SameRequest DEF SameJob
<1> QED
  BY <1>1, <1>2, <1>3, Zenon DEF ThisLine

\* Where the engine can wait for the line it has asked for.
LEMMA WaitsFor ==
  ASSUME Moves, ~Begins, Ported, e'.st \in {"w_rmw_wait", "w_write_wait", "r_mc_wait"}
  PROVE  /\ port # NoOp /\ port.line = ThisLine
         /\ port.read = (e'.st # "w_write_wait") /\ ~NextLine
         /\ e'.st = "r_mc_wait" => e.st \in {"r_mc", "r_mc_wait"} /\ Same({"st"})
<1>1. \/ Stays /\ e.st = e'.st /\ ~rvalid
      \/ e.st = "w_rmw" /\ e'.st = "w_rmw_wait" /\ ready
      \/ e.st = "w_write" /\ e'.st = "w_write_wait" /\ ready
      \/ e.st = "r_mc" /\ e'.st = "r_mc_wait" /\ ready /\ Same({"st"})
  <2>1. CASE Stays
    <3>1. e'.st = e.st
      BY <2>1, Zenon DEF Stays, Same, Fields
    <3>2. Awaiting
      BY <3>1, SMT DEF Awaiting
    <3> QED
      BY <2>1, <3>1, <3>2, Zenon DEF Stays
  <2>2. CASE ~Stays
    BY <2>2, Transits, SMT DEF Stopped
  <2> QED
    BY <2>1, <2>2
<1>2. /\ Asking => ready = (port # NoOp)
      /\ Awaiting => rvalid = (port = NoOp)
      /\ ((Asking \/ Awaiting) /\ port # NoOp) =>
           port.line = ThisLine /\ port.read = (e.st \notin {"w_write", "w_write_wait"})
  BY DEF Ported
<1>3. port # NoOp /\ (Asking \/ Awaiting)
  <2>1. CASE Stays /\ e.st = e'.st /\ ~rvalid
    <3>1. Awaiting
      BY <2>1, SMT DEF Awaiting
    <3> QED
      BY <1>2, <2>1, <3>1, Zenon
  <2>2. CASE e.st \in {"w_rmw", "w_write", "r_mc"} /\ ready
    <3>1. Asking
      BY <2>2, SMT DEF Asking
    <3> QED
      BY <1>2, <2>2, <3>1, Zenon
  <2> QED
    BY <1>1, <2>1, <2>2
<1>4. (e.st \notin {"w_write", "w_write_wait"}) = (e'.st # "w_write_wait")
  BY <1>1
<1>5. ~NextLine
  BY DEF NextLine
<1>6. e'.st = "r_mc_wait" => e.st \in {"r_mc", "r_mc_wait"} /\ Same({"st"})
  <2>1. Stays => Same({"st"})
    BY Zenon DEF Stays, Same
  <2> QED
    BY <1>1, <2>1
<1> QED
  BY <1>2, <1>3, <1>4, <1>5, <1>6, Zenon

\* The old line is there when the line is merged.
LEMMA OldHeldNext ==
  ASSUME Counted, Memories, OnlyDestination(e.rq), Ported, CarriedIn, PsramPort, Moves, ~Begins,
         e'.st \in ToPsram
  PROVE  /\ (e'.st = "w_rmw_wait" /\ rvalid') => Around(rdata)'
         /\ (e'.st = "w_write" /\ e'.part) => Around(e.old)'
<1>0. e.st \in ToPsram /\ SameJob
  BY MovesIn, JobKept
<1>1. ASSUME ~NextLine, NEW data,
             \A b \in Bytes : ~Dest(At(ThisLine) + b) => data[b] = was.psram[At(ThisLine) + b]
      PROVE  \A b \in Bytes : (~Dest(At(ThisLine) + b))' => data[b] = was'.psram[At(ThisLine') + b]
  <2>1. ThisLine' = ThisLine
    BY <1>1, PlaceIn
  <2>2. \A a : Dest(a)' <=> Dest(a)
    BY <1>0, Zenon DEF Dest, SameJob
  <2>3. \A b \in Bytes : Dest(At(ThisLine) + b)' <=> Dest(At(ThisLine) + b)
    BY <1>0, <2>1, Zenon DEF Dest, SameJob
  <2> QED
    BY <1>0, <1>1, <2>1, <2>3, Zenon DEF SameJob
<1>2. ASSUME e'.st = "w_rmw_wait", rvalid' PROVE Around(rdata)'
  <2>1. port # NoOp /\ port.line = ThisLine /\ ~NextLine
    BY <1>2, WaitsFor
  <2>2. rdata' = Part(psram, ThisLine)
    <3>1. port # NoOp =>
            /\ rvalid' = (port' = NoOp)
            /\ port' = NoOp => rdata' = Part(psram, port.line)
      BY PortKeeps
    <3> QED
      BY <1>2, <2>1, <3>1, Zenon
  <2>3. ThisLine \in Nat /\ ThisLine < Lines
    <3>1. /\ Line0 \in Nat /\ e.idx \in Nat /\ e.left \in Nat /\ e.left > 0 /\ e.idx = NL - e.left
          /\ NL \in Nat \ {0} /\ Line0 + NL <= Lines
      BY <1>0, FactsIn
    <3>2. ThisLine = Line0 + e.idx
      BY <2>1, PlaceIn
    <3> QED
      BY <3>1, <3>2, WidthAssumption
  <2>4. \A b \in Bytes : ~Dest(At(ThisLine) + b) => rdata'[b] = was.psram[At(ThisLine) + b]
    BY <2>2, <2>3, AroundRead, Zenon
  <2> QED
    BY <1>1, <2>1, <2>4, Zenon DEF Around
<1>3. ASSUME e'.st = "w_write", e'.part PROVE Around(e.old)'
  <2>1. ~NextLine /\ ~IssuesRead /\ ~TakesBeat
    BY <1>3 DEF NextLine, IssuesRead, TakesBeat
  <2>2. e'.part = e.part
    BY <2>1, PlaceIn
  <2>3. Around(e'.old)
    <3>1. CASE Stays
      <4>1. e'.st = e.st /\ e'.old = e.old
        BY <3>1, Zenon DEF Stays, Same, Fields
      <4> QED
        BY <1>0, <1>3, <2>2, <4>1, Zenon DEF CarriedIn
    <3>2. CASE \E st \in ToPsram \ {"w_line"} : Turns(st)
      <4>1. PICK st : Turns(st) /\ st = e'.st
        BY <3>2 DEF Turns
      <4>2. ~e.part
        BY <1>3, <4>1, SMT DEF Turns
      <4> QED
        BY <1>3, <2>2, <4>2
    <3>3. CASE KeepsOld
      BY <1>0, <3>3, Zenon DEF KeepsOld, CarriedIn
    <3> QED
      BY <2>1, <3>1, <3>2, <3>3, MovesIn, Zenon
  <2>4. \A b \in Bytes : ~Dest(At(ThisLine) + b) => e'.old[b] = was.psram[At(ThisLine) + b]
    BY <2>3, Zenon DEF Around
  <2> QED
    BY <1>1, <2>1, <2>4, Zenon DEF Around
<1> QED
  BY <1>2, <1>3

\* Line by line the bytes come to their place in the PSRAM.
LEMMA InPsramProgress ==
  ASSUME Counted, Memories, Ported, CarriedIn, PsramPort, Moves, ~Begins, e'.st \in ToPsram
  PROVE  /\ InPsram(At(e.idx) - Off)'
         /\ (e'.st = "w_write_wait" /\ rvalid') => InPsram(At(e.idx + 1) - Off)'
<1>0. e.st \in ToPsram /\ SameJob /\ Off' = Off
  BY MovesIn, JobKept, SameRequest DEF SameJob
<1>1. OneLine
  BY PortKeeps DEF OneLine
<1>2. InPsram(At(e.idx) - Off)
  BY <1>0 DEF CarriedIn
<1>3. InPsram(At(e.idx) - Off)'
  <2>1. WillBeInPsram(At(e'.idx) - Off)
    <3>1. CASE NextLine
      <4>1. e'.idx = e.idx + 1 /\ InPsram(At(e.idx + 1) - Off)
        BY <1>0, <3>1, Zenon DEF NextLine, CarriedIn
      <4> QED
        BY <1>0, <1>1, <4>1, InPsramStays, Zenon
    <3>2. CASE ~NextLine
      <4>1. e'.idx = e.idx
        BY <3>2, PlaceIn
      <4> QED
        BY <1>0, <1>1, <1>2, <4>1, InPsramStays, Zenon
    <3> QED
      BY <3>1, <3>2
  <2> QED
    BY <1>0, <2>1, Zenon DEF InPsram, WillBeInPsram, SameJob
<1>4. ASSUME e'.st = "w_write_wait", rvalid' PROVE InPsram(At(e.idx + 1) - Off)'
  <2>1. port # NoOp /\ port.line = ThisLine /\ ~port.read /\ ~NextLine
    <3>1. port # NoOp /\ port.line = ThisLine /\ port.read = (e'.st # "w_write_wait") /\ ~NextLine
      BY <1>4, WaitsFor
    <3> QED
      BY <1>4, <3>1
  <2>2. e'.idx = e.idx /\ ThisLine = Line0 + e.idx
    BY <2>1, PlaceIn
  <2>3. psram' = Put(psram, Line0 + e.idx, port.data)
    <3>1. port # NoOp =>
            /\ rvalid' = (port' = NoOp)
            /\ port' = NoOp =>
                 psram' = IF port.read THEN psram ELSE Put(psram, port.line, port.data)
      BY PortKeeps
    <3> QED
      BY <1>4, <2>1, <2>2, <3>1, Zenon
  <2>4. Right(Line0 + e.idx, port.data)
    BY <2>1, <2>2, Zenon DEF Ported
  <2>5. WillBeInPsram(At(e.idx + 1) - Off)
    BY <1>0, <1>1, <1>2, <2>3, <2>4, InPsramNext
  <2> QED
    BY <1>0, <2>2, <2>5, Zenon DEF InPsram, WillBeInPsram, SameJob
<1> QED
  BY <1>3, <1>4

\* An edge keeps what a copy to the PSRAM carries.
LEMMA CarriedInNext ==
  ASSUME Counted, Memories, OnlyDestination(e.rq), Ported, CarriedIn, PsramPort, Moves, ~Begins
  PROVE  CarriedIn'
<1> SUFFICES ASSUME e'.st \in ToPsram PROVE CarriedIn'
  BY Zenon DEF CarriedIn
<1>1. e.st \in ToPsram
  BY MovesIn
<1>2. BeatsHeld
  BY <1>1, Zenon DEF CarriedIn, BeatsHeld
<1>3. BeatsHeld'
  BY <1>2, BeatsHeldNext
<1> QED
  BY <1>3, OldHeldNext, InPsramProgress, Zenon DEF CarriedIn, BeatsHeld

\* The moves of a copy to the DDR that goes on.
LEMMA MovesOut ==
  ASSUME Moves, ~Begins, e'.st \in ToDdr
  PROVE  /\ e.st \in ToDdr
         /\ \/ (Stays \/ \E st \in ToDdr \ {"r_w"} : Turns(st)) /\ ddr' = ddr
            \/ (Gathers \/ KeepsLine \/ IssuesWrite) /\ ddr' = ddr
            \/ WritesBeat
<1>1. CASE (\E st : Turns(st)) /\ UNCHANGED axi
  <2>1. PICK st : Turns(st)
    BY <1>1
  <2>2. e'.st = st
    BY <2>1 DEF Turns
  <2>3. st \in ToDdr \ {"r_w"} /\ e.st \in ToDdr
    BY <2>1, <2>2, SMT DEF Turns, ToDdr
  <2> QED
    BY <1>1, <2>1, <2>3, Zenon DEF axi
<1>2. CASE Stays /\ UNCHANGED axi
  BY <1>2, Zenon DEF Stays, Same, Fields, axi
<1>3. CASE WritesBeat \/ (IssuesWrite /\ ddr' = ddr)
           \/ ((Gathers \/ KeepsLine) /\ UNCHANGED axi)
  <2>1. e.st \in {"r_aw", "r_beat", "r_mc_wait", "r_w"}
    BY <1>3, Zenon DEF Gathers, KeepsLine, IssuesWrite, WritesBeat
  <2>2. e.st \in ToDdr
    BY <2>1, SMT DEF ToDdr
  <2> QED
    BY <1>3, <2>2, Zenon DEF axi
<1>4. CASE IssuesRead \/ IssuesLast \/ TakesBeat \/ DropsBeat
  <2>1. e'.st \in {"w_r", "abort_r", "w_line", "abort_done"}
    BY <1>4, Zenon DEF IssuesRead, IssuesLast, TakesBeat, DropsBeat
  <2> QED
    BY <2>1, SMT DEF ToDdr
<1>5. CASE KeepsOld \/ NextLine \/ LastLine
  BY <1>5, SMT DEF KeepsOld, NextLine, LastLine, ToDdr
<1> QED
  BY <1>1, <1>2, <1>3, <1>4, <1>5, Zenon DEF Moves

\* What a copy to the DDR keeps of its place at an edge.
LEMMA PlaceOut ==
  ASSUME Moves, ~Begins, e'.st \in ToDdr
  PROVE  /\ Line0' = Line0
         /\ ThisLine' = Line0 + e'.loaded /\ ThisLine = Line0 + e.loaded
         /\ ~KeepsLine => e'.loaded = e.loaded /\ e'.hi = e.hi /\ e'.lo = e.lo
         /\ ~WritesBeat => e'.idx = e.idx
<1>1. e.st \in ToDdr
  BY MovesOut
<1>2. Line0' = Line0
  BY JobKept, SameRequest DEF SameJob
<1>3. ThisLine' = Line0 + e'.loaded /\ ThisLine = Line0 + e.loaded
  <2>1. e.st \notin ToPsram /\ e'.st \notin ToPsram
    BY <1>1, SMT DEF ToPsram, ToDdr
  <2> QED
    BY <1>2, <2>1, Zenon DEF ThisLine
<1>4. ~KeepsLine => e'.loaded = e.loaded /\ e'.hi = e.hi /\ e'.lo = e.lo
  BY MovesOut, Zenon DEF Stays, Turns, Gathers, IssuesWrite, WritesBeat, Same, Fields
<1>5. ~WritesBeat => e'.idx = e.idx
  BY MovesOut, Zenon DEF Stays, Turns, Gathers, IssuesWrite, KeepsLine, Same, Fields
<1> QED
  BY <1>2, <1>3, <1>4, <1>5

\* The two last lines read are held.
LEMMA LinesHeldNext ==
  ASSUME Counted, CarriedOut, Moves, ~Begins, e'.st \in ToDdr
  PROVE  /\ e'.loaded > 0 => e'.hi = Part(was.psram, (Line0 + e'.loaded) - 1)
         /\ e'.loaded > 1 => e'.lo = Part(was.psram, (Line0 + e'.loaded) - 2)
<1>0. e.st \in ToDdr
  BY MovesOut
<1>1. /\ e.loaded > 0 => e.hi = Part(was.psram, (Line0 + e.loaded) - 1)
      /\ e.loaded > 1 => e.lo = Part(was.psram, (Line0 + e.loaded) - 2)
      /\ (e.st = "r_mc_wait" /\ rvalid) => rdata = Part(was.psram, ThisLine)
  BY <1>0 DEF CarriedOut
<1>2. CASE ~KeepsLine
  <2>1. e'.loaded = e.loaded /\ e'.hi = e.hi /\ e'.lo = e.lo
    BY <1>2, PlaceOut
  <2> QED
    BY <1>1, <2>1, Zenon
<1>3. CASE KeepsLine
  <2>1. /\ e'.loaded = e.loaded + 1 /\ e'.hi = rdata /\ e'.lo = e.hi
        /\ rdata = Part(was.psram, ThisLine)
    BY <1>1, <1>3, Zenon DEF KeepsLine
  <2>2. ThisLine = Line0 + e.loaded
    BY PlaceOut
  <2>3. Line0 \in Nat /\ e.loaded \in Nat
    BY <1>0, FactsOut
  <2>4. /\ (Line0 + e'.loaded) - 1 = Line0 + e.loaded
        /\ (Line0 + e'.loaded) - 2 = (Line0 + e.loaded) - 1
        /\ e'.loaded > 1 => e.loaded > 0
    BY <2>1, <2>3
  <2> QED
    BY <1>1, <2>1, <2>2, <2>4, Zenon
<1> QED
  BY <1>2, <1>3

\* The line that arrives is the one awaited, as it was.
LEMMA LineReadNext ==
  ASSUME Counted, Memories, OnlyDestination(e.rq), Ported, CarriedIn, PsramPort, Moves, ~Begins,
         e'.st = "r_mc_wait", rvalid'
  PROVE  rdata' = Part(was.psram, ThisLine')
<1>0. e'.st \in ToDdr
  BY DEF ToDdr
<1>1. /\ port # NoOp /\ port.line = ThisLine
      /\ e.st \in {"r_mc", "r_mc_wait"} /\ Same({"st"})
  BY WaitsFor
<1>2. e.st \in ToDdr
  BY <1>1, SMT DEF ToDdr
<1>3. ThisLine = Line0 + e.loaded /\ ThisLine' = ThisLine
  <2>1. e'.loaded = e.loaded
    BY <1>1, Zenon DEF Same, Fields
  <2> QED
    BY <1>0, <2>1, PlaceOut, Zenon
<1>4. /\ e.rq.rw = FALSE /\ e.idx \in Nat /\ e.left \in Nat /\ e.idx = NB - e.left
      /\ e.loaded \in Nat /\ Line0 \in Nat /\ NL \in Nat \ {0} /\ NB \in Nat \ {0}
      /\ (NL = NB \/ NL = NB + 1) /\ Line0 + NL <= Lines
  BY <1>2, FactsOut
<1>5. ThisLine \in Nat /\ ThisLine < Lines
  <2>1. e.fetch > 0 /\ e.burst > 0 /\ e.left = e.issue + e.burst /\ e.issue \in Nat
        /\ e.burst \in Nat /\ e.fetch \in Nat
    BY <1>1, <1>2, SMT DEF Counted, Shape, CountsOut
  <2>2. e.left > 0
    BY <2>1
  <2>3. e.loaded + e.fetch = LinesFor(e.idx)
    BY <1>2, <2>2 DEF Counted, CountsOut
  <2>4. LinesFor(e.idx) <= NL
    BY <1>4, <2>2 DEF LinesFor
  <2>5. LinesFor(e.idx) \in Nat
    BY <1>4 DEF LinesFor
  <2>6. e.loaded < NL
    BY <1>4, <2>1, <2>3, <2>4, <2>5
  <2> QED
    BY <1>3, <1>4, <2>6, WidthAssumption
<1>6. rdata' = Part(psram, ThisLine)
  <2>1. port # NoOp =>
          /\ rvalid' = (port' = NoOp)
          /\ port' = NoOp => rdata' = Part(psram, port.line)
    BY PortKeeps
  <2> QED
    BY <1>1, <2>1, Zenon
<1> QED
  BY <1>3, <1>4, <1>5, <1>6, SameLine

\* The beat that goes out holds the bytes asked for.
LEMMA BeatHeldNext ==
  ASSUME Counted, CarriedOut, Moves, ~Begins, e'.st = "r_w", NEW k \in Bytes,
         At(e'.idx) + k < e.rq.len
  PROVE  e'.out[k] = was.psram[e.rq.mc + (At(e'.idx) + k)]
<1>0. e'.st \in ToDdr
  BY DEF ToDdr
<1>1. ~KeepsLine /\ ~IssuesWrite /\ ~WritesBeat
  <2>1. ~KeepsLine /\ ~IssuesWrite
    BY DEF KeepsLine, IssuesWrite
  <2>2. ~WritesBeat
    BY SMT DEF WritesBeat
  <2> QED
    BY <2>1, <2>2
<1>2. e'.idx = e.idx /\ e.st \in ToDdr
  BY <1>0, <1>1, PlaceOut, MovesOut
<1>3. CASE Stays
  <2>1. e.st = "r_w" /\ e'.out = e.out
    BY <1>3, Zenon DEF Stays, Same, Fields
  <2> QED
    BY <1>2, <2>1, Zenon DEF CarriedOut
<1>4. CASE Gathers
  <2>1. e.st = "r_beat" /\ e.fetch = 0 /\ e'.out = BeatData
    BY <1>4 DEF Gathers
  <2>2. McByte(k) = was.psram[e.rq.mc + (At(e.idx) + k)]
    BY <1>2, <2>1, McByteRight, Zenon
  <2> QED
    BY <1>2, <2>1, <2>2, Zenon DEF BeatData
<1>5. ~\E st \in ToDdr \ {"r_w"} : Turns(st)
  BY DEF Turns
<1> QED
  BY <1>0, <1>1, <1>3, <1>4, <1>5, MovesOut

\* Beat by beat the bytes come to their place in the DDR.
LEMMA InDdrProgress ==
  ASSUME Counted, Memories, CarriedOut, Moves, ~Begins, e'.st \in ToDdr
  PROVE  InDdr(At(e.idx))'
<1>0. e.st \in ToDdr /\ SameJob
  BY MovesOut, JobKept
<1>1. WillBeInDdr(At(e'.idx))
  <2>1. CASE WritesBeat
    <3>1. e.st = "r_w" /\ e'.idx = e.idx + 1 /\ ddr' = Put(ddr, write.next, e.out)
      BY <2>1 DEF WritesBeat
    <3>2. write.next = e.rq.ddr + e.idx
      BY <1>0, <3>1, SMT DEF Counted, CountsOut
    <3> QED
      BY <3>1, <3>2, BeatPut
  <2>2. CASE ~WritesBeat
    <3>1. e'.idx = e.idx /\ ddr' = ddr
      BY <2>2, PlaceOut, MovesOut, Zenon
    <3>2. InDdr(At(e.idx))
      BY <1>0 DEF CarriedOut
    <3> QED
      BY <3>1, <3>2, InDdrStays, Zenon
  <2> QED
    BY <2>1, <2>2
<1> QED
  BY <1>0, <1>1, Zenon DEF InDdr, WillBeInDdr, SameJob

\* An edge keeps what a copy to the DDR carries.
LEMMA CarriedOutNext ==
  ASSUME Counted, Memories, OnlyDestination(e.rq), Ported, CarriedIn, CarriedOut, PsramPort,
         Moves, ~Begins
  PROVE  CarriedOut'
<1> SUFFICES ASSUME e'.st \in ToDdr PROVE CarriedOut'
  BY Zenon DEF CarriedOut
<1>1. SameJob /\ Line0' = Line0
  BY JobKept, PlaceOut
<1>2. /\ e'.loaded > 0 => e'.hi = Part(was'.psram, (Line0' + e'.loaded) - 1)
      /\ e'.loaded > 1 => e'.lo = Part(was'.psram, (Line0' + e'.loaded) - 2)
  BY <1>1, LinesHeldNext, Zenon DEF SameJob
<1>3. (e'.st = "r_mc_wait" /\ rvalid') => rdata' = Part(was'.psram, ThisLine')
  BY <1>1, LineReadNext, Zenon DEF SameJob
<1>4. e'.st = "r_w" => \A k \in Bytes :
        At(e'.idx) + k < e'.rq.len => e'.out[k] = was'.psram[e'.rq.mc + (At(e'.idx) + k)]
  BY <1>1, BeatHeldNext, Zenon DEF SameJob
<1>5. InDdr(At(e.idx))'
  BY InDdrProgress
<1> QED
  BY <1>2, <1>3, <1>4, <1>5, Zenon DEF CarriedOut

\* The burst of reads that an edge accepts.
LEMMA BurstAccepted ==
  ASSUME Counted, Memories, e.st = "w_ar",
         reads' = reads \o [k \in 1 .. size |-> NextBeat + k - 1]
  PROVE  reads' \in Seq(Int) /\ Len(reads') = Len(reads) + size
<1> DEFINE s == [k \in 1 .. size |-> NextBeat + k - 1]
<1>1. e.st \in ToPsram
  BY DEF ToPsram
<1>2. size \in Nat /\ NextBeat = (e.rq.ddr + NB) - e.issue
  BY Offered
<1>3. e.rq.ddr \in Nat /\ NB \in Nat /\ e.issue \in Nat
  BY <1>1, FactsIn DEF Counted, Shape
<1>4. NextBeat \in Int
  BY <1>2, <1>3
<1>5. s \in Seq(Int) /\ Len(s) = size
  BY <1>2, <1>4
<1> HIDE DEF s
<1>6. reads \in Seq(Int)
  BY DEF Memories
<1>7. reads \o s \in Seq(Int) /\ Len(reads \o s) = Len(reads) + Len(s)
  BY <1>5, <1>6, ConcatProperties, Zenon
<1> QED
  BY <1>5, <1>7 DEF s

\* The PSRAM keeps its size.
LEMMA PortKeepsDomain == ASSUME PsramPort PROVE DOMAIN psram' = DOMAIN psram
<1>1. Admit \/ Busy => psram' = psram
  BY DEF Admit, Busy
<1>2. ASSUME Serve PROVE DOMAIN psram' = DOMAIN psram
  <2>1. psram' = IF port.read THEN psram ELSE Put(psram, port.line, port.data)
    BY <1>2 DEF Serve
  <2> QED
    BY <2>1, Zenon DEF Put
<1> QED
  BY <1>1, <1>2 DEF PsramPort

\* The memories keep their sizes, and AXI delivers beats.
LEMMA MemoriesNext ==
  ASSUME Counted, Memories, valid => cmd \in Requests, Moves, PsramPort
  PROVE  Memories'
<1>1. DOMAIN psram' = DOMAIN psram
  BY PortKeepsDomain
<1>2. DOMAIN ddr' = DOMAIN ddr
  <2>1. CASE WritesBeat
    BY <2>1, Zenon DEF WritesBeat, Put
  <2>2. CASE ~WritesBeat
    BY <2>2, Zenon DEF Moves, axi
  <2> QED
    BY <2>1, <2>2
<1>3. reads' \in Seq(Int)
  <2>1. CASE IssuesRead \/ IssuesLast
    <3>1. e.st = "w_ar" /\ reads' = reads \o [k \in 1 .. size |-> NextBeat + k - 1]
      BY <2>1, Zenon DEF IssuesRead, IssuesLast
    <3> QED
      BY <3>1, BurstAccepted
  <2>2. CASE TakesBeat \/ DropsBeat
    <3>1. reads # <<>> /\ reads' = Tail(reads)
      BY <2>2 DEF TakesBeat, DropsBeat
    <3> QED
      BY <3>1 DEF Memories
  <2>3. CASE ~(IssuesRead \/ IssuesLast \/ TakesBeat \/ DropsBeat)
    <3>1. reads' = reads
      BY <2>3, Zenon DEF Moves, axi
    <3> QED
      BY <3>1 DEF Memories
  <2> QED
    BY <2>1, <2>2, <2>3
<1>4. CASE Begins
  <2>1. e'.rq = cmd /\ was' = [ddr |-> ddr, psram |-> psram, clean |-> reads = <<>> /\ port = NoOp]
        /\ cmd \in Requests /\ UNCHANGED axi
    BY <1>4, Zenon DEF Begins, Moves, IssuesRead, IssuesLast, TakesBeat, DropsBeat, Stays, Turns,
       KeepsOld, NextLine, LastLine, Gathers, KeepsLine, IssuesWrite, WritesBeat
  <2>2. was'.ddr = ddr /\ was'.psram = psram
    BY <2>1
  <2>3. e'.rq.mc \in Nat /\ e'.rq.len \in Nat
    BY <2>1, Requested
  <2> QED
    BY <1>1, <1>2, <1>3, <2>2, <2>3, Zenon DEF Memories
<1>5. CASE ~Begins
  <2>1. was' = was /\ e'.rq = e.rq
    BY <1>5, JobKept DEF SameJob
  <2> QED
    BY <1>1, <1>2, <1>3, <2>1, Zenon DEF Memories
<1> QED
  BY <1>4, <1>5

\* An edge changes nothing but the destination.
LEMMA OnlyDestinationNext ==
  ASSUME Counted, Memories, OnlyDestination(e.rq), Ported, CarriedIn, CarriedOut, PsramPort,
         Moves, ~Begins
  PROVE  OnlyDestination(e.rq)'
<1>1. SameJob
  BY JobKept
<1>2. OneLine
  BY PortKeeps DEF OneLine
<1>3. \A a \in DOMAIN psram' : \/ e'.rq.rw /\ a \in e'.rq.mc .. e'.rq.mc + e'.rq.len - 1
                               \/ psram'[a] = was'.psram[a]
  BY <1>1, <1>2, PsramOnly
<1>4. ASSUME NEW a \in DOMAIN ddr'
      PROVE  \/ ~e.rq.rw /\ a \in e.rq.ddr * W .. (e.rq.ddr + NumBeats(e.rq)) * W - 1
             \/ ddr'[a] = was.ddr[a]
  <2>1. CASE WritesBeat
    <3>1. e.st = "r_w" /\ ddr' = Put(ddr, write.next, e.out)
      BY <2>1 DEF WritesBeat
    <3>2. e.st \in ToDdr
      BY <3>1 DEF ToDdr
    <3>3. write.next = e.rq.ddr + e.idx /\ e.rq.rw = FALSE
      BY <3>1, <3>2, SMT DEF Counted, CountsOut
    <3>4. /\ DOMAIN ddr' = DOMAIN ddr
          /\ \/ a \in e.rq.ddr * W .. (e.rq.ddr + NumBeats(e.rq)) * W - 1
             \/ ddr'[a] = ddr[a]
      BY <1>4, <3>1, <3>3, BeatPut
    <3> QED
      BY <1>4, <3>3, <3>4, Zenon DEF OnlyDestination
  <2>2. CASE ~WritesBeat
    <3>1. ddr' = ddr
      BY <2>2, Zenon DEF Moves, axi
    <3> QED
      BY <1>4, <3>1, Zenon DEF OnlyDestination
  <2> QED
    BY <2>1, <2>2
<1> QED
  BY <1>1, <1>3, <1>4, Zenon DEF OnlyDestination, SameJob, NumBeats

\* While an abort drains, engine and slave count alike.
LEMMA DrainedNext ==
  ASSUME Counted, Memories, CarriedIn, Ends, Moves, ~Begins, e'.st = "abort_r"
  PROVE  Len(reads') = e'.burst
<1>1. e.st \in ToPsram => Len(reads) = e.burst
  BY DEF CarriedIn
<1>2. CASE Stays /\ UNCHANGED axi
  BY <1>2, Zenon DEF Stays, Same, Fields, Ends, axi
<1>3. CASE (\E st : Turns(st)) /\ UNCHANGED axi
  <2>1. PICK st : Turns(st) /\ st = e'.st
    BY <1>3 DEF Turns
  <2>2. e'.burst = e.burst
    BY <2>1, Zenon DEF Turns, Same, Fields
  <2>3. e.st \in ToPsram
    BY <2>1, SMT DEF Turns, ToPsram
  <2> QED
    BY <1>1, <1>3, <2>2, <2>3, Zenon DEF axi
<1>4. CASE IssuesLast
  <2>1. /\ e.st = "w_ar" /\ e'.burst = size
        /\ reads' = reads \o [k \in 1 .. size |-> NextBeat + k - 1]
    BY <1>4 DEF IssuesLast
  <2>2. e.burst = 0 /\ e.st \in ToPsram
    BY <2>1, SMT DEF Counted, CountsIn, ToPsram
  <2>3. size \in Nat /\ Len(reads') = Len(reads) + size
    BY <2>1, Offered, BurstAccepted
  <2> QED
    BY <1>1, <2>1, <2>2, <2>3
<1>5. CASE DropsBeat
  <2>1. /\ e.st \in {"w_r", "abort_r"} /\ e'.burst = e.burst - 1
        /\ reads # <<>> /\ reads' = Tail(reads)
    BY <1>5 DEF DropsBeat
  <2>2. Len(reads) = e.burst
    BY <1>1, <2>1, SMT DEF Ends, ToPsram
  <2>3. Len(Tail(reads)) = Len(reads) - 1
    BY <2>1 DEF Memories
  <2> QED
    BY <2>1, <2>2, <2>3
<1>6. CASE IssuesRead \/ TakesBeat
  BY <1>6 DEF IssuesRead, TakesBeat
<1>7. CASE KeepsOld \/ NextLine \/ LastLine \/ Gathers \/ KeepsLine
  BY <1>7 DEF KeepsOld, NextLine, LastLine, Gathers, KeepsLine
<1>8. CASE IssuesWrite \/ WritesBeat
  BY <1>8, SMT DEF IssuesWrite, WritesBeat
<1> QED
  BY <1>2, <1>3, <1>4, <1>5, <1>6, <1>7, <1>8, Zenon DEF Moves

\* A copy reports done when all of it is in place.
LEMMA FinishedIn ==
  ASSUME Counted, CarriedIn, LastLine
  PROVE  Copied(e.rq)
<1>1. e.st = "w_write_wait" /\ rvalid /\ e.left = 1
  BY DEF LastLine
<1>2. e.st \in ToPsram
  BY <1>1, SMT DEF ToPsram
<1>3. InPsram(At(e.idx + 1) - Off)
  BY <1>1, <1>2 DEF CarriedIn
<1>4. /\ e.rq.rw = TRUE /\ e.idx \in Nat /\ e.idx = NL - e.left /\ NL \in Nat \ {0}
      /\ Off \in 0 .. W - 1 /\ e.rq.len \in Nat /\ Off + e.rq.len <= At(NL)
  BY <1>2, FactsIn
<1>5. e.idx + 1 = NL /\ At(NL) \in Int
  BY <1>1, <1>4, AtInt
<1>6. ASSUME NEW t \in 0 .. e.rq.len - 1
      PROVE  psram[e.rq.mc + t] = was.ddr[e.rq.ddr * W + t]
  <2>1. t < At(e.idx + 1) - Off
    <3>1. t < At(NL) - Off
      BY <1>4, <1>5
    <3> QED
      BY <1>5, <3>1, Zenon
  <2> QED
    BY <1>3, <2>1, Zenon DEF InPsram, At
<1> QED
  BY <1>4, <1>6, Zenon DEF Copied

\* The burst that ends a copy to the DDR ends it whole.
LEMMA FinishedOut ==
  ASSUME Counted, CarriedOut, e.st = "r_b", e.left = 0
  PROVE  Copied(e.rq)
<1>2. e.st \in ToDdr
  BY SMT DEF ToDdr
<1>3. InDdr(At(e.idx))
  BY <1>2 DEF CarriedOut
<1>4. /\ e.rq.rw = FALSE /\ e.idx = NB - e.left /\ NB \in Nat \ {0}
      /\ e.rq.len \in Nat /\ e.rq.len <= At(NB)
  BY <1>2, FactsOut
<1>5. e.idx = NB /\ At(NB) \in Int
  BY <1>4, AtInt
<1>6. ASSUME NEW t \in 0 .. e.rq.len - 1
      PROVE  ddr[e.rq.ddr * W + t] = was.psram[e.rq.mc + t]
  <2>1. t < At(e.idx)
    <3>1. t < At(NB)
      BY <1>4, <1>5
    <3> QED
      BY <1>5, <3>1, Zenon
  <2> QED
    BY <1>3, <2>1, Zenon DEF InDdr, At
<1> QED
  BY <1>4, <1>6, Zenon DEF Copied

\* When the engine is done all of the request is copied.
LEMMA DoneNext ==
  ASSUME Counted, Memories, Ported, CarriedIn, CarriedOut, Ends, PsramPort, Moves, ~Begins,
         e'.st = "done"
  PROVE  Copied(e.rq)'
<1>1. SameJob
  BY JobKept
<1>2. /\ Copied(e.rq) /\ ddr' = ddr
      /\ e.st \in {"done", "r_b"} \/ (e.st = "w_write_wait" /\ rvalid)
  <2>1. CASE Stays /\ UNCHANGED axi
    BY <2>1, Zenon DEF Stays, Same, Fields, Ends, axi
  <2>2. CASE (\E st : Turns(st)) /\ UNCHANGED axi
    <3>1. PICK st : Turns(st) /\ st = e'.st
      BY <2>2 DEF Turns
    <3>2. e.st = "r_b" /\ e.left = 0
      BY <3>1, SMT DEF Turns
    <3> QED
      BY <2>2, <3>2, FinishedOut, Zenon DEF axi
  <2>3. CASE LastLine /\ UNCHANGED axi
    BY <2>3, FinishedIn, Zenon DEF LastLine, axi
  <2>4. CASE IssuesRead \/ IssuesLast \/ TakesBeat \/ DropsBeat
    <3>1. e'.st \in {"w_r", "abort_r", "w_line", "abort_done"}
      BY <2>4, Zenon DEF IssuesRead, IssuesLast, TakesBeat, DropsBeat
    <3> QED
      BY <3>1
  <2>5. CASE KeepsOld \/ NextLine \/ Gathers \/ KeepsLine
    BY <2>5 DEF KeepsOld, NextLine, Gathers, KeepsLine
  <2>6. CASE IssuesWrite \/ WritesBeat
    BY <2>6, SMT DEF IssuesWrite, WritesBeat
  <2> QED
    BY <2>1, <2>2, <2>3, <2>4, <2>5, <2>6, Zenon DEF Moves
<1>3. port = NoOp /\ ~Asking
  <2>1. ~Asking /\ e.st \notin Stopped /\ (Awaiting => rvalid)
    BY <1>2, SMT DEF Asking, Stopped, Awaiting
  <2> QED
    BY <2>1, Zenon DEF Ported, Stopped
<1>4. psram' = psram
  BY <1>3, PortKeeps
<1> QED
  BY <1>1, <1>2, <1>4, Zenon DEF Copied, SameJob

\* The edge at which the engine takes a request, with nothing left of an earlier one.
LEMMA ExactBegin ==
  ASSUME Counted, Memories, Begins, UNCHANGED axi, cmd \in Requests, PsramPort, was'.clean
  PROVE  Exact'
<1> DEFINE n == NumLines(cmd)
           m == NumBeats(cmd)
<1>1. /\ e.st = "idle" /\ e'.st = IF cmd.rw THEN "w_line" ELSE "r_prep"
      /\ e'.rq = cmd /\ e'.idx = 0 /\ e'.loaded = 0 /\ e'.burst = 0 /\ e'.issue = m
      /\ was' = [ddr |-> ddr, psram |-> psram, clean |-> reads = <<>> /\ port = NoOp]
  BY DEF Begins
<1>2. reads' = <<>> /\ port = NoOp /\ was'.ddr = ddr /\ was'.psram = psram /\ ddr' = ddr
  BY <1>1 DEF axi
<1>3. e'.st \in {"w_line", "r_prep"}
  BY <1>1
<1>4. Busy
  <2>1. ~Admit /\ ~Serve
    BY <1>1, <1>2, SMT DEF Admit, Serve
  <2> QED
    BY <2>1 DEF PsramPort
<1>5. psram' = psram /\ port' = NoOp
  BY <1>2, <1>4 DEF Busy
<1>6. /\ cmd.mc \in Nat /\ cmd.len \in Nat /\ n \in Nat /\ m \in Nat /\ cmd.mc % W \in 0 .. W - 1
  BY Requested
<1>7. OnlyDestination(e.rq)'
  BY <1>2, <1>5, Zenon DEF OnlyDestination
<1>8. Ported'
  <2>1. ~Asking' /\ ~Awaiting'
    BY <1>3, SMT DEF Asking, Awaiting
  <2> QED
    BY <1>5, <2>1, Zenon DEF Ported
<1>9. At(0) = 0
  BY Width DEF At
<1>10. CarriedIn'
  <2>1. Fetched' = 0
    <3>1. NB' = m
      BY <1>1, Zenon DEF NB, NumBeats
    <3> HIDE DEF m
    <3> QED
      BY <1>1, <1>6, <3>1 DEF Fetched
  <2>2. Len(reads') = 0
    BY <1>2
  <2>3. Off' \in 0 .. W - 1
    BY <1>1, <1>6, Zenon DEF Off
  <2>4. \A t \in 0 .. e'.rq.len - 1 : ~(t < At(e'.idx) - Off')
    <3> SUFFICES ASSUME NEW t \in 0 .. e'.rq.len - 1 PROVE ~(t < At(e'.idx) - Off')
      OBVIOUS
    <3>1. t \in Nat
      BY <1>1, <1>6
    <3>2. At(e'.idx) = 0
      BY <1>1, <1>9
    <3> DEFINE o == Off'
    <3>3. o \in 0 .. W - 1
      BY <2>3
    <3> HIDE DEF o
    <3>4. ~(t < 0 - o)
      BY <3>1, <3>3, Width
    <3> QED
      BY <3>2, <3>4 DEF o
  <2>5. InPsram(At(e.idx) - Off)'
    BY <2>4, Zenon DEF InPsram
  <2>6. e'.st \notin {"w_rmw_wait", "w_write", "w_write_wait"}
    BY <1>3
  <2>7. \A k \in 1 .. e'.burst : FALSE
    BY <1>1
  <2>8. ~(Fetched' > 0) /\ ~(Fetched' > 1)
    BY <2>1
  <2> QED
    BY <1>1, <2>2, <2>5, <2>6, <2>7, <2>8, SMT DEF CarriedIn
<1>11. CarriedOut'
  <2>1. \A t \in 0 .. e'.rq.len - 1 : ~(t < At(e'.idx))
    <3> SUFFICES ASSUME NEW t \in 0 .. e'.rq.len - 1 PROVE ~(t < At(e'.idx))
      OBVIOUS
    <3>1. t \in Nat
      BY <1>1, <1>6
    <3>2. At(e'.idx) = 0
      BY <1>1, <1>9
    <3> QED
      BY <3>1, <3>2
  <2>2. InDdr(At(e.idx))'
    BY <2>1, Zenon DEF InDdr
  <2>3. e'.st \notin {"r_mc_wait", "r_w"} /\ ~(e'.loaded > 0) /\ ~(e'.loaded > 1)
    BY <1>1, <1>3
  <2> QED
    BY <2>2, <2>3, SMT DEF CarriedOut
<1>12. Ends'
  BY <1>3, SMT DEF Ends
<1> QED
  BY <1>7, <1>8, <1>10, <1>11, <1>12, Zenon DEF Exact

\* A clock edge keeps the memories and the bytes under way right.
LEMMA ExactNext ==
  ASSUME Counted, Memories, Exact, valid => cmd \in Requests, Engine, PsramPort
  PROVE  Memories' /\ Exact'
<1>1. Moves
  BY EngineMoves DEF Counted, Shape
<1>2. Memories'
  BY <1>1, MemoriesNext
<1>3. CASE Begins
  <2>1. UNCHANGED axi /\ cmd \in Requests
    BY <1>1, <1>3, SMT DEF Begins, Moves, IssuesRead, IssuesLast, TakesBeat, DropsBeat,
       IssuesWrite, WritesBeat
  <2> QED
    BY <1>2, <1>3, <2>1, ExactBegin, Zenon DEF Exact
<1>4. CASE ~Begins
  <2>1. was' = was
    BY <1>4, <1>1, JobKept DEF SameJob
  <2> SUFFICES ASSUME was.clean PROVE Exact'
    BY <1>2, <2>1, Zenon DEF Exact
  <2>2. OnlyDestination(e.rq) /\ Ported /\ CarriedIn /\ CarriedOut /\ Ends
    BY DEF Exact
  <2>3. OnlyDestination(e.rq)'
    BY <1>1, <1>4, <2>2, OnlyDestinationNext
  <2>4. Ported'
    BY <1>1, <1>4, <2>2, PortedNext
  <2>5. CarriedIn'
    BY <1>1, <1>4, <2>2, CarriedInNext
  <2>6. CarriedOut'
    BY <1>1, <1>4, <2>2, CarriedOutNext
  <2>7. Ends'
    BY <1>1, <1>4, <2>2, DrainedNext, DoneNext, Zenon DEF Ends
  <2> QED
    BY <2>3, <2>4, <2>5, <2>6, <2>7, Zenon DEF Exact
<1> QED
  BY <1>3, <1>4

-----------------------------------------------------------------------------
(* The engine                                                             *)

\* What holds of the engine, whoever writes its registers.
EngineInv ==
  /\ Counted
  /\ Memories
  /\ Exact
  /\ valid => cmd \in Requests

\* The engine starts with nothing to do.
LEMMA InitEngine == Init => EngineInv
<1> SUFFICES ASSUME Init PROVE EngineInv
  OBVIOUS
<1>1. /\ e.st = "idle" /\ e.rq.mc = 0 /\ e.rq.len = 1 /\ port = NoOp /\ reads = <<>>
      /\ ddr = [a \in 0 .. Beats * W - 1 |-> a]
      /\ psram = [a \in 0 .. Lines * W - 1 |-> 0 - 1 - a]
      /\ was = [ddr |-> ddr, psram |-> psram, clean |-> TRUE] /\ valid = FALSE
  BY SMT DEF Init, EngineInit, CommandInit
<1>2. was.ddr = ddr /\ was.psram = psram
  BY <1>1
<1>3. DOMAIN ddr = 0 .. At(Beats) - 1 /\ DOMAIN psram = 0 .. At(Lines) - 1
  BY <1>1, Zenon DEF At
<1>4. Memories
  BY <1>1, <1>2, <1>3, SMT DEF Memories
<1>5. OnlyDestination(e.rq)
  BY <1>2, Zenon DEF OnlyDestination
<1>6. Ported /\ CarriedIn /\ CarriedOut /\ Ends
  BY <1>1, SMT DEF Ported, CarriedIn, CarriedOut, Ends, Asking, Awaiting, ToPsram, ToDdr
<1> QED
  BY <1>1, <1>4, <1>5, <1>6, CountedInit, Zenon DEF EngineInv, Exact

\* A clock edge keeps the engine's invariant if the request given is a legal one.
LEMMA EngineStep ==
  ASSUME EngineInv, Engine, PsramPort, valid' => cmd' \in Requests
  PROVE  EngineInv'
BY CountedNext, ExactNext, Zenon DEF EngineInv

\* Only a request of the processor's changes the registers of the command.
LEMMA CommandKept ==
  ASSUME NEW w, Command(w), \/ w = NoWrite \/ w = AbortWrite
  PROVE  /\ cmd' = cmd /\ (valid' => valid)
         /\ complete' <=> (complete \/ e.st = "done")
         /\ (~busy \/ e.st = "done") => ~busy'
<1>1. w.op # "go"
  BY DEF NoWrite, AbortWrite
<1>2. e.st = "done" => ~(e.st \notin {"done", "abort_done"})
  OBVIOUS
<1> QED
  BY <1>1, <1>2, Zenon DEF Command

\* A request given sets the registers of the command.
LEMMA CommandGiven ==
  ASSUME NEW q, Command(Go(q))
  PROVE  cmd' = q /\ valid' /\ busy' /\ ~complete'
BY Zenon DEF Command, Go

\* An edge that changes nothing keeps the invariant.
LEMMA EngineStays ==
  ASSUME EngineInv, UNCHANGED evars
  PROVE  EngineInv'
<1>1. /\ e' = e /\ valid' = valid /\ cmd' = cmd /\ size' = size /\ port' = port /\ ready' = ready
      /\ rvalid' = rvalid /\ rdata' = rdata /\ psram' = psram /\ reads' = reads
      /\ write' = write /\ ddr' = ddr /\ was' = was
  BY DEF evars, command, memport, axi
<1>2. Counted'
  BY <1>1, Zenon DEF EngineInv, Counted, Shape, CountsIn, CountsOut, Settled, Fetched, BeatsFor,
     LinesFor, NL, NB, Off, NumLines, NumBeats, LastBytes, BurstCap, NextBeat, Min2
<1>3. Memories'
  BY <1>1, Zenon DEF EngineInv, Memories
<1>4. OnlyDestination(e.rq)' = OnlyDestination(e.rq) /\ Ends' = Ends
  BY <1>1, Zenon DEF OnlyDestination, Ends, Copied, NumBeats
<1>5. Ported' = Ported
  BY <1>1, Zenon DEF Ported, Asking, Awaiting, ThisLine, Right, Dest, Line0
<1>6. CarriedIn' = CarriedIn
  BY <1>1, Zenon DEF CarriedIn, Fetched, NB, NumBeats, Around, ThisLine, Dest, Line0, InPsram, Off
<1>7. CarriedOut' = CarriedOut
  BY <1>1, Zenon DEF CarriedOut, ThisLine, Line0, InDdr
<1> QED
  BY <1>1, <1>2, <1>3, <1>4, <1>5, <1>6, <1>7, Zenon DEF EngineInv, Exact

\* Every step of the free processor keeps the invariant.
LEMMA EngineNext == EngineInv /\ [Next]_evars => EngineInv'
<1> SUFFICES ASSUME EngineInv, [Next]_evars PROVE EngineInv'
  OBVIOUS
<1>1. CASE UNCHANGED evars
  BY <1>1, EngineStays
<1>2. CASE Edge(NoWrite) \/ Edge(AbortWrite)
  <2>1. valid' => cmd' \in Requests
    BY <1>2, CommandKept, Zenon DEF Edge, EngineInv
  <2> QED
    BY <1>2, <2>1, EngineStep, Zenon DEF Edge
<1>3. ASSUME NEW q \in Requests, Edge(Go(q)) PROVE EngineInv'
  <2>1. cmd' \in Requests
    BY <1>3, CommandGiven DEF Edge
  <2> QED
    BY <1>3, <2>1, EngineStep, Zenon DEF Edge
<1> QED
  BY <1>1, <1>2, <1>3, Zenon DEF Next

\* Where the counters are right the bursts are legal.
LEMMA BurstsFit == EngineInv => BurstLegal
<1> SUFFICES ASSUME EngineInv PROVE BurstLegal
  OBVIOUS
<1>0. Counted /\ Exact
  BY DEF EngineInv
<1>1. ASSUME e.st \in {"w_ar", "r_aw"}
      PROVE  /\ size = BurstCap /\ size \in 1 .. Min2(MaxBurst, e.issue)
             /\ NextBeat \div PageBeats = (NextBeat + size - 1) \div PageBeats
  BY <1>0, <1>1, Offered
<1>2. ASSUME e.st \in {"r_w", "r_b"}
      PROVE  /\ e.st = "r_w" => /\ write.left = e.burst /\ write.left > 0
                                /\ write.next = e.rq.ddr + e.idx
             /\ e.st = "r_b" => write.left = 0
  BY <1>0, <1>2, SMT DEF Counted, CountsOut, ToDdr
<1>3. ASSUME e.st \in {"w_r", "abort_r"}, was.clean
      PROVE  Len(reads) = e.burst /\ e.burst > 0
  <2>1. CASE e.st = "w_r"
    <3>1. e.st \in ToPsram
      BY <2>1 DEF ToPsram
    <3> QED
      BY <1>0, <1>3, <2>1, <3>1 DEF Counted, CountsIn, Exact, CarriedIn
  <2>2. CASE e.st = "abort_r"
    BY <1>0, <1>3, <2>2 DEF Counted, Shape, Exact, Ends
  <2> QED
    BY <1>3, <2>1, <2>2
<1> QED
  BY <1>1, <1>2, <1>3 DEF BurstLegal

\* Where the bytes are right the copy is exact.
LEMMA CopiesExactly == EngineInv => CopyExact
BY DEF EngineInv, Exact, Ends, CopyExact

\* The engine's invariant holds whoever writes the registers.
THEOREM EngineInvariance == Spec => []EngineInv
  BY InitEngine, EngineNext, PTL DEF Spec

-----------------------------------------------------------------------------
(* The driver over the engine *)

\* What the flags say once a command has ended, and whose command it was.
Reported ==
  complete => /\ ~valid /\ ~busy /\ e.st \in Resting /\ cmd = e.rq
              /\ was.clean => port = NoOp /\ Copied(e.rq)

Called ==
  /\ pc # "idle" => wanted \in Requests
  /\ pc = "poll" => cmd = wanted
  /\ result = "ok" => pc = "idle" /\ complete /\ cmd = wanted
  /\ e.st \notin Resting => cmd = e.rq
  /\ why # "ok"

CallInv == IInv /\ EngineInv /\ Reported /\ Called

\* At the start no call has been made.
LEMMA InitCall == PsInit => CallInv
<1> SUFFICES ASSUME PsInit PROVE CallInv
  OBVIOUS
<1>1. IInv /\ EngineInv
  BY InitInv, InitEngine DEF PsInit
<1>2. complete = FALSE /\ pc = "idle" /\ result = "none" /\ why = "none"
  BY DEF PsInit, Init, CommandInit, DriverInit
<1>3. e.st = "idle"
  BY SMT DEF PsInit, Init, EngineInit
<1> QED
  BY <1>1, <1>2, <1>3, SMT DEF CallInv, Reported, Called, Resting

\* An engine at rest or at its end with no command waiting changes nothing of what
\* it has copied.
LEMMA RestKeeps ==
  ASSUME IInv, EngineInv, Engine, PsramPort, ~valid, e.st \in Resting \cup {"done"}
  PROVE  /\ e'.st \in Resting /\ e'.rq = e.rq /\ was' = was
         /\ (was.clean /\ port = NoOp /\ Copied(e.rq)) => port' = NoOp /\ Copied(e.rq)'
<1>1. e'.st \in Resting
  BY Rest, SMT DEF IInv, Resting, Owning
<1>2. Moves /\ ~Begins
  BY EngineMoves DEF EngineInv, Counted, Shape, Begins
<1>3. SameJob
  BY <1>2, JobKept
<1>4. ddr' = ddr
  <2>1. ~WritesBeat
    BY SMT DEF WritesBeat, Resting
  <2> QED
    BY <1>2, <2>1, Zenon DEF Moves, axi
<1>5. ASSUME was.clean, port = NoOp PROVE port' = NoOp /\ psram' = psram
  <2>1. ~Asking
    BY SMT DEF Asking, Resting
  <2> QED
    BY <1>5, <2>1, PortKeeps, Zenon DEF EngineInv, Exact
<1> QED
  BY <1>1, <1>3, <1>4, <1>5, Zenon DEF SameJob, Copied

\* A step at which no request is given.
LEMMA QuietEdge ==
  ASSUME IInv, EngineInv, Reported, Called, Engine, PsramPort,
         NEW w, w = NoWrite \/ w = AbortWrite, Command(w)
  PROVE  /\ EngineInv' /\ Reported'
         /\ cmd' = cmd /\ (complete => complete') /\ (e'.st \notin Resting => cmd' = e'.rq)
<1>1. /\ cmd' = cmd /\ (valid' => valid)
      /\ complete' <=> (complete \/ e.st = "done")
  BY CommandKept
<1>2. EngineInv'
  BY <1>1, EngineStep, Zenon DEF EngineInv
<1>3. e'.st \notin Resting => cmd' = e'.rq
  <2>1. CASE Begins
    BY <1>1, <2>1 DEF Begins
  <2>2. CASE ~Begins
    <3>1. e'.rq = e.rq
      BY <2>2, EngineMoves, JobKept DEF EngineInv, Counted, Shape, SameJob
    <3>2. CASE e.st \notin Resting
      BY <1>1, <3>1, <3>2 DEF Called
    <3>3. CASE e.st \in Resting /\ valid
      <4>1. e.st = "idle" /\ ~abort
        BY <3>3 DEF IInv, Waiting
      <4>2. Begins
        <5>1. ~AbortNow
          BY <4>1 DEF AbortNow
        <5>2. Accept
          <6>1. ~Copy /\ ~Drain
            BY <4>1, CopyKeeps, SMT DEF IInv, Drain, Resting
          <6> QED
            BY <5>1, <6>1 DEF Engine
        <5> QED
          BY <3>3, <4>1, <5>2, Zenon DEF Accept, Begins, EngineInv, Counted, Shape, Fields
      <4> QED
        BY <2>2, <4>2
    <3>4. CASE e.st \in Resting /\ ~valid
      BY <3>4, RestKeeps, Zenon
    <3> QED
      BY <3>2, <3>3, <3>4
  <2> QED
    BY <2>1, <2>2
<1>4. Reported'
  <2> SUFFICES ASSUME complete' PROVE Reported'
    BY DEF Reported
  <2>1. ~valid /\ e.st \in Resting \cup {"done"} /\ cmd = e.rq
    BY <1>1, SMT DEF Reported, IInv, Working, Called, Resting
  <2>2. was.clean => port = NoOp /\ Copied(e.rq)
    <3>1. CASE complete
      BY <3>1 DEF Reported
    <3>2. CASE e.st = "done"
      <4> SUFFICES ASSUME was.clean PROVE port = NoOp /\ Copied(e.rq)
        OBVIOUS
      <4>1. Ported /\ Ends
        BY DEF EngineInv, Exact
      <4> QED
        BY <3>2, <4>1, SMT DEF Ported, Ends, Asking, Awaiting
    <3> QED
      BY <1>1, <3>1, <3>2
  <2>3. /\ e'.st \in Resting /\ e'.rq = e.rq /\ was' = was
        /\ (was.clean /\ port = NoOp /\ Copied(e.rq)) => port' = NoOp /\ Copied(e.rq)'
    BY <2>1, RestKeeps, Zenon
  <2>4. ~busy'
    <3>1. ~busy \/ e.st = "done"
      BY <1>1 DEF Reported
    <3> QED
      BY <3>1, CommandKept
  <2> QED
    BY <1>1, <2>1, <2>2, <2>3, <2>4, Zenon DEF Reported
<1> QED
  BY <1>1, <1>2, <1>3, <1>4

\* Every step of the driver over the engine keeps the call's invariant.
LEMMA NextCall == CallInv /\ [PsNext]_vars => CallInv'
<1> SUFFICES ASSUME CallInv, [PsNext]_vars PROVE CallInv'
  OBVIOUS
<1>0. IInv' /\ IInv /\ EngineInv /\ Reported /\ Called
  BY NextInv DEF CallInv
<1>1. CASE UNCHANGED vars
  <2>1. UNCHANGED evars /\ UNCHANGED dvars
    BY <1>1 DEF vars
  <2>2. /\ e' = e /\ valid' = valid /\ busy' = busy /\ complete' = complete /\ cmd' = cmd
        /\ was' = was /\ port' = port /\ ddr' = ddr /\ psram' = psram
        /\ pc' = pc /\ result' = result /\ wanted' = wanted /\ why' = why
    BY <2>1 DEF evars, command, memport, axi, dvars
  <2>3. Copied(e.rq)' = Copied(e.rq)
    BY <2>2, Zenon DEF Copied
  <2>4. Reported' /\ Called'
    BY <1>0, <2>2, <2>3, Zenon DEF Reported, Called
  <2> QED
    BY <1>0, <2>1, <2>4, EngineStays DEF CallInv
<1>2. CASE Step
  <2>1. /\ EngineInv' /\ Reported'
        /\ cmd' = cmd /\ (complete => complete') /\ (e'.st \notin Resting => cmd' = e'.rq)
    BY <1>0, <1>2, QuietEdge, Zenon DEF Step, Edge
  <2>2. CASE UNCHANGED dvars
    BY <1>0, <2>1, <2>2, Zenon DEF CallInv, Called, dvars
  <2>3. CASE Driver
    <3>1. pc' # "idle" => wanted' \in Requests
      <4>1. CASE \E q \in Accepted : Claim(q)
        BY <4>1, <1>0, Zenon DEF Claim, Accepted, Called
      <4>2. CASE CheckBusy \/ Poll \/ AwaitDrain \/ Reserve \/ Release
        BY <4>2, <1>0, SMT DEF CheckBusy, Poll, AwaitDrain, Reserve, Release, Return, AbortFor,
           dvars, Called
      <4> QED
        BY <2>3, <4>1, <4>2 DEF Driver
    <3>2. pc' = "poll" => cmd' = wanted'
      BY <1>0, <2>1, <2>3, SMT DEF Driver, Claim, CheckBusy, Poll, AwaitDrain, Reserve, Release,
         Return, AbortFor, dvars, Called
    <3>3. result' = "ok" => pc' = "idle" /\ complete' /\ cmd' = wanted'
      <4>1. CASE \E q \in Accepted : Claim(q)
        BY <4>1, SMT DEF Claim
      <4>2. CASE Poll
        BY <1>0, <2>1, <4>2, SMT DEF Poll, Return, AbortFor, dvars, Called
      <4>3. CASE CheckBusy \/ AwaitDrain \/ Reserve \/ Release
        BY <1>0, <2>1, <4>3, SMT DEF CheckBusy, AwaitDrain, Reserve, Release, Return, AbortFor,
           dvars, Called
      <4> QED
        BY <2>3, <4>1, <4>2, <4>3 DEF Driver
    <3>4. why' # "ok"
      BY <1>0, <2>3, SMT DEF Driver, Claim, CheckBusy, Poll, AwaitDrain, Reserve, Release,
         Return, AbortFor, dvars, Called
    <3> QED
      BY <1>0, <2>1, <3>1, <3>2, <3>3, <3>4, Zenon DEF CallInv, Called
  <2> QED
    BY <1>2, <2>2, <2>3 DEF Step
<1>3. CASE KickEdge
  <2>1. Engine /\ PsramPort /\ Command(Go(wanted)) /\ Kick
    BY <1>3 DEF KickEdge, Edge
  <2>2. cmd' = wanted /\ valid' /\ busy' /\ ~complete'
    BY <2>1, CommandGiven
  <2>3. pc = "go" /\ pc' = "poll" /\ wanted' = wanted /\ result' = result /\ wanted \in Requests
        /\ why' = why
    BY <1>0, <2>1 DEF Kick, Called
  <2>4. EngineInv'
    BY <1>0, <2>1, <2>2, <2>3, EngineStep
  <2>5. e'.st \in Resting
    <3>1. ~valid /\ e.st \in Resting
      BY <1>0, <2>3 DEF IInv, Starting, Waiting, Working
    <3> QED
      BY <1>0, <2>1, <3>1, RestKeeps, Zenon
  <2>6. result # "ok"
    BY <1>0, <2>3 DEF Called
  <2> QED
    BY <1>0, <2>2, <2>3, <2>4, <2>5, <2>6, SMT DEF CallInv, Reported, Called
<1>4. CASE AbortEdge
  <2>1. /\ EngineInv' /\ Reported'
        /\ cmd' = cmd /\ (complete => complete') /\ (e'.st \notin Resting => cmd' = e'.rq)
    BY <1>0, <1>4, QuietEdge, Zenon DEF AbortEdge, Edge
  <2>2. pc = "abort" /\ pc' = "drain" /\ wanted' = wanted /\ result' = result /\ why' = why
    BY <1>4 DEF AbortEdge, AskAbort
  <2> QED
    BY <1>0, <2>1, <2>2, SMT DEF CallInv, Called
<1> QED
  BY <1>1, <1>2, <1>3, <1>4 DEF PsNext

\* The driver over the engine keeps the invariant of both.
THEOREM CallInvariance == PsSpec => []CallInv
  BY InitCall, NextCall, PTL DEF PsSpec

\* Every burst the engine offers to AXI is legal, whoever writes the registers:
\* apple_dma_engine.sv offers a settled size that stays in its page, and counts the
\* beats of a burst as the slave does, through aborts too.
THEOREM BurstsLegal == (Spec => []BurstLegal) /\ (PsSpec => []BurstLegal)
<1>1. Spec => []BurstLegal
  BY EngineInvariance, BurstsFit, PTL
<1>2. CallInv => BurstLegal
  BY BurstsFit DEF CallInv
<1>3. PsSpec => []BurstLegal
  BY <1>2, CallInvariance, PTL
<1> QED
  BY <1>1, <1>3

\* Nothing but the destination is ever changed, and at the end all of it has been,
\* for every offset, length and direction and however AXI and the PSRAM port delay.
THEOREM CopiesExact == (Spec => []CopyExact) /\ (PsSpec => []CopyExact)
<1>1. Spec => []CopyExact
  BY EngineInvariance, CopiesExactly, PTL
<1>2. CallInv => CopyExact
  BY CopiesExactly DEF CallInv
<1>3. PsSpec => []CopyExact
  BY <1>2, CallInvariance, PTL
<1> QED
  BY <1>1, <1>3

\* psdma_transfer_checked returns PSDMA_OK only for a copy that has been made: the
\* COMPLETE it reads is its own command's, and what that command copied still stands.
THEOREM OkTruthful == PsSpec => []OkMeansCopied
<1>1. CallInv => OkMeansCopied
  BY Zenon DEF CallInv, Reported, Called, OkMeansCopied
<1> QED
  BY <1>1, CallInvariance, PTL
==============================================================================
