-------------------------- MODULE PsramProofs --------------------------
(***************************************************************************)
(* Proofs about the two sides of the PSRAM.                                *)
(* PsramQueue, for every memory, every depth of the queue and every use of *)
(* the ports.  An address that is queued is answered from the queue, so    *)
(* the chip may lag behind; a line that waits to be written holds the      *)
(* chip's byte wherever the queue holds nothing and the oldest entry's     *)
(* byte wherever the queue holds only that; so when it is written and the  *)
(* oldest entry leaves, no content changes.                                *)
(* PsramTiming, for every length of a cycle beyond its data and every      *)
(* depth.  Each state of the arbiter has a number of clocks left until the *)
(* chip is free; every clock takes at least one away, and what may still   *)
(* start is small enough for the clocks of the cycle that remain.          *)
(***************************************************************************)
EXTENDS MCPsram, WellFoundedInduction, TLAPS

USE QueueAssumption

\* The drive of the Apple's bus belongs to the read of this cycle.
DriveInv ==
    /\ phase = "data" => pending = None /\ read = None
    /\ read = None <=> drive.mode = "off"
    /\ st = "serve" => serve # None
    /\ drive.mode = "wait" => st = "serve" /\ ~fwd
    /\ st = "serve" /\ ~fwd => drive.mode \in {"off", "wait"}

PortInv ==
    /\ \A p \in Port : port[p].st = "busy" <=> st = p
    /\ \A p \in Port : port[p].st \in {"asked", "busy"} => port[p].op \in Op
    /\ st \in Port \cup {"issue", "wait"} => ~park

\* The entries to patch in were queued for the oldest entry's line.
ReadInv ==
    st = "read" =>
        /\ ~park
        /\ wq # <<>>
        /\ rmw \in RmwRecord
        /\ rmw.line = wq[1].line
        /\ rmw.hit \subseteq DOMAIN wq
        /\ 1 \in rmw.hit
        /\ \A j \in rmw.hit : wq[j].line = rmw.line

At(l, k) == [line |-> l, lane |-> k]

\* The patched line can be written without a content changing.
LineReady ==
    /\ wq # <<>>
    /\ rmw \in RmwRecord
    /\ rmw.data \in [Lane -> Byte]
    /\ rmw.line = wq[1].line
    /\ \A k \in Lane :
          /\ Holding(wq, At(rmw.line, k)) = {} => rmw.data[k] = mem[rmw.line][k]
          /\ Holding(wq, At(rmw.line, k)) = {1} => rmw.data[k] = wq[1].data

PatchInv == (park \/ st \in {"issue", "wait"}) => LineReady

IInv == TypeOK /\ DriveInv /\ PortInv /\ ReadInv /\ PatchInv

-----------------------------------------------------------------------------
(* The newest and the highest entry exist and are unique.                  *)

\* A set of naturals below a bound has a greatest member.
LEMMA GreatestExists ==
  ASSUME NEW n \in Nat, NEW S, S \subseteq 0 .. n, S # {}
  PROVE  \E m \in S : \A i \in S : i <= m
<1> DEFINE T == {n - i : i \in S}
<1>1. T \subseteq Nat /\ T # {}
  OBVIOUS
<1>2. PICK x \in T : \A y \in T : ~(<<y, x>> \in OpToRel(<, Nat))
  <2> HIDE DEF T
  <2> QED BY <1>1, NatLessThanWellFounded, WFMin, Zenon
<1>3. \A y \in T : ~(y < x)
  BY <1>1, <1>2 DEF OpToRel
<1>4. PICK m \in S : x = n - m
  OBVIOUS
<1>5. \A i \in S : i <= m
  <2> TAKE i \in S
  <2>1. n - i \in T
    OBVIOUS
  <2>2. ~(n - i < n - m)
    BY <2>1, <1>3, <1>4
  <2> QED BY <2>2
<1> QED BY <1>5

\* The newest of several entries for an address.
LEMMA NewestExists ==
  ASSUME NEW q \in Seq(Entry), NEW a, Holding(q, a) # {}
  PROVE  \E j \in Holding(q, a) : IsNewest(q, a, j)
<1>1. Len(q) \in Nat /\ Holding(q, a) \subseteq 0 .. Len(q)
  BY DEF Holding
<1>2. \E m \in Holding(q, a) : \A i \in Holding(q, a) : i <= m
  BY <1>1, GreatestExists
<1> QED BY <1>2 DEF IsNewest

LEMMA NewestIs ==
  ASSUME NEW q \in Seq(Entry), NEW a, NEW j, IsNewest(q, a, j)
  PROVE  Newest(q, a) = q[j].data
<1>1. \A i : IsNewest(q, a, i) => i = j
  BY DEF IsNewest, Holding
<1>2. (CHOOSE i \in Holding(q, a) : IsNewest(q, a, i)) = j
  <2>1. j \in Holding(q, a)
    BY DEF IsNewest
  <2> QED BY <1>1, <2>1
<1> QED BY <1>2 DEF Newest

\* What is queued for an address is a byte.
LEMMA NewestByte ==
  ASSUME NEW q \in Seq(Entry), NEW a, Holding(q, a) # {}
  PROVE  Newest(q, a) \in Byte
<1>1. PICK j \in Holding(q, a) : IsNewest(q, a, j)
  BY NewestExists
<1>2. q[j] \in Entry
  BY DEF Holding
<1> QED BY <1>1, <1>2, NewestIs DEF Entry

\* An entry that joins the queue is the newest for its address, and alone there.
LEMMA NewestAppend ==
  ASSUME NEW q \in Seq(Entry), NEW e \in Entry, NEW a \in Addr
  PROVE  /\ (e.line = a.line /\ e.lane = a.lane) =>
              /\ Holding(Append(q, e), a) = Holding(q, a) \cup {Len(q) + 1}
              /\ Newest(Append(q, e), a) = e.data
         /\ ~(e.line = a.line /\ e.lane = a.lane) =>
              /\ Holding(Append(q, e), a) = Holding(q, a)
              /\ Holding(q, a) # {} => Newest(Append(q, e), a) = Newest(q, a)
<1> DEFINE r == Append(q, e)
<1>1. /\ r \in Seq(Entry) /\ Len(r) = Len(q) + 1 /\ r[Len(q) + 1] = e
      /\ \A i \in 1 .. Len(q) : r[i] = q[i]
      /\ DOMAIN r = 1 .. Len(q) + 1 /\ DOMAIN q = 1 .. Len(q) /\ Len(q) \in Nat
  OBVIOUS
<1> HIDE DEF r
<1>2. CASE e.line = a.line /\ e.lane = a.lane
  <2>1. Holding(r, a) = Holding(q, a) \cup {Len(q) + 1}
    BY <1>1, <1>2 DEF Holding
  <2>2. IsNewest(r, a, Len(q) + 1)
    BY <1>1, <2>1 DEF IsNewest, Holding
  <2>3. Newest(r, a) = e.data
    BY <2>2, <1>1, NewestIs
  <2> QED BY <1>2, <2>1, <2>3 DEF r
<1>3. CASE ~(e.line = a.line /\ e.lane = a.lane)
  <2>1. Holding(r, a) = Holding(q, a)
    BY <1>1, <1>3 DEF Holding
  <2>2. ASSUME Holding(q, a) # {}  PROVE Newest(r, a) = Newest(q, a)
    <3>1. PICK j \in Holding(q, a) : IsNewest(q, a, j)
      BY <2>2, NewestExists
    <3>2. IsNewest(r, a, j)
      BY <2>1, <3>1 DEF IsNewest
    <3>3. r[j] = q[j]
      BY <1>1 DEF Holding
    <3> QED BY <1>1, <3>1, <3>2, <3>3, NewestIs
  <2> QED BY <1>3, <2>1, <2>2 DEF r
<1> QED BY <1>2, <1>3

\* The oldest entry leaves: nothing changes for an address with a newer entry.
LEMMA NewestTail ==
  ASSUME NEW q \in Seq(Entry), q # <<>>, NEW a \in Addr
  PROVE  /\ Holding(Tail(q), a) = {j - 1 : j \in Holding(q, a) \ {1}}
         /\ Holding(q, a) \ {1} # {} => Newest(Tail(q), a) = Newest(q, a)
<1> DEFINE r == Tail(q)
<1>1. /\ r \in Seq(Entry) /\ Len(r) = Len(q) - 1 /\ Len(q) \in Nat /\ Len(q) > 0
      /\ \A i \in 1 .. Len(q) - 1 : r[i] = q[i + 1]
      /\ DOMAIN r = 1 .. Len(q) - 1 /\ DOMAIN q = 1 .. Len(q)
  OBVIOUS
<1> HIDE DEF r
<1>2. \A i : i \in Holding(r, a) <=> (i \in 1 .. Len(q) - 1 /\ i + 1 \in Holding(q, a))
  BY <1>1 DEF Holding
<1>3. Holding(r, a) = {j - 1 : j \in Holding(q, a) \ {1}}
  <2>1. \A i \in Holding(r, a) : i + 1 \in Holding(q, a) \ {1} /\ i = (i + 1) - 1
    BY <1>2
  <2>2. \A j \in Holding(q, a) \ {1} : j - 1 \in Holding(r, a)
    BY <1>1, <1>2 DEF Holding
  <2> QED BY <2>1, <2>2
<1>4. ASSUME Holding(q, a) \ {1} # {}  PROVE Newest(r, a) = Newest(q, a)
  <2>1. PICK j \in Holding(q, a) : IsNewest(q, a, j)
    BY <1>4, NewestExists
  <2>2. j # 1 /\ j \in 1 .. Len(q)
    BY <1>1, <1>4, <2>1 DEF IsNewest, Holding
  <2>3. j - 1 \in Holding(r, a) /\ \A i \in Holding(r, a) : i <= j - 1
    <3>1. j - 1 \in Holding(r, a)
      BY <1>1, <1>2, <2>1, <2>2
    <3>2. \A i \in Holding(r, a) : i \in Nat /\ i + 1 \in Holding(q, a)
      BY <1>2
    <3> QED BY <2>1, <2>2, <3>1, <3>2 DEF IsNewest
  <2>4. r[j - 1] = q[j]
    BY <1>1, <2>2
  <2>5. IsNewest(r, a, j - 1)
    BY <2>3 DEF IsNewest
  <2> QED BY <1>1, <2>1, <2>4, <2>5, NewestIs
<1> QED BY <1>3, <1>4 DEF r

-----------------------------------------------------------------------------
(* The invariant is inductive. *)

\* The line with the queue's bytes in place of the chip's is again a line.
LEMMA PatchedIs ==
  ASSUME TypeOK, ReadInv, st = "read"
  PROVE  /\ Patched(mem[rmw.line]) \in [Lane -> Byte]
         /\ \A k \in Lane : Patching(k) = {} => Patched(mem[rmw.line])[k] = mem[rmw.line][k]
         /\ \A k \in Lane : Patching(k) = {1} => Patched(mem[rmw.line])[k] = wq[1].data
<1>1. /\ mem[rmw.line] \in [Lane -> Byte] /\ wq \in Seq(Entry) /\ Len(wq) \in Nat
      /\ DOMAIN wq = 1 .. Len(wq) /\ rmw.hit \subseteq DOMAIN wq
  BY DEF TypeOK, ReadInv, RmwRecord
<1>2. \A j \in DOMAIN wq : Slot(j) \in 0 .. Depth
  BY <1>1 DEF Slot, TypeOK
<1>3. ASSUME NEW k \in Lane, Patching(k) # {}
      PROVE  \E j \in Patching(k) : IsHighest(k, j)
  <2> DEFINE S == {Slot(j) : j \in Patching(k)}
  <2>1. S \subseteq 0 .. Depth /\ S # {}
    BY <1>1, <1>2, <1>3 DEF Patching
  <2>2. PICK m \in S : \A i \in S : i <= m
    BY <2>1, GreatestExists
  <2> QED BY <2>2 DEF IsHighest
<1>4. ASSUME NEW k \in Lane, Patching(k) # {}
      PROVE  wq[CHOOSE j \in Patching(k) : IsHighest(k, j)].data \in Byte
  <2>1. (CHOOSE j \in Patching(k) : IsHighest(k, j)) \in Patching(k)
    BY <1>3, <1>4
  <2>2. \A j \in Patching(k) : wq[j] \in Entry
    BY <1>1 DEF Patching
  <2> QED BY <2>1, <2>2 DEF Entry
<1>5. Patched(mem[rmw.line]) \in [Lane -> Byte]
  BY <1>1, <1>4 DEF Patched
<1>6. ASSUME NEW k \in Lane, Patching(k) = {1}
      PROVE  Patched(mem[rmw.line])[k] = wq[1].data
  <2>1. (CHOOSE j \in Patching(k) : IsHighest(k, j)) = 1
    BY <1>3, <1>6
  <2> QED BY <2>1, <1>6 DEF Patched
<1> QED BY <1>5, <1>6 DEF Patched

LEMMA TypeInit == Init => TypeOK
<1> SUFFICES ASSUME Init  PROVE TypeOK
  OBVIOUS
<1>1. wq \in Seq(Entry) /\ Len(wq) <= Depth /\ rdPtr \in 0 .. Depth - 1
  BY DEF Init
<1>2. drive \in [mode : {"off", "wait", "ready", "miss"}, val : Byte \cup {None}]
  BY DEF Init, Off
<1>3. port \in [Port -> PortRecord]
  BY DEF Init, Idle, PortRecord
<1> QED BY <1>1, <1>2, <1>3 DEF Init, TypeOK

\* Every step keeps the types.
LEMMA TypeStep == IInv /\ [Next]_vars => TypeOK'
<1> SUFFICES ASSUME IInv, [Next]_vars  PROVE TypeOK'
  OBVIOUS
<1>0. TypeOK
  BY DEF IInv
<1>1. CASE Bus
  <2>1. CASE NoService
    BY <1>0, <2>1 DEF NoService, TypeOK, queueVars, rmwVars, serveVars, ownVars
  <2>2. ASSUME NEW a \in BusAddr, WriteStart(a)  PROVE TypeOK'
    BY <1>0, <2>2 DEF WriteStart, TypeOK, rmwVars, serveVars, ownVars
  <2>3. ASSUME NEW a \in BusAddr, ServeForwarded(a)  PROVE TypeOK'
    <3>1. drive' \in [mode : {"off", "wait", "ready", "miss"}, val : Byte \cup {None}]
      BY <1>0, <2>3, NewestByte DEF ServeForwarded, TypeOK, Ready
    <3> QED BY <1>0, <2>3, <3>1
            DEF ServeForwarded, ServeStart, Overtaken, TypeOK, queueVars, ownVars
  <2>4. ASSUME NEW a \in BusAddr, ServeIssued(a)  PROVE TypeOK'
    BY <1>0, <2>4 DEF ServeIssued, ServeStart, TypeOK, queueVars, ownVars
  <2>5. ASSUME NEW a \in BusAddr, ServeMissed(a)  PROVE TypeOK'
    BY <1>0, <2>5 DEF ServeMissed, ServeStart, Overtaken, TypeOK, queueVars, ownVars
  <2>6. ASSUME NEW v \in Byte, DataEn(v)  PROVE TypeOK'
    <3>1. wq' \in Seq(Entry) /\ Len(wq') <= Depth
      <4>1. CASE pending # None /\ Len(wq) < Depth
        <5>1. [line |-> pending.line, lane |-> pending.lane, data |-> v] \in Entry
          BY <1>0, <4>1 DEF TypeOK, Addr, Entry
        <5>2. wq \in Seq(Entry) /\ Len(wq) \in Nat
          BY <1>0 DEF TypeOK
        <5> QED BY <2>6, <4>1, <5>1, <5>2 DEF DataEn
      <4>2. CASE ~(pending # None /\ Len(wq) < Depth)
        BY <1>0, <2>6, <4>2 DEF DataEn, TypeOK
      <4> QED BY <4>1, <4>2
    <3> QED BY <1>0, <2>6, <3>1 DEF DataEn, Off, TypeOK, rmwVars, ownVars
  <2> QED BY <1>1, <2>1, <2>2, <2>3, <2>4, <2>5, <2>6 DEF Bus
<1>2. CASE Ownership
  BY <1>0, <1>2 DEF Ownership, TakeBus, GiveBus, DrainDone, TypeOK, queueVars, rmwVars, serveVars
<1>3. CASE Machine
  <2>1. CASE AdmitParked
    BY <1>0, <2>1, ZenonT(60)
       DEF AdmitParked, Admit, CanAdmit, TypeOK, queueVars, serveVars, ownVars
  <2>2. CASE AdmitRmw
    <3>1. rmw' \in RmwRecord
      <4>1. wq[1] \in Entry /\ DOMAIN wq \subseteq 1 .. Depth
        BY <1>0, <2>2 DEF AdmitRmw, TypeOK
      <4> QED BY <2>2, <4>1 DEF AdmitRmw, RmwRecord, Entry
    <3> QED BY <1>0, <2>2, <3>1
            DEF AdmitRmw, Admit, CanAdmit, TypeOK, queueVars, serveVars, ownVars
  <2>3. CASE ServeDone
    <3>1. drive' \in [mode : {"off", "wait", "ready", "miss"}, val : Byte \cup {None}]
      <4>1. CASE fwd
        BY <1>0, <2>3, <4>1 DEF ServeDone, TypeOK
      <4>2. CASE ~fwd
        <5>1. mem[serve.line][serve.lane] \in Byte
          BY <1>0, <2>3 DEF ServeDone, TypeOK, IInv, DriveInv, Addr
        <5> QED BY <1>0, <2>3, <4>2, <5>1 DEF ServeDone, TypeOK
      <4> QED BY <4>1, <4>2
    <3> QED BY <1>0, <2>3, <3>1 DEF ServeDone, TypeOK, queueVars, rmwVars, ownVars
  <2>4. CASE RmwRead
    <3>1. rmw' \in RmwRecord
      BY <2>4, PatchedIs DEF RmwRead, IInv, ReadInv, RmwRecord
    <3> QED BY <1>0, <2>4, <3>1 DEF RmwRead, TypeOK, queueVars, serveVars, ownVars
  <2>5. CASE RmwIssue
    BY <1>0, <2>5 DEF RmwIssue, TypeOK, queueVars, rmwVars, serveVars, ownVars
  <2>6. CASE RmwWritten
    <3>1. LineReady
      BY <2>6 DEF RmwWritten, IInv, PatchInv
    <3>2. mem' \in [Line -> [Lane -> Byte]]
      BY <1>0, <2>6, <3>1 DEF RmwWritten, TypeOK, LineReady, RmwRecord
    <3>3. wq' \in Seq(Entry) /\ Len(wq') <= Depth
      BY <1>0, <2>6, <3>1 DEF RmwWritten, TypeOK, LineReady
    <3>4. rdPtr' \in 0 .. Depth - 1
      BY <1>0, <2>6 DEF RmwWritten, TypeOK
    <3> QED BY <1>0, <2>6, <3>2, <3>3, <3>4 DEF RmwWritten, TypeOK, serveVars, ownVars
  <2>7. ASSUME NEW p \in Port, AdmitPort(p)  PROVE TypeOK'
    <3>1. port' \in [Port -> PortRecord]
      BY <1>0, <2>7, ZenonT(60) DEF AdmitPort, TypeOK, PortRecord
    <3> QED BY <1>0, <2>7, <3>1, ZenonT(60)
            DEF AdmitPort, Admit, CanAdmit, TypeOK, queueVars, rmwVars, serveVars, ownVars
  <2>8. ASSUME NEW p \in Port, PortDone(p)  PROVE TypeOK'
    <3>1. port[p].op \in Op
      BY <2>8 DEF PortDone, IInv, PortInv
    <3>2. /\ port[p].op.rw = "read" => mem[port[p].op.line] \in [Lane -> Byte]
          /\ port[p].op.rw # "read" => port[p].op.data \in [Lane -> Byte]
      BY <1>0, <3>1 DEF TypeOK, Op
    <3>3. port' \in [Port -> PortRecord] /\ mem' \in [Line -> [Lane -> Byte]]
      <4>1. CASE port[p].op.rw = "read"
        <5>1. /\ port' = [port EXCEPT ![p].st = "done", ![p].got = mem[port[p].op.line]]
              /\ mem' = mem /\ mem[port[p].op.line] \in [Lane -> Byte]
          BY <2>8, <3>2, <4>1 DEF PortDone
        <5>2. port' \in [Port -> PortRecord]
          <6> DEFINE line == mem[port[p].op.line]
          <6>1. port \in [Port -> PortRecord] /\ line \in [Lane -> Byte]
            BY <1>0, <5>1 DEF TypeOK
          <6>2. port' = [port EXCEPT ![p].st = "done", ![p].got = line]
            BY <5>1
          <6> HIDE DEF line
          <6> QED BY <6>1, <6>2, ZenonT(60) DEF PortRecord
        <5> QED BY <1>0, <5>1, <5>2 DEF TypeOK
      <4>2. CASE port[p].op.rw # "read"
        <5>1. port' \in [Port -> PortRecord]
          BY <1>0, <2>8, <4>2 DEF PortDone, TypeOK, PortRecord, Idle
        <5>2. port[p].op.line \in Line
          BY <3>1 DEF Op
        <5>3. mem' \in [Line -> [Lane -> Byte]]
          BY <1>0, <2>8, <3>2, <4>2, <5>2 DEF PortDone, TypeOK
        <5> QED BY <5>1, <5>3
      <4> QED BY <4>1, <4>2
    <3> QED BY <1>0, <2>8, <3>3
            DEF PortDone, TypeOK, queueVars, rmwVars, serveVars, ownVars
  <2> QED BY <1>3, <2>1, <2>2, <2>3, <2>4, <2>5, <2>6, <2>7, <2>8 DEF Machine
<1>4. CASE Clients
  <2>1. port' \in [Port -> PortRecord]
    <3>1. ASSUME NEW p \in Port, NEW o \in PortOps[p], PortAsk(p, o)
          PROVE  port' \in [Port -> PortRecord]
      <4>1. o \in Op
        BY DEF Port
      <4> QED BY <1>0, <3>1, <4>1 DEF PortAsk, TypeOK, PortRecord
    <3>2. ASSUME NEW p \in Port, PortTake(p)  PROVE port' \in [Port -> PortRecord]
      BY <1>0, <3>2 DEF PortTake, TypeOK, PortRecord, Idle
    <3>3. CASE Withdraw
      BY <1>0, <3>3 DEF Withdraw, TypeOK, PortRecord, Idle, Port
    <3> QED BY <1>4, <3>1, <3>2, <3>3 DEF Clients
  <2>2. UNCHANGED <<mem, st, queueVars, rmwVars, serveVars, phase, admit, ownVars>>
    BY <1>4 DEF Clients, PortAsk, PortTake, Withdraw
  <2> QED BY <1>0, <2>1, <2>2 DEF TypeOK, queueVars, rmwVars, serveVars, ownVars
<1>5. CASE UNCHANGED vars
  BY <1>0, <1>5 DEF vars, TypeOK, queueVars, rmwVars, serveVars, ownVars
<1> QED BY <1>1, <1>2, <1>3, <1>4, <1>5 DEF Next

\* Expands every action: enough for the parts that a step changes by assignment.
LEMMA DriveStep == IInv /\ [Next]_vars => DriveInv'
<1> SUFFICES ASSUME IInv, [Next]_vars  PROVE DriveInv'
  OBVIOUS
<1>0. DriveInv /\ TypeOK
  BY DEF IInv
<1>1. CASE Bus
  <2>1. CASE NoService
    BY <1>0, <2>1 DEF NoService, DriveInv, queueVars, serveVars
  <2>2. ASSUME NEW a \in BusAddr, WriteStart(a)  PROVE DriveInv'
    BY <1>0, <2>2 DEF WriteStart, DriveInv, serveVars
  <2>3. ASSUME NEW a \in BusAddr, ServeForwarded(a)  PROVE DriveInv'
    <3>1. a # None
      BY DEF QueueAssumption
    <3> QED BY <1>0, <2>3, <3>1
            DEF ServeForwarded, ServeStart, Overtaken, Ready, DriveInv, queueVars
  <2>4. ASSUME NEW a \in BusAddr, ServeIssued(a)  PROVE DriveInv'
    <3>1. a # None
      BY DEF QueueAssumption
    <3> QED BY <1>0, <2>4, <3>1 DEF ServeIssued, ServeStart, DriveInv, queueVars
  <2>5. ASSUME NEW a \in BusAddr, ServeMissed(a)  PROVE DriveInv'
    <3>1. a # None
      BY DEF QueueAssumption
    <3> QED BY <1>0, <2>5, <3>1 DEF ServeMissed, ServeStart, Overtaken, DriveInv, queueVars
  <2>6. ASSUME NEW v \in Byte, DataEn(v)  PROVE DriveInv'
    BY <1>0, <2>6 DEF DataEn, DriveInv, Off
  <2> QED BY <1>1, <2>1, <2>2, <2>3, <2>4, <2>5, <2>6 DEF Bus
<1>2. CASE Ownership
  BY <1>0, <1>2 DEF Ownership, TakeBus, GiveBus, DrainDone, DriveInv, queueVars, serveVars
<1>3. CASE Machine
  <2>1. CASE AdmitParked \/ AdmitRmw
    BY <1>0, <2>1 DEF AdmitParked, AdmitRmw, Admit, CanAdmit, DriveInv, queueVars, serveVars
  <2>2. CASE ServeDone
    BY <1>0, <2>2 DEF ServeDone, DriveInv, TypeOK, queueVars
  <2>3. CASE RmwRead \/ RmwIssue
    BY <1>0, <2>3 DEF RmwRead, RmwIssue, DriveInv, queueVars, serveVars
  <2>4. CASE RmwWritten
    BY <1>0, <2>4 DEF RmwWritten, DriveInv, serveVars
  <2>5. ASSUME NEW p \in Port, AdmitPort(p) \/ PortDone(p)  PROVE DriveInv'
    <3>1. p # "serve"
      BY DEF Port
    <3> QED BY <1>0, <2>5, <3>1
            DEF AdmitPort, PortDone, Admit, CanAdmit, DriveInv, queueVars, serveVars
  <2> QED BY <1>3, <2>1, <2>2, <2>3, <2>4, <2>5 DEF Machine
<1>4. CASE Clients
  BY <1>0, <1>4 DEF Clients, PortAsk, PortTake, Withdraw, DriveInv, queueVars, serveVars
<1>5. CASE UNCHANGED vars
  BY <1>0, <1>5 DEF vars, DriveInv
<1> QED BY <1>1, <1>2, <1>3, <1>4, <1>5 DEF Next

\* A step that leaves the ports alone and does not end or begin a port's turn.
LEMMA PortsKept ==
  ASSUME PortInv, UNCHANGED port, st' = st \/ {st, st'} \cap Port = {},
         st' \in Port \cup {"issue", "wait"} => ~park'
  PROVE  PortInv'
BY DEF PortInv

LEMMA PortStep == IInv /\ [Next]_vars => PortInv'
<1> SUFFICES ASSUME IInv, [Next]_vars  PROVE PortInv'
  OBVIOUS
<1>0. PortInv /\ port \in [Port -> PortRecord]
  BY DEF IInv, TypeOK
<1>1. CASE Bus
  <2>1. /\ UNCHANGED port
        /\ (st' = st \/ {st, st'} \cap Port = {})
        /\ st' \in Port \cup {"issue", "wait"} => st' = st /\ park' = park
    BY <1>1 DEF Bus, NoService, WriteStart, ServeStart, ServeForwarded, ServeIssued, ServeMissed,
                DataEn, Port, rmwVars
  <2> QED BY <1>0, <2>1, PortsKept DEF PortInv
<1>2. CASE Ownership
  <2>1. UNCHANGED <<port, st, park>>
    BY <1>2 DEF Ownership, TakeBus, GiveBus, DrainDone, rmwVars
  <2> QED BY <1>0, <2>1, PortsKept DEF PortInv
<1>3. CASE Machine
  <2>1. CASE AdmitParked \/ AdmitRmw \/ ServeDone \/ RmwRead \/ RmwIssue \/ RmwWritten
    <3>1. /\ UNCHANGED port /\ {st, st'} \cap Port = {}
          /\ st' \in {"issue", "wait"} => ~park'
      BY <1>0, <2>1 DEF PortInv, ReadInv, IInv, AdmitParked, AdmitRmw, Admit, CanAdmit, ServeDone, RmwRead, RmwIssue,
                  RmwWritten, Port, rmwVars
    <3> QED BY <1>0, <3>1, PortsKept
  <2>2. ASSUME NEW p \in Port, AdmitPort(p)  PROVE PortInv'
    <3>1. /\ st \notin Port /\ st' = p /\ port[p].st = "asked"
          /\ port' = [port EXCEPT ![p].st = "busy"] /\ ~park'
      BY <2>2 DEF AdmitPort, Admit, CanAdmit, Port, rmwVars
    <3>2. /\ port'[p].st = "busy" /\ port'[p].op = port[p].op
          /\ \A q \in Port \ {p} : port'[q] = port[q]
      BY <1>0, <3>1 DEF PortRecord
    <3> QED BY <1>0, <3>1, <3>2 DEF PortInv
  <2>3. ASSUME NEW p \in Port, PortDone(p)  PROVE PortInv'
    <3>1. st = p /\ st' \notin Port \cup {"issue", "wait"}
      BY <2>3 DEF PortDone, Port
    <3>2. /\ port'[p].st \in {"idle", "done"}
          /\ \A q \in Port \ {p} : port'[q] = port[q]
      <4>1. CASE port[p].op.rw = "read"
        BY <1>0, <2>3, <4>1 DEF PortDone, PortRecord
      <4>2. CASE port[p].op.rw # "read"
        BY <1>0, <2>3, <4>2 DEF PortDone, Idle
      <4> QED BY <4>1, <4>2
    <3> QED BY <1>0, <3>1, <3>2 DEF PortInv
  <2> QED BY <1>3, <2>1, <2>2, <2>3 DEF Machine
<1>4. CASE Clients
  <2>1. UNCHANGED <<st, park>>
    BY <1>4 DEF Clients, PortAsk, PortTake, Withdraw, rmwVars
  <2>2. ASSUME NEW p \in Port, NEW o \in PortOps[p], PortAsk(p, o)  PROVE PortInv'
    <3>1. o \in Op
      BY DEF Port
    <3>2. port[p].st = "idle" /\ port'[p].st = "asked" /\ port'[p].op = o
      BY <1>0, <2>2 DEF PortAsk
    <3>3. \A q \in Port \ {p} : port'[q] = port[q]
      BY <1>0, <2>2 DEF PortAsk
    <3> QED BY <1>0, <2>1, <3>1, <3>2, <3>3 DEF PortInv
  <2>3. ASSUME NEW p \in Port, port[p].st \in {"asked", "done"}, port' = [port EXCEPT ![p] = Idle]
        PROVE  PortInv'
    BY <1>0, <2>1, <2>3 DEF PortInv, Idle
  <2> QED BY <1>4, <2>2, <2>3 DEF Clients, PortTake, Withdraw, Port
<1>5. CASE UNCHANGED vars
  BY <1>0, <1>5, PortsKept DEF vars, PortInv
<1> QED BY <1>1, <1>2, <1>3, <1>4, <1>5 DEF Next

\* The queue may grow at its end while a line is patched.
LEMMA ReadKept ==
  ASSUME TypeOK, ReadInv, UNCHANGED rmw,
         st' = "read" => st = "read" /\ park' = park,
         wq' = wq \/ \E e \in Entry : wq' = Append(wq, e)
  PROVE  ReadInv'
<1> SUFFICES ASSUME st' = "read"  PROVE ReadInv'
  BY DEF ReadInv
<1>1. /\ \A j \in DOMAIN wq : j \in DOMAIN wq' /\ wq'[j] = wq[j]
      /\ wq # <<>> => wq' # <<>>
  <2>1. CASE wq' = wq
    BY <2>1
  <2>2. ASSUME NEW e \in Entry, wq' = Append(wq, e)
        PROVE  /\ \A j \in DOMAIN wq : j \in DOMAIN wq' /\ wq'[j] = wq[j]
               /\ wq' # <<>>
    <3>1. wq \in Seq(Entry)
      BY DEF TypeOK
    <3> QED BY <2>2, <3>1
  <2> QED BY <2>1, <2>2
<1>3. wq # <<>> => 1 \in DOMAIN wq
  BY DEF TypeOK
<1> QED BY <1>1, <1>3 DEF ReadInv

LEMMA PatchKept ==
  ASSUME TypeOK, PatchInv, UNCHANGED <<rmw, mem>>,
         (park' \/ st' \in {"issue", "wait"}) => (park \/ st \in {"issue", "wait"}),
         wq' = wq \/ \E e \in Entry : wq' = Append(wq, e)
  PROVE  PatchInv'
<1> SUFFICES ASSUME LineReady  PROVE LineReady'
  BY DEF PatchInv
<1>1. CASE wq' = wq
  BY <1>1 DEF LineReady, Holding, At
<1>2. ASSUME NEW e \in Entry, wq' = Append(wq, e)  PROVE LineReady'
  <2>1. wq' # <<>> /\ wq'[1] = wq[1] /\ Len(wq) \in Nat /\ Len(wq) > 0
    BY <1>2 DEF TypeOK, LineReady
  <2>2. ASSUME NEW k \in Lane
        PROVE  /\ Holding(wq', At(rmw.line, k)) = {} => Holding(wq, At(rmw.line, k)) = {}
               /\ Holding(wq', At(rmw.line, k)) = {1} => Holding(wq, At(rmw.line, k)) = {1}
    <3>1. At(rmw.line, k) \in Addr
      BY DEF LineReady, RmwRecord, Addr, At
    <3>2. Len(wq) + 1 # 1
      BY <2>1
    <3>3. \/ Holding(wq', At(rmw.line, k)) = Holding(wq, At(rmw.line, k)) \cup {Len(wq) + 1}
          \/ Holding(wq', At(rmw.line, k)) = Holding(wq, At(rmw.line, k))
      BY <1>2, <3>1, NewestAppend DEF TypeOK
    <3> QED BY <3>2, <3>3
  <2> QED BY <2>1, <2>2 DEF LineReady, At
<1> QED BY <1>1, <1>2

\* Only the end of a bus cycle adds to the queue, one entry at its end.
LEMMA QueueGrows ==
  ASSUME TypeOK, NEW v \in Byte, DataEn(v)
  PROVE  wq' = wq \/ \E e \in Entry : wq' = Append(wq, e)
<1>1. CASE pending # None /\ Len(wq) < Depth
  <2> DEFINE e == [line |-> pending.line, lane |-> pending.lane, data |-> v]
  <2>1. e \in Entry
    BY <1>1 DEF TypeOK, Addr, Entry
  <2> QED BY <2>1, <1>1 DEF DataEn
<1>2. CASE ~(pending # None /\ Len(wq) < Depth)
  BY <1>2 DEF DataEn
<1> QED BY <1>1, <1>2

\* Steps that change neither the line nor the chip.
LEMMA LineKept ==
  ASSUME IInv, UNCHANGED <<rmw, mem>>,
         st' = "read" => st = "read" /\ park' = park,
         (park' \/ st' \in {"issue", "wait"}) => (park \/ st \in {"issue", "wait"}),
         wq' = wq \/ \E e \in Entry : wq' = Append(wq, e)
  PROVE  ReadInv' /\ PatchInv'
BY ReadKept, PatchKept DEF IInv

LEMMA LineStep == IInv /\ [Next]_vars => ReadInv' /\ PatchInv'
<1> SUFFICES ASSUME IInv, [Next]_vars  PROVE ReadInv' /\ PatchInv'
  OBVIOUS
<1>0. TypeOK /\ ReadInv /\ PatchInv /\ PortInv
  BY DEF IInv
<1>1. CASE Bus
  <2>1. CASE NoService
    BY <2>1, LineKept DEF NoService, queueVars, rmwVars
  <2>2. ASSUME NEW a \in BusAddr, WriteStart(a)  PROVE ReadInv' /\ PatchInv'
    BY <2>2, LineKept DEF WriteStart, rmwVars
  <2>3. ASSUME NEW a \in BusAddr, ServeForwarded(a) \/ ServeMissed(a)
        PROVE  ReadInv' /\ PatchInv'
    BY <2>3, LineKept DEF ServeForwarded, ServeMissed, ServeStart, queueVars
  <2>4. ASSUME NEW a \in BusAddr, ServeIssued(a)  PROVE ReadInv' /\ PatchInv'
    BY <2>4, LineKept DEF ServeIssued, ServeStart, queueVars
  <2>5. ASSUME NEW v \in Byte, DataEn(v)  PROVE ReadInv' /\ PatchInv'
    <3>1. wq' = wq \/ \E e \in Entry : wq' = Append(wq, e)
      BY <1>0, <2>5, QueueGrows
    <3>2. UNCHANGED <<rmw, mem, st, park>>
      BY <2>5 DEF DataEn, rmwVars
    <3> QED BY <3>1, <3>2, LineKept
  <2> QED BY <1>1, <2>1, <2>2, <2>3, <2>4, <2>5 DEF Bus
<1>2. CASE Ownership
  <2>1. UNCHANGED <<rmw, mem, st, park, wq>>
    BY <1>2 DEF Ownership, TakeBus, GiveBus, DrainDone, rmwVars, queueVars
  <2> QED BY <2>1, LineKept
<1>3. CASE Machine
  <2>1. CASE AdmitParked
    BY <2>1, LineKept DEF AdmitParked, Admit, queueVars
  <2>2. CASE AdmitRmw
    <3>1. /\ wq \in Seq(Entry) /\ Len(wq) \in Nat /\ Len(wq) <= Depth /\ wq # <<>>
          /\ UNCHANGED <<wq, park, mem>> /\ ~park /\ st' = "read"
          /\ rmw' = [line |-> wq[1].line, hit |-> {j \in DOMAIN wq : wq[j].line = wq[1].line},
                     data |-> None]
      BY <1>0, <2>2 DEF AdmitRmw, Admit, TypeOK, queueVars
    <3>2. wq[1] \in Entry /\ 1 \in DOMAIN wq /\ DOMAIN wq \subseteq 1 .. Depth
      BY <3>1
    <3>3. rmw' \in RmwRecord
      BY <3>1, <3>2 DEF RmwRecord, Entry
    <3> QED BY <3>1, <3>2, <3>3 DEF ReadInv, PatchInv
  <2>3. CASE ServeDone
    BY <2>3, LineKept DEF ServeDone, queueVars, rmwVars
  <2>4. CASE RmwRead
    <3>1. /\ st = "read" /\ st' = "issue" /\ UNCHANGED <<mem, wq, park>>
          /\ rmw' = [rmw EXCEPT !.data = Patched(mem[rmw.line])]
      BY <2>4 DEF RmwRead, queueVars
    <3>2. /\ rmw \in RmwRecord /\ wq # <<>> /\ rmw.line = wq[1].line /\ rmw.hit \subseteq DOMAIN wq
          /\ 1 \in rmw.hit /\ \A j \in rmw.hit : wq[j].line = rmw.line
      BY <1>0, <3>1 DEF ReadInv
    <3>3. /\ rmw' \in RmwRecord /\ rmw'.line = rmw.line
          /\ rmw'.data = Patched(mem[rmw.line]) /\ rmw'.data \in [Lane -> Byte]
      BY <1>0, <3>1, <3>2, PatchedIs DEF RmwRecord
    <3>4. \A k \in Lane : Patching(k) \subseteq Holding(wq, At(rmw.line, k))
      BY <3>2 DEF Patching, Holding, At
    <3>5. \A k \in Lane : 1 \in Holding(wq, At(rmw.line, k)) => 1 \in Patching(k)
      BY <3>2 DEF Patching, Holding, At
    <3>6. ASSUME NEW k \in Lane
          PROVE  /\ Holding(wq, At(rmw.line, k)) = {} => rmw'.data[k] = mem[rmw.line][k]
                 /\ Holding(wq, At(rmw.line, k)) = {1} => rmw'.data[k] = wq[1].data
      <4>1. Holding(wq, At(rmw.line, k)) = {} => Patching(k) = {}
        BY <3>4
      <4>2. Holding(wq, At(rmw.line, k)) = {1} => Patching(k) = {1}
        BY <3>4, <3>5
      <4> QED BY <1>0, <3>1, <3>3, <4>1, <4>2, PatchedIs
    <3> QED BY <3>1, <3>2, <3>3, <3>6 DEF ReadInv, PatchInv, LineReady
  <2>5. CASE RmwIssue
    BY <2>5, LineKept DEF RmwIssue, queueVars, rmwVars
  <2>6. CASE RmwWritten
    <3>1. st = "wait" /\ st' = "idle" /\ park' = park
      BY <2>6 DEF RmwWritten
    <3>2. ~park
      BY <3>1, <1>0 DEF PortInv
    <3> QED BY <3>1, <3>2 DEF ReadInv, PatchInv
  <2>7. ASSUME NEW p \in Port, AdmitPort(p)  PROVE ReadInv' /\ PatchInv'
    BY <2>7, LineKept DEF AdmitPort, Admit, CanAdmit, Port, queueVars, rmwVars
  <2>8. ASSUME NEW p \in Port, PortDone(p)  PROVE ReadInv' /\ PatchInv'
    <3>1. st = p /\ st' = "idle" /\ park' = park /\ ~park
      BY <1>0, <2>8 DEF PortDone, PortInv, rmwVars
    <3> QED BY <3>1 DEF ReadInv, PatchInv
  <2> QED BY <1>3, <2>1, <2>2, <2>3, <2>4, <2>5, <2>6, <2>7, <2>8 DEF Machine
<1>4. CASE Clients
  <2>1. UNCHANGED <<rmw, mem, st, park, wq>>
    BY <1>4 DEF Clients, PortAsk, PortTake, Withdraw, rmwVars, queueVars
  <2> QED BY <2>1, LineKept
<1>5. CASE UNCHANGED vars
  BY <1>5, LineKept DEF vars
<1> QED BY <1>1, <1>2, <1>3, <1>4, <1>5 DEF Next

-----------------------------------------------------------------------------
(* The invariant, and the refinement. *)

LEMMA InitInv == Init => IInv
<1> SUFFICES ASSUME Init  PROVE IInv
  OBVIOUS
<1>1. TypeOK
  BY TypeInit
<1>2. DriveInv /\ PortInv /\ ReadInv /\ PatchInv
  BY DEF Init, Off, Idle, DriveInv, PortInv, ReadInv, PatchInv, Port
<1> QED BY <1>1, <1>2 DEF IInv

LEMMA StepInv == IInv /\ [Next]_vars => IInv'
BY TypeStep, DriveStep, PortStep, LineStep DEF IInv

\* The variables keep their types.
THEOREM TypeCorrect == Spec => []TypeOK
<1>1. IInv => TypeOK
  BY DEF IInv
<1> QED BY InitInv, StepInv, <1>1, PTL DEF Spec

\* The line that waits to be written, behind the reads it yields to, holds
\* for every byte what a reader is given now.
THEOREM PatchedLineCurrent == Spec => []PatchInv
<1>1. IInv => PatchInv
  BY DEF IInv
<1> QED BY InitInv, StepInv, <1>1, PTL DEF Spec

\* Contents that stay the same, address by address.
LEMMA SameContents ==
  ASSUME \A l \in Line, k \in Lane : ContentOf(l, k)' = ContentOf(l, k)
  PROVE  UNCHANGED Contents
BY DEF Contents

\* Steps that move nothing a user sees.
LEMMA Unseen ==
  ASSUME UNCHANGED <<mem, wq, pending, read, serve, drive, port>>,
         st' = st \/ {st, st'} \cap Port = {}
  PROVE  UNCHANGED <<Contents, Len(wq) < Depth, pending, ReplyView, RequestView, AnswerView>>
<1>2. ASSUME NEW l \in Line, NEW k \in Lane  PROVE ContentOf(l, k)' = ContentOf(l, k)
  <2>1. Stored(l, k)' = Stored(l, k)
    <3>1. CASE st' = st
      BY <3>1 DEF Stored, Writing
    <3>2. CASE st \notin Port /\ st' \notin Port
      BY <3>2 DEF Stored, Writing
    <3> QED BY <3>1, <3>2
  <2> QED BY <2>1 DEF ContentOf
<1>3. UNCHANGED Contents
  BY <1>2, SameContents
<1> QED BY <1>3 DEF ReplyView, ReplyValue, RequestView, AnswerView

\* While no port writes and nothing is queued, a content is the chip's.
LEMMA ChipContent ==
  ASSUME NEW a \in Addr, Holding(wq, a) = {}, st \notin Port
  PROVE  Contents[a.line][a.lane] = mem[a.line][a.lane]
<1>1. [line |-> a.line, lane |-> a.lane] = a
  BY DEF Addr
<1> QED BY <1>1 DEF Contents, ContentOf, Stored, Writing, Addr

LEMMA QueuedContent ==
  ASSUME NEW a \in Addr, Holding(wq, a) # {}
  PROVE  Contents[a.line][a.lane] = Newest(wq, a)
<1>1. [line |-> a.line, lane |-> a.lane] = a
  BY DEF Addr
<1> QED BY <1>1 DEF Contents, ContentOf, Addr

\* The queue's writes reach the chip without a content changing.
LEMMA WrittenUnseen ==
  ASSUME IInv, RmwWritten
  PROVE  UNCHANGED Contents
<1>1. /\ LineReady /\ wq \in Seq(Entry) /\ st = "wait" /\ st' = "idle"
      /\ mem' = [mem EXCEPT ![rmw.line] = rmw.data] /\ wq' = Tail(wq)
      /\ mem \in [Line -> [Lane -> Byte]]
  BY DEF RmwWritten, IInv, PatchInv, TypeOK
<1>2. rmw.line \in Line /\ wq # <<>> /\ rmw.line = wq[1].line /\ 1 \in DOMAIN wq
  BY <1>1 DEF LineReady, RmwRecord
<1>3. ASSUME NEW l \in Line, NEW k \in Lane  PROVE ContentOf(l, k)' = ContentOf(l, k)
  <2> DEFINE a == [line |-> l, lane |-> k]
  <2>1. a \in Addr /\ a.line = l /\ a.lane = k /\ a = At(l, k)
    BY DEF Addr, At
  <2> HIDE DEF a
  <2>2. /\ Holding(wq', a) = {j - 1 : j \in Holding(wq, a) \ {1}}
        /\ Holding(wq, a) \ {1} # {} => Newest(wq', a) = Newest(wq, a)
    BY <1>1, <1>2, <2>1, NewestTail
  <2>3. Stored(l, k) = mem[l][k] /\ Stored(l, k)' = mem'[l][k]
    BY <1>1 DEF Stored, Writing, Port
  <2>4. CASE Holding(wq, a) \ {1} # {}
    <3>1. Holding(wq, a) # {} /\ Holding(wq', a) # {}
      BY <2>2, <2>4
    <3> QED BY <3>1, <2>2, <2>4 DEF ContentOf, a
  <2>5. CASE Holding(wq, a) \ {1} = {}
    <3>1. Holding(wq', a) = {}
      BY <2>2, <2>5
    <3>2. ContentOf(l, k)' = mem'[l][k]
      BY <3>1, <2>3 DEF ContentOf, a
    <3>3. CASE Holding(wq, a) = {}
      <4>1. ContentOf(l, k) = mem[l][k]
        BY <3>3, <2>3 DEF ContentOf, a
      <4>2. l = rmw.line => rmw.data[k] = mem[l][k]
        BY <1>1, <2>1, <3>3 DEF LineReady
      <4> QED BY <1>1, <3>2, <4>1, <4>2
    <3>4. CASE Holding(wq, a) = {1}
      <4>1. IsNewest(wq, a, 1)
        BY <3>4 DEF IsNewest
      <4>2. ContentOf(l, k) = wq[1].data
        BY <3>4, <4>1, <1>1, NewestIs DEF ContentOf, a
      <4>3. l = rmw.line
        BY <1>2, <2>1, <3>4 DEF Holding
      <4>4. rmw.data[k] = wq[1].data
        BY <1>1, <2>1, <3>4, <4>3 DEF LineReady
      <4> QED BY <1>1, <1>2, <3>2, <4>2, <4>3, <4>4
    <3> QED BY <2>5, <3>3, <3>4
  <2> QED BY <2>4, <2>5
<1> QED BY <1>3, SameContents

\* The data of a write are the content of its address from data_en on.
LEMMA AppleEndStep ==
  ASSUME IInv, NEW v \in Byte, DataEn(v)
  PROVE  Promise!AppleEnd(v)
<1>0. /\ TypeOK /\ wq \in Seq(Entry) /\ Len(wq) \in Nat
      /\ UNCHANGED <<mem, st, port, rmw, serve>> /\ read' = None /\ pending' = None
  BY DEF DataEn, IInv, TypeOK, rmwVars
<1>1. \A l \in Line, k \in Lane : Stored(l, k)' = Stored(l, k)
  BY <1>0 DEF Stored, Writing
<1>2. UNCHANGED <<RequestView, AnswerView>>
  BY <1>0 DEF RequestView, AnswerView
<1>3. ReplyView' = None
  BY <1>0 DEF ReplyView
<1>4. CASE pending # None /\ Len(wq) < Depth
  <2> DEFINE e == [line |-> pending.line, lane |-> pending.lane, data |-> v]
  <2>1. pending \in Addr /\ e \in Entry /\ wq' = Append(wq, e)
    BY <1>0, <1>4 DEF TypeOK, Addr, Entry, DataEn
  <2>2. e.line = pending.line /\ e.lane = pending.lane /\ e.data = v
    OBVIOUS
  <2> HIDE DEF e
  <2>3. ASSUME NEW l \in Line, NEW k \in Lane
        PROVE  ContentOf(l, k)' =
                 IF l = pending.line /\ k = pending.lane THEN v ELSE ContentOf(l, k)
    <3> DEFINE a == [line |-> l, lane |-> k]
    <3>1. a \in Addr /\ a.line = l /\ a.lane = k
      BY DEF Addr
    <3> HIDE DEF a
    <3>2. CASE l = pending.line /\ k = pending.lane
      <4>1. Holding(wq', a) # {} /\ Newest(wq', a) = v
        <5>1. /\ Holding(Append(wq, e), a) = Holding(wq, a) \cup {Len(wq) + 1}
              /\ Newest(Append(wq, e), a) = e.data
          BY <1>0, <2>1, <2>2, <3>1, <3>2, NewestAppend
        <5> QED BY <2>1, <2>2, <5>1
      <4> QED BY <3>2, <4>1 DEF ContentOf, a
    <3>3. CASE ~(l = pending.line /\ k = pending.lane)
      <4>1. /\ Holding(wq', a) = Holding(wq, a)
            /\ Holding(wq, a) # {} => Newest(wq', a) = Newest(wq, a)
        BY <1>0, <2>1, <2>2, <3>1, <3>3, NewestAppend
      <4> QED BY <1>1, <3>3, <4>1 DEF ContentOf, a
    <3> QED BY <3>2, <3>3
  <2>4. Contents' = [Contents EXCEPT ![pending.line][pending.lane] = v]
    <3>1. pending.line \in Line /\ pending.lane \in Lane
      BY <2>1 DEF Addr
    <3>2. Contents' = [l \in Line |-> [k \in Lane |->
              IF l = pending.line /\ k = pending.lane THEN v ELSE ContentOf(l, k)]]
      BY <2>3 DEF Contents
    <3> QED BY <3>1, <3>2 DEF Contents
  <2> QED BY <1>0, <1>2, <1>3, <1>4, <2>4 DEF Promise!AppleEnd
<1>5. CASE ~(pending # None /\ Len(wq) < Depth)
  <2>1. wq' = wq
    BY <1>5 DEF DataEn
  <2>2. UNCHANGED Contents
    BY <1>1, <2>1, SameContents DEF ContentOf
  <2> QED BY <1>0, <1>2, <1>3, <1>5, <2>1, <2>2 DEF Promise!AppleEnd
<1> QED BY <1>4, <1>5

\* A port's turn begins: its read is promised the line, its write is in effect.
LEMMA PortAdmitted ==
  ASSUME IInv, NEW p \in Port, AdmitPort(p)
  PROVE  Promise!PortRead(p) \/ Promise!PortWrite(p)
<1>0. /\ st = "idle" /\ st' = p /\ wq = <<>> /\ port[p].st = "asked"
      /\ port' = [port EXCEPT ![p].st = "busy"] /\ port \in [Port -> PortRecord]
      /\ port[p].op \in Op /\ mem \in [Line -> [Lane -> Byte]]
      /\ UNCHANGED <<mem, wq, pending, read, serve, drive>>
  BY DEF AdmitPort, Admit, CanAdmit, IInv, TypeOK, PortInv, queueVars, serveVars
<1>1. /\ port'[p].st = "busy" /\ port'[p].op = port[p].op
      /\ \A q \in Port \ {p} : port'[q] = port[q]
  BY <1>0 DEF PortRecord
<1>2. UNCHANGED ReplyView
  BY <1>0 DEF ReplyView, ReplyValue
<1>3. RequestView[p] = port[p].op /\ RequestView' = [RequestView EXCEPT ![p] = None]
  BY <1>0, <1>1 DEF RequestView
<1>4. port[p].op # None
  BY <1>0 DEF QueueAssumption
<1>5. \A a : Holding(wq, a) = {}
  BY <1>0 DEF Holding
<1>6. \A l \in Line, k \in Lane : ContentOf(l, k) = mem[l][k]
  BY <1>0, <1>5 DEF ContentOf, Stored, Writing, Port
<1>7. \A l \in Line, k \in Lane : ContentOf(l, k)' = Stored(l, k)'
  BY <1>0, <1>5 DEF ContentOf
<1>8. CASE port[p].op.rw = "read"
  <2>1. \A l \in Line, k \in Lane : Stored(l, k)' = mem[l][k]
    BY <1>0, <1>1, <1>8 DEF Stored, Writing
  <2>2. UNCHANGED Contents
    BY <1>6, <1>7, <2>1, SameContents
  <2>3. Contents[port[p].op.line] = mem[port[p].op.line]
    <3>1. port[p].op.line \in Line
      BY <1>0 DEF Op
    <3>2. mem[port[p].op.line] = [k \in Lane |-> mem[port[p].op.line][k]]
      BY <1>0, <3>1
    <3> QED BY <1>6, <3>1, <3>2 DEF Contents
  <2>4. AnswerView' = [AnswerView EXCEPT ![p] = mem[port[p].op.line]]
    <3>1. mem' = mem
      BY <1>0
    <3>2. AnswerView'[p] = mem[port[p].op.line]
      BY <1>1, <1>8, <3>1 DEF AnswerView
    <3>3. \A q \in Port \ {p} : AnswerView'[q] = AnswerView[q]
      BY <1>1, <3>1 DEF AnswerView
    <3> QED BY <3>2, <3>3 DEF AnswerView
  <2> QED BY <1>0, <1>2, <1>3, <1>4, <1>8, <2>2, <2>3, <2>4 DEF Promise!PortRead
<1>9. CASE port[p].op.rw = "write"
  <2>1. \A l \in Line, k \in Lane :
           Stored(l, k)' = IF l = port[p].op.line THEN port[p].op.data[k] ELSE mem[l][k]
    BY <1>0, <1>1, <1>9 DEF Stored, Writing
  <2>2. Contents' = [Contents EXCEPT ![port[p].op.line] = port[p].op.data]
    <3>1. port[p].op.line \in Line /\ port[p].op.data \in [Lane -> Byte]
      BY <1>0 DEF Op
    <3>2. port[p].op.data = [k \in Lane |-> port[p].op.data[k]]
      BY <3>1
    <3>3. Contents' = [l \in Line |-> [k \in Lane |->
              IF l = port[p].op.line THEN port[p].op.data[k] ELSE ContentOf(l, k)]]
      BY <1>6, <1>7, <2>1 DEF Contents
    <3>4. Contents' = [l \in Line |->
              IF l = port[p].op.line THEN port[p].op.data ELSE [k \in Lane |-> ContentOf(l, k)]]
      BY <3>2, <3>3
    <3> QED BY <3>1, <3>4 DEF Contents
  <2>3. UNCHANGED AnswerView
    BY <1>0, <1>1, <1>9 DEF AnswerView
  <2> QED BY <1>0, <1>2, <1>3, <1>4, <1>9, <2>2, <2>3 DEF Promise!PortWrite
<1> QED BY <1>0, <1>8, <1>9 DEF Op

\* A port's turn ends: what it was promised at the beginning is what it gets.
LEMMA PortEnds ==
  ASSUME IInv, NEW p \in Port, PortDone(p)
  PROVE  UNCHANGED <<Contents, ReplyView, RequestView, AnswerView>>
<1>0. /\ st = p /\ st' = "idle" /\ port[p].st = "busy" /\ port \in [Port -> PortRecord]
      /\ \A q \in Port \ {p} : port[q].st # "busy"
      /\ port[p].op \in Op /\ mem \in [Line -> [Lane -> Byte]]
      /\ UNCHANGED <<wq, pending, read, serve, drive>> /\ drive.mode # "wait"
      /\ drive.mode \in {"off", "wait", "ready", "miss"} /\ (read = None <=> drive.mode = "off")
  BY DEF PortDone, IInv, TypeOK, PortInv, DriveInv, queueVars, serveVars, Port
<1>1. UNCHANGED ReplyView
  BY <1>0 DEF ReplyView, ReplyValue
<1>2. CASE port[p].op.rw = "read"
  <2>1. port' = [port EXCEPT ![p].st = "done", ![p].got = mem[port[p].op.line]] /\ mem' = mem
    BY <1>2 DEF PortDone
  <2>2. /\ port'[p].st = "done" /\ port'[p].got = mem[port[p].op.line]
        /\ \A q \in Port \ {p} : port'[q] = port[q]
    BY <1>0, <2>1 DEF PortRecord
  <2>3. \A l \in Line, k \in Lane : Stored(l, k)' = Stored(l, k)
    BY <1>0, <1>2, <2>1 DEF Stored, Writing, Port
  <2>4. UNCHANGED Contents
    BY <1>0, <2>3, SameContents DEF ContentOf
  <2>5. \A q \in Port : AnswerView'[q] = AnswerView[q]
    BY <1>0, <1>2, <2>1, <2>2 DEF AnswerView
  <2>6. \A q \in Port : RequestView'[q] = RequestView[q]
    BY <1>0, <2>2 DEF RequestView
  <2> QED BY <1>1, <2>4, <2>5, <2>6 DEF AnswerView, RequestView
<1>3. CASE port[p].op.rw # "read"
  <2>1. /\ port' = [port EXCEPT ![p] = Idle]
        /\ mem' = [mem EXCEPT ![port[p].op.line] = port[p].op.data]
        /\ port[p].op.rw = "write"
    BY <1>0, <1>3 DEF PortDone, Op
  <2>2. /\ port'[p].st = "idle"
        /\ \A q \in Port \ {p} : port'[q] = port[q]
    BY <1>0, <2>1 DEF Idle
  <2>3. \A l \in Line, k \in Lane : Stored(l, k)' = Stored(l, k)
    BY <1>0, <2>1 DEF Stored, Writing, Port
  <2>4. UNCHANGED Contents
    BY <1>0, <2>3, SameContents DEF ContentOf
  <2>5. \A q \in Port : AnswerView'[q] = AnswerView[q]
    BY <1>0, <1>3, <2>2 DEF AnswerView
  <2>6. \A q \in Port : RequestView'[q] = RequestView[q]
    BY <1>0, <2>2 DEF RequestView
  <2> QED BY <1>1, <2>4, <2>5, <2>6 DEF AnswerView, RequestView
<1> QED BY <1>2, <1>3

LEMMA RefineInit == Init => Promise!Init
<1> SUFFICES ASSUME Init  PROVE Promise!Init
  OBVIOUS
<1>1. \A a : Holding(wq, a) = {}
  BY DEF Init, Holding
<1>2. \A l \in Line, k \in Lane : ContentOf(l, k) = mem[l][k]
  BY <1>1 DEF Init, ContentOf, Stored, Writing, Port
<1>3. Contents \in [Line -> [Lane -> Byte]]
  BY <1>2 DEF Init, Contents
<1>4. /\ Len(wq) < Depth /\ ReplyView = None
      /\ RequestView = [p \in Port |-> None] /\ AnswerView = [p \in Port |-> None]
  BY DEF Init, Off, Idle, ReplyView, RequestView, AnswerView
<1> QED BY <1>3, <1>4 DEF Init, Promise!Init

LEMMA RefineStep == IInv /\ [Next]_vars => [Promise!Next]_Promise!vars
<1> SUFFICES ASSUME IInv, [Next]_vars  PROVE [Promise!Next]_Promise!vars
  OBVIOUS
<1>0. TypeOK /\ DriveInv /\ PortInv
  BY DEF IInv
<1> DEFINE Views == <<Contents, Len(wq) < Depth, pending, ReplyView, RequestView, AnswerView>>
<1>s. ASSUME UNCHANGED Views  PROVE [Promise!Next]_Promise!vars
  BY <1>s DEF Promise!vars
<1>1. CASE Bus
  <2>1. CASE NoService
    <3>1. UNCHANGED Views
      BY <2>1, Unseen DEF NoService, queueVars, serveVars
    <3> QED BY <3>1, <1>s
  <2>2. ASSUME NEW a \in BusAddr, WriteStart(a)  PROVE Promise!AppleWrite(a)
    <3>1. UNCHANGED <<Contents, ReplyView, RequestView, AnswerView>>
      <4>1. UNCHANGED <<mem, wq, read, serve, drive, port, st>>
        BY <2>2 DEF WriteStart, serveVars
      <4>2. UNCHANGED Contents
        BY <4>1, SameContents DEF ContentOf, Stored, Writing
      <4> QED BY <4>1, <4>2 DEF ReplyView, ReplyValue, RequestView, AnswerView
    <3>2. pending = None /\ pending' = a /\ wq' = wq
      BY <1>0, <2>2 DEF WriteStart, DriveInv
    <3> QED BY <3>1, <3>2 DEF Promise!AppleWrite
  <2>3. ASSUME NEW a \in BusAddr, ServeForwarded(a) \/ ServeIssued(a) \/ ServeMissed(a)
        PROVE  Promise!AppleRead(a)
    <3>0. /\ a \in Addr /\ a # None /\ read = None /\ read' = a
          /\ UNCHANGED <<mem, wq, pending, port>>
      BY <1>0, <2>3 DEF QueueAssumption, DriveInv, ServeForwarded, ServeIssued, ServeMissed,
                        ServeStart, queueVars
    <3>1. st' = st \/ {st, st'} \cap Port = {}
      BY <2>3 DEF ServeForwarded, ServeIssued, ServeMissed, Port
    <3>2. UNCHANGED Contents
      <4>1. ASSUME NEW l \in Line, NEW k \in Lane  PROVE Stored(l, k)' = Stored(l, k)
        <5>1. CASE st' = st
          BY <3>0, <5>1 DEF Stored, Writing
        <5>2. CASE st \notin Port /\ st' \notin Port
          BY <3>0, <5>2 DEF Stored, Writing
        <5> QED BY <3>1, <5>1, <5>2
      <4> QED BY <3>0, <4>1, SameContents DEF ContentOf
    <3>3. UNCHANGED <<RequestView, AnswerView>>
      BY <3>0 DEF RequestView, AnswerView
    <3>4. ReplyView = None /\ ReplyView' = [addr |-> a, val |-> ReplyValue']
      BY <3>0 DEF ReplyView
    <3>5. ReplyValue' \in {Contents[a.line][a.lane], Missed}
      <4>1. CASE ServeForwarded(a)
        BY <3>0, <4>1, QueuedContent DEF ServeForwarded, ReplyValue, Ready
      <4>2. CASE ServeIssued(a)
        <5>1. st \notin Port /\ drive'.mode = "wait" /\ serve' = a /\ Holding(wq, a) = {}
          BY <4>2 DEF ServeIssued, Port
        <5> QED BY <3>0, <5>1, ChipContent DEF ReplyValue
      <4>3. CASE ServeMissed(a)
        BY <4>3 DEF ServeMissed, ReplyValue
      <4> QED BY <2>3, <4>1, <4>2, <4>3
    <3> QED BY <3>0, <3>2, <3>3, <3>4, <3>5 DEF Promise!AppleRead
  <2>4. ASSUME NEW v \in Byte, DataEn(v)  PROVE Promise!AppleEnd(v)
    BY <2>4, AppleEndStep
  <2>5. \A a \in BusAddr : a \in Promise!Addr
    BY DEF Addr, Promise!Addr
  <2> QED BY <1>1, <2>1, <2>2, <2>3, <2>4, <2>5 DEF Bus, Promise!Next
<1>2. CASE Ownership
  <2>1. UNCHANGED Views
    BY <1>2, Unseen DEF Ownership, TakeBus, GiveBus, DrainDone, queueVars, serveVars
  <2> QED BY <2>1, <1>s
<1>3. CASE Machine
  <2>1. CASE AdmitParked \/ AdmitRmw \/ RmwRead \/ RmwIssue
    <3>1. UNCHANGED Views
      BY <2>1, Unseen DEF AdmitParked, AdmitRmw, RmwRead, RmwIssue, Admit, CanAdmit, Port,
                          queueVars, serveVars
    <3> QED BY <3>1, <1>s
  <2>2. CASE ServeDone
    <3>1. UNCHANGED <<mem, wq, pending, read, port>> /\ st = "serve" /\ st' = "idle"
      BY <2>2 DEF ServeDone, queueVars
    <3>2. UNCHANGED ReplyView
      <4>1. CASE fwd
        <5>1. /\ drive' = drive /\ drive.mode \in {"off", "ready", "miss"}
              /\ read = None <=> drive.mode = "off"
          BY <1>0, <2>2, <4>1 DEF ServeDone, DriveInv, TypeOK
        <5> QED BY <3>1, <5>1 DEF ReplyView, ReplyValue
      <4>2. CASE ~fwd
        BY <1>0, <2>2, <3>1, <4>2 DEF ServeDone, DriveInv, ReplyView, ReplyValue
      <4> QED BY <4>1, <4>2
    <3>3. UNCHANGED Contents
      BY <3>1, SameContents DEF ContentOf, Stored, Writing, Port
    <3>4. UNCHANGED <<RequestView, AnswerView>>
      BY <3>1 DEF RequestView, AnswerView
    <3> QED BY <3>1, <3>2, <3>3, <3>4, <1>s
  <2>3. CASE RmwWritten
    <3>1. UNCHANGED <<pending, read, serve, drive, port>> /\ drive.mode # "wait"
      BY <1>0, <2>3 DEF RmwWritten, DriveInv, serveVars
    <3>2. UNCHANGED <<Contents, RequestView>>
      BY <2>3, <3>1, WrittenUnseen DEF RequestView
    <3>3. UNCHANGED AnswerView
      <4>1. \A p \in Port : port[p].st # "busy"
        BY <1>0, <2>3 DEF PortInv, RmwWritten, Port
      <4> QED BY <3>1, <4>1 DEF AnswerView
    <3>4. UNCHANGED ReplyView
      BY <1>0, <3>1 DEF ReplyView, ReplyValue, DriveInv, TypeOK
    <3>5. (Len(wq) < Depth)'
      <4>1. wq \in Seq(Entry) /\ wq # <<>> /\ wq' = Tail(wq) /\ Len(wq) <= Depth
        BY <1>0, <2>3 DEF TypeOK, RmwWritten, IInv, PatchInv, LineReady
      <4> QED BY <4>1
    <3>6. Promise!MakeRoom
      BY <3>1, <3>2, <3>3, <3>4, <3>5 DEF Promise!MakeRoom
    <3> QED BY <3>6 DEF Promise!Next
  <2>4. ASSUME NEW p \in Port, AdmitPort(p)  PROVE [Promise!Next]_Promise!vars
    BY <2>4, PortAdmitted DEF Promise!Next
  <2>5. ASSUME NEW p \in Port, PortDone(p)  PROVE [Promise!Next]_Promise!vars
    <3>1. UNCHANGED Views
      BY <2>5, PortEnds DEF PortDone, queueVars
    <3> QED BY <3>1, <1>s
  <2> QED BY <1>3, <2>1, <2>2, <2>3, <2>4, <2>5 DEF Machine
<1>4. CASE Clients
  <2>1. /\ UNCHANGED <<Contents, Len(wq) < Depth, pending, ReplyView>>
        /\ port \in [Port -> PortRecord] /\ mem' = mem
    <3>1. UNCHANGED <<mem, wq, pending, read, serve, drive, st>>
      BY <1>4 DEF Clients, PortAsk, PortTake, Withdraw, queueVars, serveVars
    <3>2. st \in Port => port'[st] = port[st]
      BY <1>0, <1>4 DEF Clients, PortAsk, PortTake, Withdraw, PortInv, TypeOK
    <3>3. UNCHANGED Contents
      BY <3>1, <3>2, SameContents DEF ContentOf, Stored, Writing
    <3> QED BY <1>0, <3>1, <3>3 DEF ReplyView, ReplyValue, TypeOK
  <2>2. ASSUME NEW p \in Port, NEW o \in PortOps[p], PortAsk(p, o)
        PROVE  o \in Op /\ Promise!PortAsk(p, o)
    <3>1. o \in Op
      BY DEF QueueAssumption
    <3>2. /\ port[p].st = "idle" /\ port'[p].st = "asked" /\ port'[p].op = o
          /\ \A q \in Port \ {p} : port'[q] = port[q]
      BY <2>1, <2>2 DEF PortAsk
    <3>3. RequestView' = [RequestView EXCEPT ![p] = o] /\ RequestView[p] = None
      BY <3>2 DEF RequestView
    <3>4. UNCHANGED AnswerView
      BY <2>1, <3>2 DEF AnswerView
    <3> QED BY <2>1, <3>1, <3>3, <3>4 DEF Promise!PortAsk
  <2>3. ASSUME NEW p \in Port, PortTake(p)  PROVE Promise!PortEnd(p)
    <3>1. /\ port[p].st = "done" /\ port'[p].st = "idle"
          /\ \A q \in Port \ {p} : port'[q] = port[q]
      BY <2>1, <2>3 DEF PortTake, Idle
    <3>2. AnswerView' = [AnswerView EXCEPT ![p] = None]
      BY <2>1, <3>1 DEF AnswerView
    <3>3. UNCHANGED RequestView
      BY <3>1 DEF RequestView
    <3> QED BY <2>1, <3>2, <3>3 DEF Promise!PortEnd
  <2>4. CASE Withdraw
    <3>1. /\ "dma" \in Port /\ port["dma"].st = "asked" /\ port'["dma"].st = "idle"
          /\ \A q \in Port \ {"dma"} : port'[q] = port[q]
      BY <2>1, <2>4 DEF Withdraw, Idle, Port
    <3>2. RequestView' = [RequestView EXCEPT !["dma"] = None]
      BY <3>1 DEF RequestView
    <3>3. UNCHANGED AnswerView
      BY <2>1, <3>1 DEF AnswerView
    <3>4. Promise!PortForget("dma")
      BY <2>1, <3>2, <3>3 DEF Promise!PortForget
    <3> QED BY <3>1, <3>4 DEF Promise!Next
  <2> QED BY <1>4, <2>2, <2>3, <2>4 DEF Clients, Promise!Next, Port
<1>5. CASE UNCHANGED vars
  <2>1. UNCHANGED Views
    BY <1>5, Unseen DEF vars
  <2> QED BY <2>1, <1>s
<1> QED BY <1>1, <1>2, <1>3, <1>4, <1>5 DEF Next

\* The arbiter is one coherent memory: forwarding, patching and the two ports
\* never show a user anything but the last write accepted before its access.
THEOREM Coherent == Spec => ImplementsCoherentMemory
<1> QED BY InitInv, StepInv, RefineInit, RefineStep, PTL
        DEF Spec, ImplementsCoherentMemory, Promise!Spec

-----------------------------------------------------------------------------
(* The schedule.                                                           *)

\* The driver has a command on its tape, or answers it.
Working == busy \/ rvalid

\* Where the tape of the last command is.  Only the wrap command's runs on after its
\* answer, and by then nothing is offered.
Tape ==
  /\ op \in Timing!Commands /\ cmd \in Timing!Commands \cup {"none"}
  /\ busy \in BOOLEAN /\ rvalid \in BOOLEAN
  /\ slot \in Nat /\ rest \in 0 .. Timing!RestCount
  /\ busy => ~rvalid /\ slot \in 1 .. Timing!Useful[op] + 2
  /\ rvalid => slot = Timing!Useful[op] + 3
  /\ Working => cmd = "none" /\ rest = 0
  /\ ~Working => slot = 0 \/ (op = "wrap" /\ slot = 6 /\ rest = 0 /\ cmd = "none")

\* The command that is offered to the driver or in its hands.
Current == IF Working THEN op ELSE cmd

\* What the state of the arbiter says of it.
Jobs ==
  \/ tSt = "idle" /\ Current = "none"
  \/ tSt \in {"issue", "boot", "bootWrap"} /\ Current = "none" /\ slot = 0
  \/ tSt \in {"rmw", "serve", "port"} /\ Current = "read"
  \/ tSt \in {"wait", "port"} /\ Current = "write"
  \/ tSt = "bootQpi" /\ Current = "qpi"
  \/ tSt = "waitWrap" /\ Current = "wrap"

\* Clocks until the current command is answered and the arbiter has seen it.
Ticks ==
  IF Working THEN Timing!Useful[op] + 4 - slot
  ELSE IF cmd = "none" THEN rest
  ELSE rest + Timing!Useful[cmd] + 4

\* Clocks that the arbiter needs beyond that, until it is idle.
Beyond ==
  CASE tSt = "rmw" -> 25 [] tSt = "issue" -> 21
    [] tSt = "boot" -> 24 [] tSt = "bootQpi" -> 11 [] tSt = "bootWrap" -> 7
    [] OTHER -> 0

Left == IF tSt = "idle" THEN 0 ELSE Ticks + Beyond

\* Clocks until it is idle and the driver ready.
Quiet == IF tSt = "idle" THEN rest ELSE Left + Timing!RestCount

Rmw == tSt \in {"rmw", "issue", "wait"}

WindowEnd == Timing!AddrEn + Timing!AdmitWindow

\* Background work ends before the next cycle can ask for a byte, also when the bus
\* has been given back while it was under way; a read is answered in its cycle.
Scheduled ==
  /\ t \in Nat /\ budget \in BOOLEAN /\ tDrain \in BOOLEAN
  /\ bus \in {"native", "grace", "owned", "guard"}
  /\ t = Timing!SssEn /\ ~Timing!Starting => budget
  /\ ~Timing!Owned /\ tDrain => bus = "guard" /\ t > Timing!DriveEn /\ t + Quiet <= 70
  /\ tSt = "serve" => ~Timing!Owned /\ ~tDrain /\ t > Timing!SssEn /\ t + Left <= 60
  /\ ~Timing!Owned /\ ~tDrain /\ (Rmw \/ tSt = "port") =>
       t > Timing!AddrEn + Timing!AdmitDelay + 1 /\ t + Left < Timing!DataEn

\* The one byte in the queue leaves it before the data of the next write come: it is
\* being patched, or will be, since nothing else is admitted before it.
Retiring ==
  \/ Rmw /\ t + Left < Timing!DataEn
  \/ Timing!Owned /\ tSt \in {"idle", "port"} /\ t + Left <= WindowEnd
  \/ ~Timing!Owned /\ budget /\ ~tDrain /\ tSt = "idle" /\ t <= WindowEnd
  \/ ~Timing!Owned /\ budget /\ tDrain /\ tSt \in {"idle", "port"} /\ t + Quiet < WindowEnd

Room ==
  /\ ~tPark /\ tPending \in BOOLEAN /\ queued \in {0, 1}
  /\ Timing!Starting => queued = 0
  /\ Rmw => queued = 1
  /\ tPending => t \in Timing!SssEn + 1 .. Timing!DataEn /\ (queued = 0 \/ Retiring)
  /\ Timing!Starting /\ tPending => t + Left <= 60

ClockInv == Tape /\ Jobs /\ Scheduled /\ Room

-----------------------------------------------------------------------------
(* The driver.                                                             *)

\* The lengths of the tapes.
LEMMA Lengths ==
  /\ Timing!Useful["qpi"] = 8 /\ Timing!Useful["wrap"] = 2
  /\ Timing!Useful["read"] = 24 /\ Timing!Useful["write"] = 16
  /\ Timing!CeLow["qpi"] = 9 /\ Timing!CeLow["wrap"] = 4
  /\ Timing!CeLow["read"] = 25 /\ Timing!CeLow["write"] = 17
BY DEF Timing!Useful, Timing!CeLow

\* One clock of the driver.
LEMMA Edge ==
  ASSUME Timing!Driver
  PROVE  /\ busy' \in BOOLEAN /\ rvalid' \in BOOLEAN
         /\ busy' <=> Timing!Accept \/ (busy /\ ~Timing!OpDone)
         /\ rvalid' <=> Timing!OpDone
         /\ op' = IF Timing!Accept THEN cmd ELSE op
         /\ rest' = Timing!RestNext
         /\ Timing!Accept => slot' = 1
         /\ ~Timing!Accept => slot' = IF slot = 0 \/ slot = 2 + Timing!CeLow[op] THEN 0
                                      ELSE slot + 1
<1>1. (Timing!Accept \/ (busy /\ ~Timing!OpDone)) \in BOOLEAN
  BY Zenon
<1>2. Timing!OpDone \in BOOLEAN
  BY Zenon DEF Timing!OpDone
<1> QED
  BY <1>1, <1>2, Zenon DEF Timing!Driver

\* A command under way moves on by one clock, to its answer and beyond it.
LEMMA Works ==
  ASSUME Tape, Timing!Driver, busy
  PROVE  /\ op' = op /\ slot' = slot + 1 /\ rest' = 0 /\ busy' \in BOOLEAN
         /\ rvalid' <=> ~busy'
         /\ rvalid' <=> slot = Timing!Useful[op] + 2
<1>1. /\ op \in {"qpi", "wrap", "read", "write"} /\ slot \in Nat /\ rest = 0 /\ ~rvalid
      /\ slot >= 1 /\ slot <= Timing!Useful[op] + 2
  BY DEF Tape, Working, Timing!Commands
<1>2. Timing!CeLow[op] > Timing!Useful[op] /\ Timing!Useful[op] \in Nat /\ Timing!CeLow[op] \in Nat
  BY <1>1, Lengths
<1>3. ~Timing!Accept
  BY DEF Timing!Accept, Timing!Ready
<1>4. slot # 2 + Timing!CeLow[op] /\ slot # 0
  BY <1>1, <1>2
<1> QED
  <2>1. Timing!OpDone <=> slot = Timing!Useful[op] + 2
    BY <1>1, <1>2 DEF Timing!OpDone
  <2>2. op' = op /\ busy' \in BOOLEAN /\ (busy' <=> ~Timing!OpDone) /\ (rvalid' <=> ~busy')
    BY <1>3, Edge, Zenon
  <2>3. slot' = slot + 1 /\ rest' = 0
    BY <1>1, <1>3, <1>4, Edge DEF Timing!RestNext
  <2> QED
    BY <2>1, <2>2, <2>3, Edge, Zenon

\* Behind the answer CE rises, and the rest is loaded.
LEMMA Answers ==
  ASSUME Tape, Timing!Driver, rvalid
  PROVE  /\ op' = op /\ ~busy' /\ ~rvalid'
         /\ op # "wrap" => slot' = 0 /\ rest' = Timing!RestCount
         /\ op = "wrap" => slot' = 6 /\ rest' = 0
<1>1. /\ op \in {"qpi", "wrap", "read", "write"} /\ slot = Timing!Useful[op] + 3
      /\ rest = 0 /\ ~busy
  BY DEF Tape, Working, Timing!Commands
<1>2. ~Timing!Accept /\ ~Timing!OpDone
  BY <1>1 DEF Timing!Accept, Timing!Ready, Timing!OpDone
<1>3. op # "wrap" => slot = 2 + Timing!CeLow[op]
  BY <1>1, Lengths
<1>4. op = "wrap" => slot = 5 /\ Timing!CeLow[op] = 4
  BY <1>1, Lengths
<1> QED
  BY <1>1, <1>2, <1>3, <1>4, Edge DEF Timing!RestNext

\* Without a command the chip rests.
LEMMA Rests ==
  ASSUME Tape, Timing!Driver, ~Working, cmd = "none"
  PROVE  /\ op' = op /\ ~busy' /\ ~rvalid' /\ slot' = 0
         /\ rest' \in 0 .. Timing!RestCount
         /\ slot = 0 => rest' = IF rest = 0 THEN 0 ELSE rest - 1
<1>1. /\ op \in {"qpi", "wrap", "read", "write"} /\ rest \in 0 .. 4
      /\ ~busy /\ ~rvalid /\ (slot = 0 \/ (op = "wrap" /\ slot = 6))
  BY DEF Tape, Working, Timing!Commands, Timing!RestCount
<1>2. ~Timing!Accept /\ ~Timing!OpDone
  BY <1>1 DEF Timing!Accept, Timing!OpDone
<1>3. CASE slot = 0
  <2>1. slot # 2 + Timing!CeLow[op]
    BY <1>1, <1>3, Lengths
  <2> QED
    BY <1>1, <1>2, <1>3, <2>1, Edge DEF Timing!RestNext, Timing!RestCount
<1>4. CASE slot = 6 /\ op = "wrap"
  <2>1. slot = 2 + Timing!CeLow[op]
    BY <1>4, Lengths
  <2> QED
    BY <1>1, <1>2, <1>4, <2>1, Edge DEF Timing!RestNext, Timing!RestCount
<1> QED
  BY <1>1, <1>3, <1>4

\* A command that is offered is taken when the chip has rested.
LEMMA Takes ==
  ASSUME Tape, Timing!Driver, ~Working, cmd # "none"
  PROVE  /\ ~rvalid' /\ (busy' <=> rest = 0) /\ busy' \in BOOLEAN
         /\ rest = 0 => op' = cmd /\ slot' = 1 /\ rest' = 0
         /\ rest # 0 => op' = op /\ slot' = 0 /\ rest' = rest - 1
<1>1. /\ op \in {"qpi", "wrap", "read", "write"} /\ rest \in 0 .. 4 /\ slot = 0
      /\ ~busy /\ ~rvalid
  BY DEF Tape, Working, Timing!Commands, Timing!RestCount
<1>2. ~Timing!OpDone /\ (Timing!Accept <=> rest = 0)
  BY <1>1 DEF Timing!Accept, Timing!OpDone, Timing!Ready
<1>3. slot # 2 + Timing!CeLow[op]
  BY <1>1, Lengths
<1> QED
  BY <1>1, <1>2, <1>3, Edge DEF Timing!RestNext

\* Nothing is offered and nothing worked on.
LEMMA NoneCurrent ==
  ASSUME Tape
  PROVE  Current = "none" <=> ~Working /\ cmd = "none"
BY DEF Tape, Current, Timing!Commands

\* How long a command takes, with the rest of the chip before it.
LEMMA TicksBounds ==
  ASSUME Tape
  PROVE  /\ rest \in 0 .. 4
         /\ Current = "none" => Ticks = rest
         /\ Current # "none" =>
              /\ Current \in Timing!Commands /\ Ticks \in Nat /\ Ticks >= 1
              /\ Ticks <= rest + Timing!Useful[Current] + 4
<1>1. rest \in 0 .. 4 /\ op \in Timing!Commands /\ cmd \in Timing!Commands \cup {"none"}
  BY DEF Tape, Timing!RestCount
<1>2. CASE Working
  <2>1. slot \in Nat /\ slot >= 1 /\ slot <= Timing!Useful[op] + 3
    BY <1>1, <1>2, Lengths DEF Tape, Working, Timing!Commands
  <2>2. Current = op /\ op # "none" /\ Timing!Useful[op] \in Nat
    <3>1. Current = op
      BY <1>2, Zenon DEF Current
    <3> QED
      BY <1>1, <3>1, Lengths DEF Timing!Commands
  <2>3. Ticks = Timing!Useful[op] + 4 - slot
    BY <1>2 DEF Ticks
  <2> QED
    BY <1>1, <2>1, <2>2, <2>3
<1>3. CASE ~Working /\ cmd = "none"
  BY <1>1, <1>3 DEF Ticks, Current
<1>4. CASE ~Working /\ cmd # "none"
  <2>1. Current = cmd /\ cmd \in Timing!Commands /\ Timing!Useful[cmd] \in Nat
    BY <1>1, <1>4, Lengths DEF Current, Timing!Commands
  <2>2. PICK u \in Nat : Timing!Useful[cmd] = u
    BY <2>1
  <2>3. Ticks = rest + u + 4
    BY <1>4, <2>2 DEF Ticks
  <2> QED
    BY <1>1, <1>4, <2>1, <2>2, <2>3
<1> QED
  BY <1>2, <1>3, <1>4

\* A command that the arbiter waits for comes one clock closer to its answer.
LEMMA Onward ==
  ASSUME Tape, Timing!Driver, Timing!Hold, Current # "none", ~rvalid
  PROVE  Tape' /\ Current' = Current /\ Ticks' = Ticks - 1
<1>1. CASE busy
  <2>1. cmd = "none" /\ rest = 0 /\ op \in Timing!Commands /\ slot \in Nat
        /\ slot >= 1 /\ slot <= Timing!Useful[op] + 2
    BY <1>1 DEF Tape, Working
  <2>2. cmd' = "none" /\ op' = op
    BY <1>1, <2>1, Works, Zenon DEF Timing!Hold
  <2>3. Working' /\ Working /\ busy' \in BOOLEAN /\ rvalid' \in BOOLEAN
    BY <1>1, Works, Edge, Zenon DEF Working
  <2>4. slot' = slot + 1 /\ rest' = 0
    BY <1>1, Works, Zenon
  <2>5. Timing!Useful[op] \in Nat
    BY <2>1, Lengths DEF Timing!Commands
  <2>6. (busy' => ~rvalid' /\ slot <= Timing!Useful[op] + 1)
        /\ (rvalid' => slot = Timing!Useful[op] + 2)
    BY <1>1, <2>1, <2>5, Works
  <2>7. Tape'
    BY <2>1, <2>2, <2>3, <2>4, <2>5, <2>6 DEF Tape, Timing!RestCount
  <2>8. Current' = Current
    BY <2>2, <2>3, Zenon DEF Current
  <2>9. Ticks' = Ticks - 1
    BY <2>1, <2>2, <2>3, <2>4, <2>5 DEF Ticks
  <2> QED
    BY <2>7, <2>8, <2>9
<1>2. CASE ~busy
  <2>1. ~Working /\ cmd \in Timing!Commands /\ cmd # "none" /\ op \in Timing!Commands
        /\ rest \in 0 .. 4
    BY <1>2, NoneCurrent DEF Tape, Working, Timing!RestCount, Timing!Commands
  <2>2. Timing!Accept <=> rest = 0
    BY <2>1 DEF Timing!Accept, Timing!Ready, Working
  <2>3. Timing!Useful[cmd] \in Nat
    BY <2>1, Lengths DEF Timing!Commands
  <2>4. CASE rest = 0
    <3>1. cmd' = "none" /\ op' = cmd /\ slot' = 1 /\ rest' = 0
      BY <2>1, <2>2, <2>4, Takes, Zenon DEF Timing!Hold
    <3>2. busy' /\ ~rvalid' /\ Working' /\ busy' \in BOOLEAN /\ rvalid' \in BOOLEAN
      BY <2>1, <2>4, Takes, Edge, Zenon DEF Working
    <3>3. Tape'
      BY <2>1, <2>3, <3>1, <3>2 DEF Tape, Timing!RestCount
    <3>4. Current' = Current
      BY <2>1, <3>1, <3>2, Zenon DEF Current
    <3>5. Ticks' = Ticks - 1
      BY <2>1, <2>3, <2>4, <3>1, <3>2 DEF Ticks
    <3> QED
      BY <3>3, <3>4, <3>5
  <2>5. CASE rest # 0
    <3>1. cmd' = cmd /\ op' = op /\ slot' = 0 /\ rest' = rest - 1
      BY <2>1, <2>2, <2>5, Takes, Zenon DEF Timing!Hold
    <3>2. ~busy' /\ ~rvalid' /\ ~Working' /\ busy' \in BOOLEAN /\ rvalid' \in BOOLEAN
      BY <2>1, <2>5, Takes, Edge, Zenon DEF Working
    <3>3. Tape'
      BY <2>1, <2>3, <2>5, <3>1, <3>2 DEF Tape, Timing!RestCount
    <3>4. Current' = Current
      BY <2>1, <3>1, <3>2, Zenon DEF Current
    <3>5. Ticks' = Ticks - 1
      BY <2>1, <2>3, <2>5, <3>1, <3>2 DEF Ticks
    <3> QED
      BY <3>3, <3>4, <3>5
  <2> QED
    BY <2>4, <2>5
<1> QED
  BY <1>1, <1>2

\* The answer leaves a chip that rests.
LEMMA Finishes ==
  ASSUME Tape, Timing!Driver, Timing!Hold, rvalid
  PROVE  /\ Tape' /\ Current' = "none" /\ Ticks = 1
         /\ rest' \in 0 .. 4
         /\ Current # "wrap" => rest' = 4 /\ slot' = 0
<1>1. cmd = "none" /\ rest = 0 /\ op \in Timing!Commands /\ slot = Timing!Useful[op] + 3
      /\ Working
  BY DEF Tape, Working
<1>2. cmd' = "none" /\ op' = op
  BY <1>1, Answers, Zenon DEF Timing!Hold
<1>3. ~busy' /\ ~rvalid' /\ ~Working' /\ busy' \in BOOLEAN /\ rvalid' \in BOOLEAN
  BY Answers, Edge, Zenon DEF Working
<1>4. /\ op # "wrap" => slot' = 0 /\ rest' = 4
      /\ op = "wrap" => slot' = 6 /\ rest' = 0
  BY Answers DEF Timing!RestCount
<1>5. Tape'
  BY <1>1, <1>2, <1>3, <1>4 DEF Tape, Timing!RestCount
<1>6. Timing!Useful[op] \in Nat
  BY <1>1, Lengths DEF Timing!Commands
<1>7. Ticks = 1
  BY <1>1, <1>6 DEF Ticks
<1>8. Current' = "none" /\ Current = op
  BY <1>1, <1>2, <1>3, Zenon DEF Current
<1> QED
  BY <1>4, <1>5, <1>7, <1>8

\* While nothing is current the chip rests, whether or not a command is offered now.
LEMMA Offers ==
  ASSUME Tape, Timing!Driver, Current = "none",
         cmd' \in Timing!Commands \cup {"none"}
  PROVE  /\ Tape' /\ Current' = cmd' /\ rest' \in 0 .. 4
         /\ slot = 0 => rest' = IF rest = 0 THEN 0 ELSE rest - 1
         /\ cmd' # "none" => Ticks' = rest' + Timing!Useful[cmd'] + 4
         /\ cmd' = "none" => Ticks' = rest'
         /\ slot' = 0
<1>1. ~Working /\ cmd = "none" /\ op \in Timing!Commands
  BY NoneCurrent DEF Tape
<1>2. /\ op' = op /\ slot' = 0 /\ rest' \in 0 .. 4
      /\ slot = 0 => rest' = IF rest = 0 THEN 0 ELSE rest - 1
  BY <1>1, Rests DEF Timing!RestCount
<1>3. ~busy' /\ ~rvalid' /\ ~Working' /\ busy' \in BOOLEAN /\ rvalid' \in BOOLEAN
  BY <1>1, Rests, Edge, Zenon DEF Working
<1>4. Tape'
  BY <1>1, <1>2, <1>3 DEF Tape, Timing!RestCount
<1>5. Current' = cmd'
  BY <1>3, Zenon DEF Current
<1>6. /\ cmd' # "none" => Ticks' = rest' + Timing!Useful[cmd'] + 4
      /\ cmd' = "none" => Ticks' = rest'
  BY <1>3 DEF Ticks
<1> QED
  BY <1>2, <1>4, <1>5, <1>6

-----------------------------------------------------------------------------
(* The arbiter.                                                            *)

\* What one clock may make of the arbiter: it stays idle, starts something, or comes
\* closer to being idle.
Stays(a) == /\ tSt = "idle" /\ tSt' = "idle" /\ (Timing!Admits(a) => ~(queued > 0))
            /\ rest' \in 0 .. 4
            /\ slot = 0 => rest' = IF rest = 0 THEN 0 ELSE rest - 1

Starts(a) ==
  /\ tSt = "idle"
  /\ \/ Timing!Admits(a) /\ tSt' = "rmw" /\ queued > 0 /\ Left' <= 57
     \/ Timing!Admits(a) /\ tSt' = "port" /\ queued = 0 /\ Left' <= 32
     \/ Timing!Served(a) /\ a = "read" /\ tSt' = "serve" /\ Left' <= 32

Proceeds ==
  /\ tSt # "idle" /\ Left' < Left
  /\ \/ tSt' = tSt /\ ~(tSt = "wait" /\ rvalid)
     \/ tSt = "rmw" /\ tSt' = "issue"
     \/ tSt = "issue" /\ tSt' = "wait"
     \/ Timing!Starting /\ Timing!Starting'
     \/ /\ tSt \in {"serve", "wait", "port", "waitWrap"} /\ tSt' = "idle"
        /\ rvalid /\ rest' <= 4

Moves(a) == Stays(a) \/ Starts(a) \/ Proceeds

\* The states that a current command excludes.
LEMMA StateOf ==
  ASSUME Tape, Jobs
  PROVE  /\ tSt \in {"idle", "issue", "boot", "bootWrap", "rmw", "serve", "port", "wait",
                     "bootQpi", "waitWrap"}
         /\ tSt \in {"idle", "issue", "boot", "bootWrap"} <=> Current = "none"
         /\ tSt \in {"issue", "boot", "bootWrap"} => slot = 0
         /\ tSt \in {"rmw", "serve"} => Current = "read"
         /\ tSt = "wait" => Current = "write"
         /\ tSt = "port" => Current \in {"read", "write"}
         /\ tSt = "bootQpi" => Current = "qpi"
         /\ tSt = "waitWrap" => Current = "wrap"
         /\ rest \in 0 .. 4
BY DEF Tape, Jobs, Timing!RestCount

\* What is under way ends within 57 clocks, a transfer of a port within 32.
LEMMA LeftBounds ==
  ASSUME Tape, Jobs
  PROVE  /\ Left \in 0 .. 57 /\ (tSt = "idle" <=> Left = 0)
         /\ tSt = "port" => Left <= 32
         /\ Timing!Starting => Left <= 28
<1>1. rest \in 0 .. 4
  BY StateOf
<1>2. CASE tSt = "idle"
  BY <1>2 DEF Left, Timing!Starting
<1>3. CASE tSt \in {"issue", "boot", "bootWrap"}
  <2>1. Ticks = rest
    BY <1>3, StateOf, TicksBounds
  <2> QED
    BY <1>1, <1>3, <2>1 DEF Left, Beyond
<1>4. CASE tSt \in {"rmw", "serve"}
  <2>1. Ticks \in 1 .. 32
    BY <1>1, <1>4, StateOf, TicksBounds, Lengths
  <2> QED
    BY <1>4, <2>1 DEF Left, Beyond, Timing!Starting
<1>5. CASE tSt \in {"port", "wait"}
  <2>1. Current = "read" \/ Current = "write"
    BY <1>5, StateOf
  <2>2. Ticks \in 1 .. 32
    BY <1>1, <2>1, TicksBounds, Lengths
  <2> QED
    BY <1>5, <2>2 DEF Left, Beyond, Timing!Starting
<1>6. CASE tSt = "bootQpi"
  <2>1. Ticks \in 1 .. 16
    BY <1>1, <1>6, StateOf, TicksBounds, Lengths
  <2> QED
    BY <1>6, <2>1 DEF Left, Beyond
<1>7. CASE tSt = "waitWrap"
  <2>1. Ticks \in 1 .. 10
    BY <1>1, <1>7, StateOf, TicksBounds, Lengths
  <2> QED
    BY <1>7, <2>1 DEF Left, Beyond
<1> QED
  BY <1>2, <1>3, <1>4, <1>5, <1>6, <1>7, StateOf

\* The bounds again, of this clock and of the next.
Bounds ==
  /\ Left \in 0 .. 57 /\ (tSt = "idle" <=> Left = 0)
  /\ tSt = "port" => Left <= 32
  /\ Timing!Starting => Left <= 28
  /\ rest \in 0 .. 4

\* In a state whose driver and arbiter agree they hold.
LEMMA BoundsHold == Tape /\ Jobs => Bounds
BY LeftBounds, StateOf DEF Bounds

\* And in the next one.
LEMMA BoundsNext == Tape' /\ Jobs' => Bounds'
BY BoundsHold, PTL

\* The chip is brought up, command by command.
LEMMA BootMoves ==
  ASSUME NEW a, Tape, Jobs, ~tPark, Timing!Driver, Timing!Boot
  PROVE  Tape' /\ Jobs' /\ ~tPark' /\ Moves(a)
<1>1. CASE tSt = "boot" /\ tSt' = "bootQpi" /\ Timing!Offer("qpi") /\ tPark' = tPark
  <2>1. Current = "none" /\ slot = 0 /\ rest \in 0 .. 4
    BY <1>1, StateOf
  <2>2. cmd' = "qpi"
    BY <1>1 DEF Timing!Offer
  <2>3. /\ Tape' /\ Current' = "qpi" /\ rest' = IF rest = 0 THEN 0 ELSE rest - 1
        /\ Ticks' = rest' + Timing!Useful["qpi"] + 4
    BY <2>1, <2>2, Offers DEF Timing!Commands
  <2>4. Left = rest + 24
    BY <1>1, <2>1, NoneCurrent DEF Left, Ticks, Beyond
  <2>5. Left' = rest' + 23
    BY <1>1, <2>1, <2>3, Lengths DEF Left, Beyond
  <2> QED
    BY <1>1, <2>1, <2>3, <2>4, <2>5 DEF Jobs, Moves, Proceeds, Timing!Starting
<1>2. CASE tSt = "bootWrap" /\ tSt' = "waitWrap" /\ Timing!Offer("wrap") /\ tPark' = tPark
  <2>1. Current = "none" /\ slot = 0 /\ rest \in 0 .. 4
    BY <1>2, StateOf
  <2>2. cmd' = "wrap"
    BY <1>2 DEF Timing!Offer
  <2>3. /\ Tape' /\ Current' = "wrap" /\ rest' = IF rest = 0 THEN 0 ELSE rest - 1
        /\ Ticks' = rest' + Timing!Useful["wrap"] + 4
    BY <2>1, <2>2, Offers DEF Timing!Commands
  <2>4. Left = rest + 7
    BY <1>2, <2>1, NoneCurrent DEF Left, Ticks, Beyond
  <2>5. Left' = rest' + 6
    BY <1>2, <2>1, <2>3, Lengths DEF Left, Beyond
  <2> QED
    BY <1>2, <2>1, <2>3, <2>4, <2>5 DEF Jobs, Moves, Proceeds, Timing!Starting
<1> QED
  BY <1>1, <1>2 DEF Timing!Boot

\* What an idle arbiter starts.
LEMMA StartMoves ==
  ASSUME NEW a, Tape, Jobs, ~tPark, Timing!Driver,
         ~(tSt = "issue" /\ Timing!Served(a)),
         Timing!Serve(a) \/ Timing!AdmitParked(a) \/ Timing!AdmitRmw(a) \/ Timing!AdmitPort(a)
  PROVE  Tape' /\ Jobs' /\ ~tPark' /\ Moves(a)
<1>1. CASE Timing!Serve(a)
  <2>1. tSt = "idle" /\ tSt' = "serve" /\ cmd' = "read" /\ ~tPark'
    BY <1>1 DEF Timing!Serve, Timing!Offer
  <2>2. Timing!Served(a) /\ a = "read"
    BY <1>1 DEF Timing!Serve
  <2>3. Current = "none"
    BY <2>1, StateOf
  <2>4. /\ Tape' /\ Current' = "read" /\ rest' \in 0 .. 4
        /\ Ticks' = rest' + Timing!Useful["read"] + 4
    BY <2>1, <2>3, Offers DEF Timing!Commands
  <2>5. Left' = rest' + 28
    BY <2>1, <2>4, Lengths DEF Left, Beyond
  <2>6. Left' <= 32
    <3>1. PICK r \in 0 .. 4 : rest' = r
      BY <2>4
    <3> QED
      BY <2>5, <3>1
  <2>7. Jobs'
    BY <2>1, <2>4 DEF Jobs
  <2>8. Starts(a)
    BY <2>1, <2>2, <2>6, Zenon DEF Starts
  <2> QED
    BY <2>1, <2>4, <2>7, <2>8, Zenon DEF Moves
<1>2. CASE Timing!AdmitParked(a)
  BY <1>2 DEF Timing!AdmitParked
<1>3. CASE Timing!AdmitRmw(a)
  <2>1. tSt = "idle" /\ tSt' = "rmw" /\ cmd' = "read" /\ ~tPark' /\ queued > 0
    BY <1>3 DEF Timing!AdmitRmw, Timing!Admits, Timing!Offer
  <2>2. Timing!Admits(a)
    BY <1>3 DEF Timing!AdmitRmw
  <2>3. Current = "none"
    BY <2>1, StateOf
  <2>4. /\ Tape' /\ Current' = "read" /\ rest' \in 0 .. 4
        /\ Ticks' = rest' + Timing!Useful["read"] + 4
    BY <2>1, <2>3, Offers DEF Timing!Commands
  <2>5. Left' = rest' + 53
    BY <2>1, <2>4, Lengths DEF Left, Beyond
  <2>6. Left' <= 57
    <3>1. PICK r \in 0 .. 4 : rest' = r
      BY <2>4
    <3> QED
      BY <2>5, <3>1
  <2>7. Jobs'
    BY <2>1, <2>4 DEF Jobs
  <2>8. Starts(a)
    BY <2>1, <2>2, <2>6, Zenon DEF Starts
  <2> QED
    BY <2>1, <2>4, <2>7, <2>8, Zenon DEF Moves
<1>4. CASE Timing!AdmitPort(a)
  <2>1. /\ tSt = "idle" /\ tSt' = "port" /\ ~tPark' /\ queued = 0
        /\ cmd' \in {"read", "write"}
    BY <1>4 DEF Timing!AdmitPort, Timing!Admits, Timing!Offer
  <2>2. Timing!Admits(a)
    BY <1>4 DEF Timing!AdmitPort
  <2>3. Current = "none"
    BY <2>1, StateOf
  <2>4. /\ Tape' /\ Current' = cmd' /\ rest' \in 0 .. 4
        /\ Ticks' = rest' + Timing!Useful[cmd'] + 4
    BY <2>1, <2>3, Offers DEF Timing!Commands
  <2>5. Left' <= 32
    <3>1. Left' = Ticks'
      BY <2>1, <2>4, Lengths DEF Left, Beyond
    <3>2. Timing!Useful[cmd'] \in {16, 24}
      BY <2>1, Lengths
    <3> QED
      BY <2>4, <3>1, <3>2
  <2>6. Jobs'
    <3>1. Current' = "read" \/ Current' = "write"
      BY <2>1, <2>4
    <3> QED
      BY <2>1, <3>1 DEF Jobs
  <2>7. Starts(a)
    BY <2>1, <2>2, <2>5, Zenon DEF Starts
  <2> QED
    BY <2>1, <2>4, <2>6, <2>7, Zenon DEF Moves
<1> QED
  BY <1>1, <1>2, <1>3, <1>4

\* The patched line goes out as soon as the chip has rested.
LEMMA IssueMoves ==
  ASSUME NEW a, Tape, Jobs, ~tPark, Timing!Driver, Timing!Issue(a)
  PROVE  Tape' /\ Jobs' /\ ~tPark' /\ Moves(a)
<1>1. tSt = "issue" /\ tSt' = "wait" /\ cmd' = "write" /\ ~tPark' /\ rest = 0
  BY DEF Timing!Issue, Timing!Offer, Timing!Ready
<1>2. Current = "none" /\ slot = 0
  BY <1>1, StateOf
<1>3. /\ Tape' /\ Current' = "write" /\ rest' = 0
      /\ Ticks' = rest' + Timing!Useful["write"] + 4
  BY <1>1, <1>2, Offers DEF Timing!Commands
<1>4. Left = 21
  BY <1>1, <1>2, NoneCurrent DEF Left, Ticks, Beyond
<1>5. Left' = 20
  BY <1>1, <1>3, Lengths DEF Left, Beyond
<1> QED
  BY <1>1, <1>3, <1>4, <1>5 DEF Jobs, Moves, Proceeds

\* The answer of the driver ends the command.
LEMMA CompletedMoves ==
  ASSUME NEW a, Tape, Jobs, ~tPark, Timing!Driver, Timing!Completed
  PROVE  Tape' /\ Jobs' /\ ~tPark' /\ Moves(a)
<1>1. /\ rvalid /\ Timing!Hold /\ ~tPark'
      /\ \/ tSt \in {"serve", "wait", "port", "waitWrap"} /\ tSt' = "idle"
         \/ tSt = "rmw" /\ tSt' = "issue"
         \/ tSt = "bootQpi" /\ tSt' = "bootWrap"
  BY DEF Timing!Completed
<1>2. /\ Tape' /\ Current' = "none" /\ Ticks = 1 /\ rest' \in 0 .. 4
      /\ Current # "wrap" => rest' = 4 /\ slot' = 0
  BY <1>1, Finishes
<1>3. Ticks' = rest'
  BY <1>2, NoneCurrent DEF Ticks, Tape, Current, Timing!Commands
<1>4. CASE tSt \in {"serve", "wait", "port", "waitWrap"} /\ tSt' = "idle"
  <2>1. Left = 1 /\ Left' = 0
    BY <1>2, <1>4 DEF Left, Beyond
  <2> QED
    BY <1>1, <1>2, <1>4, <2>1 DEF Jobs, Moves, Proceeds
<1>5. CASE tSt = "rmw" /\ tSt' = "issue"
  <2>1. Current = "read"
    BY <1>5, StateOf
  <2>2. Left = 26 /\ Left' = 25
    BY <1>2, <1>3, <1>5, <2>1 DEF Left, Beyond
  <2> QED
    BY <1>1, <1>2, <1>5, <2>1, <2>2 DEF Jobs, Moves, Proceeds
<1>6. CASE tSt = "bootQpi" /\ tSt' = "bootWrap"
  <2>1. Current = "qpi"
    BY <1>6, StateOf
  <2>2. Left = 12 /\ Left' = 11
    BY <1>2, <1>3, <1>6, <2>1 DEF Left, Beyond
  <2> QED
    BY <1>1, <1>2, <1>6, <2>1, <2>2 DEF Jobs, Moves, Proceeds, Timing!Starting
<1> QED
  BY <1>1, <1>4, <1>5, <1>6

\* While it waits, for a command or for something to do.
LEMMA WaitingMoves ==
  ASSUME NEW a, Tape, Jobs, ~tPark, Timing!Driver, Timing!Waiting(a),
         ~(tSt = "issue" /\ Timing!Served(a)), queued \in Nat
  PROVE  Tape' /\ Jobs' /\ ~tPark' /\ Moves(a)
<1>1. tSt' = tSt /\ Timing!Hold /\ ~tPark'
  BY DEF Timing!Waiting
<1>2. CASE tSt \in {"serve", "wait", "port", "rmw", "bootQpi", "waitWrap"} /\ ~rvalid
  <2>1. Current # "none"
    BY <1>2, StateOf
  <2>2. Tape' /\ Current' = Current /\ Ticks' = Ticks - 1 /\ Ticks \in Nat
    <3>1. Ticks \in Nat
      BY <2>1, TicksBounds
    <3> QED
      BY <1>1, <1>2, <2>1, <3>1, Onward
  <2>3. Beyond' = Beyond /\ Beyond \in Nat
    BY <1>1 DEF Beyond
  <2>4. Left' < Left
    BY <1>1, <1>2, <2>2, <2>3 DEF Left
  <2>5. Jobs'
    BY <1>1, <1>2, <2>2 DEF Jobs
  <2> QED
    BY <1>1, <1>2, <2>2, <2>4, <2>5 DEF Moves, Proceeds
<1>3. CASE tSt = "issue" /\ ~Timing!Ready
  <2>1. Current = "none" /\ slot = 0 /\ rest \in 0 .. 4
    BY <1>3, StateOf
  <2>2. ~Working /\ cmd = "none" /\ rest # 0
    BY <1>3, <2>1, NoneCurrent DEF Timing!Ready, Working
  <2>3. cmd' = "none"
    BY <1>1, <2>2, Zenon DEF Timing!Hold
  <2>4. /\ Tape' /\ Current' = "none" /\ rest' = rest - 1 /\ Ticks' = rest' /\ slot' = 0
    BY <2>1, <2>2, <2>3, Offers
  <2>5. Left = rest + 21 /\ Left' = rest' + 21
    BY <1>1, <1>3, <2>2, <2>4 DEF Left, Ticks, Beyond
  <2> QED
    BY <1>1, <1>3, <2>1, <2>4, <2>5 DEF Jobs, Moves, Proceeds
<1>4. CASE tSt = "idle" /\ (Timing!Admits(a) => ~tPark /\ queued = 0)
  <2>1. Current = "none" /\ cmd = "none"
    BY <1>4, StateOf, NoneCurrent
  <2>2. cmd' = "none"
    BY <1>1, <2>1, Zenon DEF Timing!Hold
  <2>3. /\ Tape' /\ Current' = "none" /\ rest' \in 0 .. 4
        /\ slot = 0 => rest' = IF rest = 0 THEN 0 ELSE rest - 1
    BY <2>1, <2>2, Offers
  <2>4. Stays(a)
    BY <1>1, <1>4, <2>3 DEF Stays
  <2> QED
    BY <1>1, <1>4, <2>3, <2>4 DEF Jobs, Moves
<1> QED
  BY <1>2, <1>3, <1>4 DEF Timing!Waiting

\* Every clock of the arbiter and the driver.
LEMMA MachineMoves ==
  ASSUME NEW a, Tape, Jobs, ~tPark, Timing!Driver, Timing!Machine(a),
         ~(tSt = "issue" /\ Timing!Served(a)), queued \in Nat
  PROVE  Tape' /\ Jobs' /\ ~tPark' /\ Moves(a)
BY BootMoves, StartMoves, IssueMoves, CompletedMoves, WaitingMoves, Zenon DEF Timing!Machine

-----------------------------------------------------------------------------
(* Time.                                                                   *)

\* A cycle is longer than the clocks up to its data.
LEMMA Ticking ==
  ASSUME t \in Nat, Timing!Cycle
  PROVE  /\ t' \in Nat
         /\ t' = t + 1 \/ (t' = 0 /\ t >= 124)
BY ClocksAssumption DEF Timing!Cycle, Timing!DataEn

\* The bus changes hands at the drive point only; what the accelerator left to be done
\* is drained.
LEMMA Handed ==
  ASSUME Scheduled, Timing!Ownership
  PROVE  /\ bus' \in {"native", "grace", "owned", "guard"} /\ tDrain' \in BOOLEAN
         /\ t # 8 => bus' = bus
         /\ Timing!Owned => tDrain' /\ bus' \in {"owned", "guard"}
         /\ tDrain /\ ~(tSt = "idle" /\ cmd = "none" /\ Timing!Ready) => tDrain'
         /\ tDrain' => Timing!Owned
                      \/ (tDrain /\ ~(tSt = "idle" /\ cmd = "none" /\ Timing!Ready))
<1>1. /\ bus' \in {"native", "grace", "owned", "guard"}
      /\ t # 8 => bus' = bus
      /\ bus = "owned" => bus' \in {"owned", "guard"}
  BY DEF Scheduled, Timing!Ownership, Timing!Handover, Timing!DriveEn
<1>2. tDrain' \in BOOLEAN
  <2>1. (Timing!Owned \/ (tDrain /\ ~(tSt = "idle" /\ cmd = "none" /\ Timing!Ready)))
           \in BOOLEAN
    BY Zenon
  <2> QED
    BY <2>1, Zenon DEF Timing!Ownership
<1>3. tDrain' <=> Timing!Owned
                  \/ (tDrain /\ ~(tSt = "idle" /\ cmd = "none" /\ Timing!Ready))
  BY Zenon DEF Timing!Ownership
<1> QED
  BY <1>1, <1>2, <1>3, Zenon DEF Timing!Owned

\* A chip that drains comes closer to rest.
LEMMA QuietFalls ==
  ASSUME NEW a, Tape, Jobs, Tape', Jobs', Moves(a), ~Timing!Owned, tDrain,
         ~(tSt = "idle" /\ cmd = "none" /\ Timing!Ready)
  PROVE  /\ Stays(a) \/ Proceeds
         /\ Quiet \in Nat /\ Quiet' \in Nat /\ Quiet' < Quiet
<1>1. ~Timing!Admits(a) /\ ~Timing!Served(a)
  BY DEF Timing!Admits, Timing!CanAdmit, Timing!Served
<1>2. Stays(a) \/ Proceeds
  BY <1>1, Zenon DEF Moves, Starts
<1>3. PICK r \in 0 .. 4 : rest' = r
  BY StateOf DEF Tape, Timing!RestCount
<1>4. PICK l \in 0 .. 57 : Left' = l /\ (tSt' = "idle" <=> l = 0)
  BY BoundsNext DEF Bounds
<1>5. rest \in 0 .. 4 /\ Left \in 0 .. 57 /\ (tSt = "idle" <=> Left = 0)
  BY StateOf, LeftBounds
<1>6. CASE Stays(a)
  <2>1. tSt = "idle" /\ tSt' = "idle"
    BY <1>6 DEF Stays
  <2>2. ~Working /\ cmd = "none"
    BY <2>1, StateOf, NoneCurrent
  <2>3. rest # 0
    BY <2>1, <2>2 DEF Timing!Ready, Working
  <2>4. slot = 0
    BY <2>2, <2>3 DEF Tape
  <2>5. r = rest - 1
    BY <1>3, <1>5, <1>6, <2>3, <2>4 DEF Stays
  <2>6. Quiet = rest /\ Quiet' = r
    BY <1>3, <2>1 DEF Quiet
  <2> QED
    BY <1>2, <1>3, <1>5, <2>3, <2>5, <2>6
<1>7. CASE Proceeds
  <2>1. tSt # "idle" /\ l < Left
    BY <1>4, <1>7 DEF Proceeds
  <2>2. Quiet = Left + 4
    BY <2>1 DEF Quiet, Timing!RestCount
  <2>3. Quiet' = IF tSt' = "idle" THEN r ELSE l + 4
    BY <1>3, <1>4 DEF Quiet, Timing!RestCount
  <2> QED
    BY <1>2, <1>3, <1>4, <1>5, <2>1, <2>2, <2>3
<1> QED
  BY <1>2, <1>6, <1>7

\* What is asked of the arbiter's times holds after every clock.
LEMMA ScheduledKept ==
  ASSUME NEW a, Tape, Jobs, Scheduled, Tape', Jobs', Moves(a),
         Timing!Cycle, Timing!Ownership, Timing!Budget(a)
  PROVE  Scheduled'
<1> USE DEF Timing!DriveEn, Timing!AddrEn, Timing!SssEn, Timing!DataEn, Timing!AdmitDelay,
            Timing!AdmitWindow
<1>1. t \in Nat /\ t' \in Nat /\ (t' = t + 1 \/ (t' = 0 /\ t >= 124))
  BY Ticking DEF Scheduled
<1>2. PICK l \in 0 .. 57 : Left' = l /\ (tSt' = "idle" <=> l = 0)
  BY BoundsNext DEF Bounds
<1>3. Left \in 0 .. 57 /\ (tSt = "idle" <=> Left = 0)
  BY LeftBounds
<1>4. /\ bus' \in {"native", "grace", "owned", "guard"} /\ tDrain' \in BOOLEAN
      /\ t # 8 => bus' = bus
      /\ Timing!Owned => tDrain' /\ bus' \in {"owned", "guard"}
      /\ tDrain /\ ~(tSt = "idle" /\ cmd = "none" /\ Timing!Ready) => tDrain'
      /\ tDrain' => Timing!Owned
                   \/ (tDrain /\ ~(tSt = "idle" /\ cmd = "none" /\ Timing!Ready))
  BY Handed
<1>5. budget' \in BOOLEAN /\ (t = 25 => budget')
  <2>1. budget' = (t = 25 \/ (budget /\ ~Timing!Served(a)
                             /\ (Timing!Admits(a) => tSt' = "idle")))
    BY DEF Timing!Budget
  <2>2. (t = 25 \/ (budget /\ ~Timing!Served(a) /\ (Timing!Admits(a) => tSt' = "idle")))
           \in BOOLEAN
    BY Zenon
  <2> QED
    BY <2>1, <2>2, Zenon
<1>6. t' = 26 => budget'
  BY <1>1, <1>5
<1>7. ASSUME ~Timing!Owned', tDrain'
      PROVE  bus' = "guard" /\ t' > 8 /\ t' + Quiet' <= 70
  <2>1. CASE Timing!Owned
    <3>1. t = 8 /\ bus' = "guard" /\ t' = 9
      BY <1>1, <1>4, <1>7, <2>1 DEF Timing!Owned
    <3>2. PICK r \in 0 .. 4 : rest' = r
      BY StateOf DEF Tape, Timing!RestCount
    <3>3. Quiet' = IF tSt' = "idle" THEN r ELSE l + 4
      BY <1>2, <3>2 DEF Quiet, Timing!RestCount
    <3>4. PICK q \in 0 .. 61 : Quiet' = q
      BY <1>2, <3>2, <3>3
    <3> QED
      BY <3>1, <3>4
  <2>2. CASE ~Timing!Owned
    <3>1. tDrain /\ ~(tSt = "idle" /\ cmd = "none" /\ Timing!Ready)
      BY <1>4, <1>7, <2>2
    <3>2. bus = "guard" /\ t > 8 /\ t + Quiet <= 70
      BY <2>2, <3>1 DEF Scheduled
    <3>3. Quiet \in Nat /\ Quiet' \in Nat /\ Quiet' < Quiet
      BY <2>2, <3>1, QuietFalls
    <3>4. PICK q \in Nat : Quiet' = q
      BY <3>3
    <3>5. t' = t + 1 /\ bus' = "guard"
      BY <1>1, <1>4, <3>2, <3>3
    <3> QED
      BY <1>1, <3>2, <3>3, <3>4, <3>5
  <2> QED
    BY <2>1, <2>2
<1>8. ASSUME tSt' = "serve"
      PROVE  ~Timing!Owned' /\ ~tDrain' /\ t' > 26 /\ t' + Left' <= 60
  <2>1. CASE Starts(a)
    <3>1. Timing!Served(a) /\ Left' <= 32
      BY <1>8, <2>1 DEF Starts
    <3>2. t = 26 /\ ~Timing!Owned /\ ~tDrain
      BY <3>1 DEF Timing!Served
    <3>3. t' = 27 /\ ~Timing!Owned' /\ ~tDrain'
      BY <1>1, <1>4, <3>2 DEF Timing!Owned
    <3> QED
      BY <1>2, <3>1, <3>3
  <2>2. CASE Proceeds
    <3>1. tSt = "serve" /\ l < Left
      BY <1>2, <1>8, <2>2 DEF Proceeds, Timing!Starting
    <3>2. ~Timing!Owned /\ ~tDrain /\ t > 26 /\ t + Left <= 60
      BY <3>1 DEF Scheduled
    <3>3. t' = t + 1 /\ ~Timing!Owned' /\ ~tDrain'
      BY <1>1, <1>3, <1>4, <3>2 DEF Timing!Owned
    <3> QED
      BY <1>1, <1>2, <1>3, <3>1, <3>2, <3>3
  <2> QED
    BY <1>8, <2>1, <2>2 DEF Moves, Stays
<1>9. ASSUME ~Timing!Owned', ~tDrain', Rmw' \/ tSt' = "port"
      PROVE  t' > 29 /\ t' + Left' < 124
  <2>1. ~Timing!Owned
    BY <1>4, <1>9
  <2>2. CASE Starts(a)
    <3>1. Timing!Admits(a)
      BY <1>9, <2>2 DEF Starts, Rmw
    <3>2. t \in 29 .. 65
      BY <2>1, <3>1 DEF Timing!Admits, Timing!CanAdmit, Timing!WindowOpen
    <3>3. t' = t + 1
      BY <1>1, <3>2
    <3> QED
      BY <1>2, <3>2, <3>3
  <2>3. CASE Proceeds
    <3>1. (Rmw \/ tSt = "port") /\ tSt # "idle" /\ l < Left
      BY <1>2, <1>9, <2>3 DEF Proceeds, Rmw, Timing!Starting
    <3>2. ~tDrain
      BY <1>4, <1>9, <3>1
    <3>3. t > 29 /\ t + Left < 124
      BY <2>1, <3>1, <3>2 DEF Scheduled
    <3>4. t' = t + 1
      BY <1>1, <1>3, <3>3
    <3> QED
      BY <1>1, <1>2, <1>3, <3>1, <3>3, <3>4
  <2> QED
    BY <1>9, <2>2, <2>3 DEF Moves, Stays, Rmw
<1> QED
  BY <1>1, <1>4, <1>5, <1>6, <1>7, <1>8, <1>9 DEF Scheduled

-----------------------------------------------------------------------------
(* The room in the queue.                                                  *)

\* The line of the byte in the queue is read, patched and written without a stop.
LEMMA Rewrites ==
  ASSUME NEW a, Tape', Jobs', Tape, Jobs, Moves(a), Rmw, ~(tSt = "wait" /\ rvalid),
         t \in Nat, t' = t + 1, t + Left < 124
  PROVE  Rmw' /\ t' + Left' < 124
<1>1. PICK l \in 0 .. 57 : Left' = l
  BY BoundsNext DEF Bounds
<1>2. Left \in 0 .. 57
  BY LeftBounds
<1>3. tSt \in {"rmw", "issue", "wait"} /\ l < Left /\ tSt' \in {"rmw", "issue", "wait"}
  BY <1>1 DEF Rmw, Moves, Stays, Starts, Proceeds, Timing!Starting
<1> QED
  BY <1>1, <1>2, <1>3 DEF Rmw

\* Where background work may start it is the byte in the queue that is served, and its
\* line is written before the data of this cycle.
LEMMA Patches ==
  ASSUME NEW a, Tape', Jobs', Moves(a), Timing!Admits(a), ~Timing!Served(a), queued = 1,
         t \in Nat, t' = t + 1, t <= 65
  PROVE  Rmw' /\ t' + Left' < 124
<1>1. PICK l \in 0 .. 57 : Left' = l
  BY BoundsNext DEF Bounds
<1>2. tSt = "idle"
  BY DEF Timing!Admits
<1>3. tSt' = "rmw"
  BY <1>2 DEF Moves, Stays, Starts, Proceeds
<1> QED
  BY <1>1, <1>3 DEF Rmw

\* A byte enters the queue when it is empty, and leaves it when its line is written.
LEMMA QueueKept ==
  ASSUME NEW a, Jobs, Tape, Room, Moves(a), Timing!Queue(a)
  PROVE  /\ queued' \in {0, 1} /\ tPending' \in BOOLEAN
         /\ tPending' <=> (t = 26 /\ a = "write") \/ (tPending /\ t # 124)
         /\ tPending /\ t = 124 => queued = 0
         /\ Timing!Starting' => queued' = 0
         /\ Rmw' => queued' = 1
         /\ t # 124 /\ queued' # 0 => queued = 1 /\ ~(tSt = "wait" /\ rvalid)
<1> DEFINE Push == tPending /\ t = 124 /\ queued < QueueDepth
           Pop == tSt = "wait" /\ rvalid
<1>1. queued \in {0, 1} /\ (Pop => queued = 1) /\ (Timing!Starting => queued = 0)
  BY DEF Room, Rmw
<1>2. tPending /\ t = 124 => queued = 0 /\ ~Timing!Starting
  <2>1. Left \in 0 .. 57 /\ Quiet \in Nat
    BY LeftBounds, StateOf DEF Quiet, Timing!RestCount
  <2>2. ASSUME t = 124 PROVE ~Retiring
    BY <2>1, <2>2 DEF Retiring, WindowEnd, Timing!AddrEn, Timing!AdmitWindow, Timing!DataEn
  <2>3. ASSUME tPending, t = 124 PROVE queued = 0
    BY <2>2, <2>3 DEF Room
  <2>4. ASSUME tPending, t = 124 PROVE ~Timing!Starting
    BY <2>1, <2>4 DEF Room
  <2> QED
    BY <2>3, <2>4
<1>3. queued' = queued + (IF Push THEN 1 ELSE 0) - (IF Pop THEN 1 ELSE 0)
  BY DEF Timing!Queue, Timing!DataEn
<1>4. /\ Push => queued = 0 /\ ~Pop /\ queued' = 1 /\ ~Timing!Starting /\ t = 124
      /\ Pop => queued = 1 /\ ~Push /\ queued' = 0
      /\ ~Push /\ ~Pop => queued' = queued
  BY <1>1, <1>2, <1>3
<1>5. /\ tPending' \in BOOLEAN
      /\ tPending' <=> (t = 26 /\ a = "write") \/ (tPending /\ t # 124)
  <2>1. ((t = 26 /\ a = "write") \/ (tPending /\ t # 124)) \in BOOLEAN
    BY Zenon
  <2>2. tPending' = ((t = 26 /\ a = "write") \/ (tPending /\ t # 124))
    BY Zenon DEF Timing!Queue, Timing!SssEn, Timing!DataEn
  <2> QED
    BY <2>1, <2>2, Zenon
<1>6. Timing!Starting' => Timing!Starting /\ ~Pop
  BY StateOf DEF Moves, Stays, Starts, Proceeds, Timing!Starting
<1>7. Rmw' => queued = 1 /\ ~Pop
  BY <1>1 DEF Moves, Stays, Starts, Proceeds, Timing!Starting, Rmw, Room
<1> HIDE DEF Push, Pop
<1>8. /\ queued' \in {0, 1}
      /\ Timing!Starting' => queued' = 0
      /\ Rmw' => queued' = 1
  BY <1>1, <1>4, <1>6, <1>7
<1>9. t # 124 /\ queued' # 0 => queued = 1 /\ ~Pop
  BY <1>1, <1>4
<1> QED
  BY <1>2, <1>5, <1>8, <1>9 DEF Pop

\* The bus and its drain outside the drive point, and the budget after addr_en.
LEMMA Unhurried ==
  ASSUME NEW a, Scheduled, Timing!Ownership, Timing!Budget(a), t \in 26 .. 124
  PROVE  /\ bus' = bus /\ (Timing!Owned' <=> Timing!Owned)
         /\ ~Timing!Owned /\ ~tDrain => ~tDrain'
         /\ budget /\ ~Timing!Served(a) /\ (Timing!Admits(a) => tSt' = "idle") => budget'
<1>1. bus' = bus
  BY Handed
<1>2. budget' = (t = 25 \/ (budget /\ ~Timing!Served(a)
                           /\ (Timing!Admits(a) => tSt' = "idle")))
  BY DEF Timing!Budget, Timing!AddrEn
<1> QED
  BY <1>1, <1>2, Handed DEF Timing!Owned

\* When a write is announced, the byte that waits in the queue has its time.
LEMMA RetiringBegins ==
  ASSUME NEW a, Tape, Jobs, Scheduled, Room, Tape', Jobs', Moves(a), Timing!Cycle,
         Timing!Ownership, Timing!Budget(a), t = 26, a = "write", queued = 1,
         ~(tSt = "wait" /\ rvalid)
  PROVE  Retiring'
<1> USE DEF Timing!DriveEn, Timing!AddrEn, Timing!SssEn, Timing!DataEn, Timing!AdmitDelay,
            Timing!AdmitWindow
<1>1. t' = 27 /\ ~Timing!Served(a)
  BY Ticking DEF Timing!Served
<1>2. PICK l \in 0 .. 57 : Left' = l /\ (tSt' = "idle" <=> l = 0)
  BY BoundsNext DEF Bounds
<1>3. Left \in 0 .. 57 /\ (tSt = "idle" <=> Left = 0) /\ (tSt = "port" => Left <= 32)
  BY LeftBounds
<1>4. PICK r \in 0 .. 4 : rest' = r
  BY BoundsNext DEF Bounds
<1>5. ~Timing!Starting
  BY DEF Room
<1>6. budget /\ (Timing!Owned' <=> Timing!Owned) /\ bus' = bus
  BY <1>5, Unhurried DEF Scheduled
<1>7. tSt \in {"idle", "port", "serve"} \/ Rmw
  BY <1>5, StateOf DEF Rmw, Timing!Starting
<1>8. tSt # "serve"
  BY DEF Scheduled
<1>9. CASE Rmw
  BY <1>1, <1>3, <1>9, Rewrites DEF Retiring
<1>10. CASE tSt = "idle" /\ Timing!Owned
  <2>1. Timing!Admits(a)
    BY <1>1, <1>10 DEF Timing!Admits, Timing!CanAdmit
  <2> QED
    BY <1>1, <2>1, Patches DEF Retiring
<1>11. CASE tSt = "port" /\ Timing!Owned
  <2>1. tSt' \in {"idle", "port"} /\ l < Left
    BY <1>2, <1>11 DEF Moves, Stays, Starts, Proceeds, Timing!Starting
  <2> QED
    BY <1>1, <1>2, <1>3, <1>6, <1>11, <2>1 DEF Retiring, WindowEnd
<1>12. CASE tSt \in {"idle", "port"} /\ ~Timing!Owned
  <2>1. ~Timing!Admits(a)
    BY <1>12 DEF Timing!Admits, Timing!CanAdmit, Timing!WindowOpen
  <2>2. budget'
    BY <1>1, <1>6, <2>1, Unhurried
  <2>3. CASE tSt = "idle"
    <3>1. tSt' = "idle"
      BY <1>1, <2>1, <2>3 DEF Moves, Stays, Starts, Proceeds
    <3>2. Quiet' = r
      BY <1>4, <3>1 DEF Quiet
    <3> QED
      BY <1>1, <1>4, <1>6, <1>12, <2>2, <3>1, <3>2, Handed DEF Retiring, WindowEnd
  <2>4. CASE tSt = "port"
    <3>1. tDrain /\ ~(tSt = "idle" /\ cmd = "none" /\ Timing!Ready)
      BY <1>12, <2>4 DEF Scheduled
    <3>2. tDrain'
      BY <3>1, Handed
    <3>3. tSt' \in {"idle", "port"} /\ l < Left
      BY <1>2, <2>4 DEF Moves, Stays, Starts, Proceeds, Timing!Starting
    <3>4. Quiet' = IF tSt' = "idle" THEN r ELSE l + 4
      BY <1>2, <1>4 DEF Quiet, Timing!RestCount
    <3>5. PICK q \in 0 .. 36 : Quiet' = q
      BY <1>2, <1>3, <1>4, <2>4, <3>3, <3>4
    <3> QED
      BY <1>1, <1>6, <1>12, <2>2, <3>2, <3>3, <3>5 DEF Retiring, WindowEnd
  <2> QED
    BY <1>12, <2>3, <2>4
<1> QED
  BY <1>7, <1>8, <1>9, <1>10, <1>11, <1>12

\* And keeps it until it is written.
LEMMA RetiringGoesOn ==
  ASSUME NEW a, Tape, Jobs, Scheduled, Room, Tape', Jobs', Moves(a),
         Timing!Ownership, Timing!Budget(a), t \in 27 .. 123, t' = t + 1, queued = 1,
         ~(tSt = "wait" /\ rvalid), Retiring
  PROVE  Retiring'
<1> USE DEF Timing!DriveEn, Timing!AddrEn, Timing!SssEn, Timing!DataEn, Timing!AdmitDelay,
            Timing!AdmitWindow
<1>1. ~Timing!Served(a)
  BY DEF Timing!Served
<1>2. PICK l \in 0 .. 57 : Left' = l /\ (tSt' = "idle" <=> l = 0)
  BY BoundsNext DEF Bounds
<1>3. Left \in 0 .. 57 /\ (tSt = "idle" <=> Left = 0) /\ rest \in 0 .. 4
  BY LeftBounds, StateOf
<1>4. PICK r \in 0 .. 4 : rest' = r
  BY BoundsNext DEF Bounds
<1>5. (Timing!Owned' <=> Timing!Owned) /\ bus' = bus
  BY Unhurried
<1>6. CASE Rmw /\ t + Left < 124
  BY <1>6, Rewrites DEF Retiring
<1>7. CASE Timing!Owned /\ tSt \in {"idle", "port"} /\ t + Left <= 65
  <2>1. CASE tSt = "idle"
    <3>1. Timing!Admits(a) /\ t <= 65
      BY <1>1, <1>3, <1>7, <2>1 DEF Timing!Admits, Timing!CanAdmit
    <3> QED
      BY <1>1, <3>1, Patches DEF Retiring
  <2>2. CASE tSt = "port"
    <3>1. tSt' \in {"idle", "port"} /\ l < Left
      BY <1>2, <2>2 DEF Moves, Stays, Starts, Proceeds, Timing!Starting
    <3> QED
      BY <1>2, <1>3, <1>5, <1>7, <3>1 DEF Retiring, WindowEnd
  <2> QED
    BY <1>7, <2>1, <2>2
<1>8. CASE ~Timing!Owned /\ budget /\ ~tDrain /\ tSt = "idle" /\ t <= 65
  <2>1. CASE Timing!Admits(a)
    BY <1>1, <1>8, <2>1, Patches DEF Retiring
  <2>2. CASE ~Timing!Admits(a)
    <3>1. tSt' = "idle"
      BY <1>1, <1>8, <2>2 DEF Moves, Stays, Starts, Proceeds
    <3>2. budget' /\ ~tDrain'
      BY <1>1, <1>8, <2>2, Unhurried
    <3>3. ~(t \in 29 .. 65)
      BY <1>1, <1>8, <2>2 DEF Timing!Admits, Timing!CanAdmit, Timing!WindowOpen
    <3> QED
      BY <1>5, <1>8, <3>1, <3>2, <3>3 DEF Retiring, WindowEnd
  <2> QED
    BY <2>1, <2>2
<1>9. CASE ~Timing!Owned /\ budget /\ tDrain /\ tSt \in {"idle", "port"} /\ t + Quiet < 65
  <2>1. ~Timing!Admits(a)
    BY <1>9 DEF Timing!Admits, Timing!CanAdmit
  <2>2. budget'
    BY <1>1, <1>9, <2>1, Unhurried
  <2>3. tSt' \in {"idle", "port"}
    BY <1>1, <1>9, <2>1 DEF Moves, Stays, Starts, Proceeds, Timing!Starting
  <2>4. CASE tSt = "idle" /\ cmd = "none" /\ Timing!Ready
    <3>1. tSt' = "idle" /\ Quiet = 0 /\ ~tDrain'
      BY <1>1, <1>9, <2>1, <2>4, Handed
         DEF Moves, Stays, Starts, Proceeds, Quiet, Timing!Ready
    <3> QED
      BY <1>5, <1>9, <2>2, <3>1 DEF Retiring, WindowEnd
  <2>5. CASE ~(tSt = "idle" /\ cmd = "none" /\ Timing!Ready)
    <3>1. Quiet \in Nat /\ Quiet' \in Nat /\ Quiet' < Quiet
      BY <1>9, <2>5, QuietFalls
    <3>2. PICK q \in Nat : Quiet' = q
      BY <3>1
    <3>3. tDrain'
      BY <1>9, <2>5, Handed
    <3> QED
      BY <1>5, <1>9, <2>2, <2>3, <3>1, <3>2, <3>3 DEF Retiring, WindowEnd
  <2> QED
    BY <2>4, <2>5
<1> QED
  BY <1>6, <1>7, <1>8, <1>9 DEF Retiring, WindowEnd

\* The queue has room again before the next byte comes.
LEMMA RoomKept ==
  ASSUME NEW a, Tape, Jobs, Scheduled, Room, Tape', Jobs', ~tPark', Moves(a),
         Timing!Cycle, Timing!Ownership, Timing!Budget(a), Timing!Queue(a)
  PROVE  Room'
<1>1. /\ queued' \in {0, 1} /\ tPending' \in BOOLEAN
      /\ tPending' <=> (t = 26 /\ a = "write") \/ (tPending /\ t # 124)
      /\ Timing!Starting' => queued' = 0
      /\ Rmw' => queued' = 1
      /\ t # 124 /\ queued' # 0 => queued = 1 /\ ~(tSt = "wait" /\ rvalid)
  BY QueueKept
<1>2. t \in Nat /\ (t < 124 => t' = t + 1)
  BY Ticking DEF Scheduled
<1>3. tPending => t \in 27 .. 124
  BY DEF Room, Timing!SssEn, Timing!DataEn
<1>4. tPending' => t \in 26 .. 123 /\ t' = t + 1
  BY <1>1, <1>2, <1>3
<1>5. ASSUME tPending'
      PROVE  queued' = 0 \/ Retiring'
  <2>1. SUFFICES ASSUME queued' # 0 PROVE Retiring'
    OBVIOUS
  <2>2. queued = 1 /\ ~(tSt = "wait" /\ rvalid)
    BY <1>1, <1>4, <1>5, <2>1
  <2>3. CASE t = 26 /\ a = "write"
    BY <2>2, <2>3, RetiringBegins
  <2>4. CASE tPending /\ t # 124
    <3>1. t \in 27 .. 123 /\ t' = t + 1 /\ Retiring
      BY <1>3, <1>4, <1>5, <2>2, <2>4 DEF Room
    <3> QED
      BY <2>2, <3>1, RetiringGoesOn
  <2> QED
    BY <1>1, <1>5, <2>3, <2>4
<1>6. ASSUME Timing!Starting', tPending'
      PROVE  t' + Left' <= 60
  <2>1. PICK l \in 0 .. 57 : Left' = l
    BY BoundsNext DEF Bounds
  <2>2. Left \in 0 .. 28 /\ l < Left /\ Timing!Starting
    BY <1>6, <2>1, LeftBounds DEF Moves, Stays, Starts, Proceeds, Timing!Starting
  <2>3. t = 26 \/ (tPending /\ t + Left <= 60)
    BY <1>1, <1>6, <2>2 DEF Room
  <2> QED
    BY <1>4, <1>6, <2>1, <2>2, <2>3
<1>7. tPending' => t' \in 27 .. 124
  BY <1>4
<1> QED
  BY <1>1, <1>5, <1>6, <1>7 DEF Room, Timing!SssEn, Timing!DataEn

-----------------------------------------------------------------------------
(* The clock as a whole.                                                   *)

\* A read never finds a patched line that waits to be written.
LEMMA NeverParked ==
  ASSUME NEW a, ClockInv
  PROVE  ~(tSt = "issue" /\ Timing!Served(a))
BY DEF ClockInv, Scheduled, Timing!Served, Timing!SssEn, Timing!AddrEn, Timing!AdmitDelay, Rmw

\* At power on the chip rests and the queue is empty.
LEMMA ClockInit == Timing!Init => ClockInv
<1> SUFFICES ASSUME Timing!Init PROVE ClockInv
  OBVIOUS
<1>1. /\ t \in Nat /\ tSt = "boot" /\ budget = FALSE /\ queued = 0 /\ tPending = FALSE
      /\ tPark = FALSE /\ cmd = "none" /\ op = "qpi" /\ slot = 0 /\ busy = FALSE
      /\ rest = 0 /\ rvalid = FALSE /\ bus = "native" /\ tDrain = FALSE
  BY DEF Timing!Init, Timing!DataEn
<1>2. ~busy /\ ~rvalid /\ busy \in BOOLEAN /\ rvalid \in BOOLEAN /\ ~Working
  BY <1>1 DEF Working
<1>3. Tape
  BY <1>1, <1>2 DEF Tape, Timing!Commands, Timing!RestCount
<1>4. Jobs
  BY <1>1, <1>2 DEF Jobs, Current
<1>5. Scheduled
  BY <1>1 DEF Scheduled, Timing!Starting, Timing!Owned, Rmw
<1>6. Room
  BY <1>1 DEF Room, Timing!Starting, Rmw
<1> QED
  BY <1>3, <1>4, <1>5, <1>6 DEF ClockInv

\* Every clock keeps the invariant.
LEMMA ClockNext ==
  ASSUME ClockInv, [Timing!Next]_(Timing!vars)
  PROVE  ClockInv'
<1>1. ASSUME NEW a \in Timing!Access, Timing!Clock(a)
      PROVE  ClockInv'
  <2>1. Tape /\ Jobs /\ Scheduled /\ Room
    BY DEF ClockInv
  <2>2. /\ Timing!Cycle /\ Timing!Ownership /\ Timing!Machine(a) /\ Timing!Budget(a)
        /\ Timing!Queue(a) /\ Timing!Driver
    BY <1>1 DEF Timing!Clock
  <2>3. ~tPark /\ queued \in Nat
    BY <2>1 DEF Room
  <2>4. Tape' /\ Jobs' /\ ~tPark' /\ Moves(a)
    BY <2>1, <2>2, <2>3, NeverParked, MachineMoves
  <2>5. Scheduled'
    BY <2>1, <2>2, <2>4, ScheduledKept
  <2>6. Room'
    BY <2>1, <2>2, <2>4, RoomKept
  <2> QED
    BY <2>4, <2>5, <2>6 DEF ClockInv
<1>2. CASE UNCHANGED Timing!vars
  <2>1. /\ t' = t /\ tSt' = tSt /\ budget' = budget /\ queued' = queued
        /\ tPending' = tPending /\ tPark' = tPark /\ cmd' = cmd /\ op' = op
        /\ slot' = slot /\ busy' = busy /\ rest' = rest /\ rvalid' = rvalid
        /\ bus' = bus /\ tDrain' = tDrain
    BY <1>2 DEF Timing!vars
  <2>2. Working' = Working /\ Current' = Current /\ Rmw' = Rmw
        /\ Timing!Starting' = Timing!Starting /\ Timing!Owned' = Timing!Owned
    BY <2>1, Zenon DEF Working, Current, Rmw, Timing!Starting, Timing!Owned
  <2>3. Ticks' = Ticks /\ Beyond' = Beyond
    BY <2>1, <2>2, Zenon DEF Ticks, Beyond
  <2>4. Left' = Left
    BY <2>1, <2>3, Zenon DEF Left
  <2>5. Quiet' = Quiet
    BY <2>1, <2>4, Zenon DEF Quiet
  <2>6. Tape' /\ Jobs'
    BY <2>1, <2>2 DEF ClockInv, Tape, Jobs
  <2>7. Scheduled'
    BY <2>1, <2>2, <2>4, <2>5 DEF ClockInv, Scheduled
  <2>8. Retiring' = Retiring
    BY <2>1, <2>2, <2>4, <2>5, Zenon DEF Retiring
  <2>9. Room'
    BY <2>1, <2>2, <2>4, <2>8 DEF ClockInv, Room
  <2> QED
    BY <2>6, <2>7, <2>9 DEF ClockInv
<1> QED
  BY <1>1, <1>2 DEF Timing!Next

\* The invariant of the schedule.
THEOREM ClockInvariance == Timing!Spec => []ClockInv
<1>1. ClockInv /\ [Timing!Next]_(Timing!vars) => ClockInv'
  BY ClockNext
<1> QED
  BY ClockInit, <1>1, PTL DEF Timing!Spec

\* The runs show this schedule.
THEOREM ScheduleSide == MCSpec => Timing!Spec
<1>1. MCInit => Timing!Init
  BY DEF MCInit
<1>2. [MCNext]_<<vars, side, used, tvars>> => [Timing!Next]_(Timing!vars)
  <2>1. ASSUME MCNext PROVE Timing!Next \/ UNCHANGED tvars
    BY <2>1, Zenon DEF MCNext
  <2>2. ASSUME UNCHANGED <<vars, side, used, tvars>> PROVE UNCHANGED tvars
    BY <2>2
  <2>3. ASSUME UNCHANGED tvars PROVE UNCHANGED Timing!vars
    BY <2>3, Zenon DEF Timing!vars, tvars
  <2> QED
    BY <2>1, <2>2, <2>3, Zenon
<1> QED
  BY <1>1, <1>2, PTL DEF MCSpec, Timing!Spec

\* Every byte that the Apple reads natively is there in time, and the chip is never found
\* busy.
THEOREM ServedOnTime == Timing!Spec => []ServedInTime
<1>1. ClockInv => ServedInTime
  <2> SUFFICES ASSUME ClockInv PROVE ServedInTime
    OBVIOUS
  <2> USE DEF Timing!SssEn, Timing!DataDue, Timing!DriveEn, Timing!AddrEn, Timing!AdmitDelay
  <2>1. Tape /\ Jobs /\ Scheduled
    BY DEF ClockInv
  <2>2. Left \in 0 .. 57
    BY <2>1, LeftBounds
  <2>3. ASSUME t = 26, bus \in {"native", "grace"}, ~Timing!Starting
        PROVE  tSt \in {"idle", "issue"} /\ ~tDrain
    <3>1. ~tDrain /\ ~Timing!Owned
      BY <2>1, <2>3 DEF Scheduled, Timing!Owned
    <3>2. tSt # "serve" /\ tSt # "port" /\ ~Rmw
      BY <2>1, <2>3, <3>1 DEF Scheduled
    <3> QED
      BY <2>1, <2>3, <3>1, <3>2, StateOf DEF Rmw, Timing!Starting
  <2>4. ASSUME tSt = "serve"
        PROVE  t \in 27 .. 90
    BY <2>1, <2>2, <2>4 DEF Scheduled
  <2> QED
    BY <2>3, <2>4 DEF ServedInTime, Timing!ServedInTime
<1> QED
  BY ClockInvariance, <1>1, PTL

\* The write queue has room for every byte the Apple writes, with a single entry.
THEOREM RoomForWrites == Timing!Spec => []NoWriteDropped
<1>1. ClockInv => NoWriteDropped
  <2> SUFFICES ASSUME ClockInv, tPending, t = Timing!DataEn PROVE queued < QueueDepth
    BY DEF NoWriteDropped, Timing!NoWriteDropped
  <2>1. Left \in 0 .. 57 /\ Quiet \in Nat
    BY LeftBounds, StateOf DEF ClockInv, Quiet, Timing!RestCount
  <2>2. ~Retiring
    BY <2>1 DEF Retiring, WindowEnd, Timing!AddrEn, Timing!AdmitWindow, Timing!DataEn
  <2>3. queued = 0
    BY <2>2 DEF ClockInv, Room
  <2> QED
    BY <2>3, ClocksAssumption
<1> QED
  BY ClockInvariance, <1>1, PTL

=============================================================================
