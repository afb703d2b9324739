-------------------------------- MODULE PsDma --------------------------------
(***************************************************************************)
(* The driver of the copy engine, lib/psdma.c, on CPU0's main loop, over   *)
(* the engine clocked underneath.  At each edge the processor takes at     *)
(* most one step; what it writes to a register arrives at that edge, and   *)
(* what it reads of STATUS is the value before it.  Time enters only as    *)
(* the choice to give up: a poll may find its limit passed at any moment.  *)
(* The caller's keep_running is another free choice.                       *)
(***************************************************************************)
EXTENDS DmaEngine

VARIABLES
  pc,     \* where psdma_transfer_checked is
  owner,  \* g_psdma_owner: none, a transfer's, or psdma_acquire's
  wanted, \* the arguments of the transfer
  result, \* what the last transfer returned
  why     \* what the running one returns if its abort succeeds

dvars == <<pc, owner, wanted, result, why>>
vars == <<evars, dvars>>

\* The arguments psdma_transfer_checked lets pass: whole lines and beats.
Accepted == {q \in Requests : q.mc % W = 0 /\ q.len % W = 0}

\* psdma_claim, then the first keep_running.
Claim(q) ==
  /\ pc = "idle" /\ owner = "none" /\ wanted' = q /\ UNCHANGED why
  /\ \/ pc' = "status" /\ owner' = "transfer" /\ result' = "none"
     \/ result' = "cancelled" /\ UNCHANGED <<pc, owner>>

Return(code) == pc' = "idle" /\ owner' = "none" /\ result' = code /\ UNCHANGED <<wanted, why>>

AbortFor(code) == pc' = "abort" /\ why' = code /\ UNCHANGED <<owner, wanted, result>>

\* Mutant: the command left behind is taken for over.
Mut_CheckBusy_blind ==
  pc = "status" /\ pc' = "go" /\ UNCHANGED <<owner, wanted, result, why>>

\* A command left behind by a transfer that gave up is aborted first.
CheckBusy ==
  /\ pc = "status"
  /\ IF busy THEN AbortFor("busy")
     ELSE pc' = "go" /\ UNCHANGED <<owner, wanted, result, why>>

Kick == pc = "go" /\ pc' = "poll" /\ UNCHANGED <<owner, wanted, result, why>>

Poll ==
  /\ pc = "poll"
  /\ \/ AbortFor("cancelled")                                  \* keep_running
     \/ complete /\ Return("ok")
     \/ ~complete /\ aborted /\ ~busy /\ Return("abort")
     \/ ~complete /\ ~(aborted /\ ~busy) /\ AbortFor("timeout")
     \/ ~complete /\ ~(aborted /\ ~busy) /\ UNCHANGED dvars

AskAbort == pc = "abort" /\ pc' = "drain" /\ UNCHANGED <<owner, wanted, result, why>>

\* psdma_abort_owned: BUSY clear is success, a second limit is not.
AwaitDrain ==
  /\ pc = "drain"
  /\ \/ ~busy /\ Return(why)
     \/ busy /\ Return("abort")
     \/ busy /\ UNCHANGED dvars

\* psdma_acquire and psdma_release around work on the memories themselves.
Reserve ==
  /\ pc = "idle" /\ owner = "none" /\ ~busy
  /\ owner' = "reserved" /\ UNCHANGED <<pc, wanted, result, why>>

Release == owner = "reserved" /\ owner' = "none" /\ UNCHANGED <<pc, wanted, result, why>>

Driver ==
  \/ \E q \in Accepted : calls < MaxCalls /\ Claim(q)
  \/ CheckBusy \/ Poll \/ AwaitDrain \/ Reserve \/ Release

DriverInit ==
  /\ pc = "idle" /\ owner = "none" /\ result = "none" /\ why = "none"
  /\ wanted = cmd

PsInit == Init /\ DriverInit

Step == (Driver \/ UNCHANGED dvars) /\ Edge(NoWrite)
KickEdge == Kick /\ Edge(Go(wanted))
AbortEdge == AskAbort /\ Edge(AbortWrite)

PsNext == Step \/ KickEdge \/ AbortEdge

\* Neither AXI nor the PSRAM port leaves the engine waiting for ever: while an
\* edge can move it, one of the edges to come does.
Fairness == WF_vars(PsNext /\ <<e, port>>' # <<e, port>>)

PsSpec == PsInit /\ [][PsNext]_vars /\ Fairness
-----------------------------------------------------------------------------
\* PSDMA_OK tells the truth: the bytes asked for by this call are in place, in
\* spite of aborts, late answers and commands left behind by earlier calls
\* (provided the engine began with nothing of them under way: was.clean).
OkMeansCopied ==
  result = "ok" /\ was.clean => Copied(wanted)

\* While psdma_acquire holds the engine for its owner, no command runs or is
\* waiting to run: the memories are the owner's.
ReservedIsQuiet ==
  owner = "reserved" => ~valid /\ ~busy /\ e.st \in {"idle", "abort_done"}

\* Every command given to the engine ends, done or aborted.
CommandEnds == busy ~> ~busy
=============================================================================
