------------------------------- MODULE MCPsDma -------------------------------
(***************************************************************************)
(* Values for TLC: lines of four bytes, bursts of two beats.  A behaviour  *)
(* has one of two requesters: psdma.c, or a processor that writes the      *)
(* registers as it likes, which reaches the offsets and lengths that the   *)
(* driver refuses and the engine handles all the same.                     *)
(***************************************************************************)
EXTENDS PsDma

CONSTANT MaxFree \* requests of the free processor

VARIABLE free    \* whether the processor writes the registers itself

\* The driver's requests are one beat and three beats long: one burst or two.
DriverRequests == [mc : {0, 4}, ddr : {0}, len : {4, 12}, rw : BOOLEAN]

\* Every offset in a line, every length up to three lines and both directions,
\* from every beat of a page: bursts begin and end on each side of a page edge.
FreeRequests == [mc : 0 .. 3, ddr : 0 .. 3, len : 1 .. 12, rw : BOOLEAN]

AllRequests == DriverRequests \cup FreeRequests

MCInit == PsInit /\ free \in BOOLEAN

DriverStep == PsNext /\ wanted' \in DriverRequests \cup {wanted}

FreeStep == Next /\ UNCHANGED dvars /\ calls' <= MaxFree /\ cmd' \in FreeRequests \cup {cmd}

MCNext == UNCHANGED free /\ IF free THEN FreeStep ELSE DriverStep

MCSpec ==
  /\ MCInit /\ [][MCNext]_<<vars, free>>
  /\ WF_<<vars, free>>(MCNext /\ <<e, port>>' # <<e, port>>)
==============================================================================
