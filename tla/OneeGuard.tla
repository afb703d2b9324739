------------------------------- MODULE OneeGuard -------------------------------
(***************************************************************************)
(* onee_mode_safety_guard.sv and the request register of apple_top.sv: the *)
(* interlock that lets the card run as a stand-alone ONE//e only while     *)
(* nothing moves on the Apple's bus.  One lane stands for the six watched  *)
(* pins, whose flops are ORed; the power veto is tied low in this build.   *)
(***************************************************************************)
EXTENDS Naturals

CONSTANT Quiet        \* QUIET_CYCLES

VARIABLES
  pin,        \* the raw level of the lane
  sync,       \* its synchronizer: meta, level, previous
  caught,     \* raw_transition_latched: sticky, set without a clock
  kill,       \* raw_kill_sync: meta, level
  calm,       \* quiet_count
  lockout, hold, armed, selected, run,  \* the flops of those names
  request,    \* onee_request_q of the register block
  lateness    \* observer: clocks that run has outlived a change of the pin

gvars == <<pin, sync, caught, kill, calm, lockout, hold, armed, selected, run,
           request, lateness>>

GuardInit ==
  /\ pin \in BOOLEAN
  /\ sync = [meta |-> FALSE, level |-> FALSE, previous |-> FALSE]
  /\ caught = (pin # FALSE)
  /\ kill = [meta |-> FALSE, level |-> FALSE]
  /\ calm = 0
  /\ lockout = TRUE /\ hold = FALSE /\ armed = FALSE /\ selected = FALSE
  /\ run = FALSE /\ request = FALSE /\ lateness = 0

Sampled == sync.level # sync.previous     \* apple_activity_synchronized
IsQuiet == calm = Quiet                   \* apple_activity_quiet
Killed == kill.level \/ Sampled           \* safety_kill_synchronized
LockoutClear == IsQuiet /\ ~request /\ ~Sampled

\* Mutant: isolation follows the mode and is not held after a stop.
Mut_Isolated_nohold == request \/ selected

\* physical_bus_isolate: no output of the card reaches the Apple.
Isolated == request \/ selected \/ hold

\* The pin moves for good, or for less than a clock.
PinMoves ==
  /\ pin' = ~pin /\ caught' = TRUE
  /\ UNCHANGED <<sync, kill, calm, lockout, hold, armed, selected, run, request, lateness>>
PinPulses ==
  /\ ~caught /\ caught' = TRUE
  /\ UNCHANGED <<pin, sync, kill, calm, lockout, hold, armed, selected, run, request,
                 lateness>>

\* The capture flop is set whenever the pin differs from its synchronized copy.
CaughtNext ==
  caught' = \/ pin # sync.level \/ pin # sync.meta
            \/ caught /\ ~LockoutClear

Synchronizers ==
  /\ sync' = [meta |-> pin, level |-> sync.meta, previous |-> sync.level]
  /\ kill' = [meta |-> caught, level |-> kill.meta]
  /\ calm' = IF Sampled THEN 0 ELSE IF IsQuiet THEN calm ELSE calm + 1

LockoutNext ==
  /\ lockout' = (Killed \/ (lockout /\ ~LockoutClear))
  /\ hold' = IF Killed /\ (request \/ selected) THEN TRUE
             ELSE hold /\ ~LockoutClear

\* reselect_armed and onee_selected.
Selection ==
  IF lockout \/ Killed THEN armed' = FALSE /\ selected' = FALSE
  ELSE IF ~request THEN selected' = FALSE /\ armed' = (armed \/ IsQuiet)
  ELSE IF armed THEN armed' = FALSE /\ selected' = TRUE
  ELSE UNCHANGED <<armed, selected>>

\* Mutant: the run flop waits for the lockout to be seen before it stops.
Mut_RunNext_late == run' = (request /\ ~lockout /\ (run \/ selected))

RunNext == run' = (request /\ ~lockout /\ ~Killed /\ (run \/ selected))

\* A write of the register; the lockout clears it, and has the last word.
RequestNext(write) ==
  request' = IF lockout THEN FALSE ELSE IF write = "none" THEN request ELSE write = "on"

\* One clock of the guard, with the write that reaches the register in it.
Clock(write) ==
  /\ Synchronizers /\ CaughtNext /\ LockoutNext /\ Selection /\ RunNext
  /\ RequestNext(write)
  /\ lateness' = IF run' /\ caught THEN IF lateness = 3 THEN 3 ELSE lateness + 1 ELSE 0
  /\ UNCHANGED pin

\* No clock changes anything before the pin moves or the register is written.
Settled ==
  /\ sync = [meta |-> pin, level |-> pin, previous |-> pin] /\ IsQuiet
  /\ IF request THEN ~lockout /\ ~caught /\ ~kill.meta /\ ~kill.level /\ ~armed
                     /\ (selected = run)
     ELSE ~caught /\ ~kill.meta /\ ~kill.level /\ ~lockout /\ ~hold /\ armed
          /\ ~selected /\ ~run

\* A change on the Apple's bus, however short, stops the machine within three
\* clocks of the one that sees it: the capture flop and its two synchronizers.
StopsInTime == lateness <= 2
==============================================================================
