------------------------------- MODULE MCVtw -------------------------------
(***************************************************************************)
(* The two lives of the card's private core for TLC; a behaviour shows one *)
(* of them.  bus: VtwBus, the accelerator of the Apple.  alone: OneeMode,  *)
(* the computer that runs without an Apple.  apple_top.sv excludes one by  *)
(* the other: the core's bus requests are off in ONE//e mode.              *)
(***************************************************************************)
EXTENDS VtwBus

CONSTANTS Quiet, Confirm, Grace     \* of OneeMode

ASSUME OneeAssumption == Confirm \in Nat \ {0} /\ Grace \in Nat \ {0}

VARIABLES
  life,     \* which of the two this behaviour shows
  pin, sync, caught, kill, calm, lockout, hold, armed, selected, run, request, lateness,
  step, seen, write, manual, latched, started, intent, restore, update, confirm, waits,
  backoff, ctrl, live, choice, loaded, unsaved, card, touched, streak, consent

Onee == INSTANCE OneeMode WITH posted <- write

aloneVars ==
  <<pin, sync, caught, kill, calm, lockout, hold, armed, selected, run, request, lateness,
    step, seen, write, manual, latched, started, intent, restore, update, confirm, waits,
    backoff, ctrl, live, choice, loaded, unsaved, card, touched, streak, consent>>
allVars == <<vars, life, aloneVars>>

MCInit ==
  /\ life \in {"bus", "alone"}
  /\ Init /\ Onee!Init
  /\ life = "alone" => ~iiplus /\ res
  /\ life = "bus" => ~pin /\ card = "off" /\ ~loaded

MCNext ==
  \/ life = "bus" /\ Next /\ UNCHANGED <<life, aloneVars>>
  \/ life = "alone" /\ Onee!Next /\ UNCHANGED <<life, vars>>

\* The fairness of VtwBus and of OneeMode, each for its own behaviours.
MCFairness ==
  /\ WF_vars(life = "bus" /\ DriveEn) /\ WF_vars(life = "bus" /\ Fetch)
  /\ WF_vars(life = "bus" /\ Load) /\ WF_vars(life = "bus" /\ Push)
  /\ WF_vars(life = "bus" /\ Request) /\ WF_vars(life = "bus" /\ TakeAnswer)
  /\ WF_aloneVars(life = "alone" /\ Onee!Tick)
  /\ WF_aloneVars(life = "alone" /\ Onee!Poll)
  /\ WF_aloneVars(life = "alone" /\ Onee!MenuSkip)
  /\ SF_aloneVars(life = "alone" /\ Onee!MenuSave(TRUE))
  /\ WF_aloneVars(life = "alone" /\ (Onee!Raise \/ Onee!RefuseRaise))

MCSpec == MCInit /\ [][MCNext]_allVars /\ MCFairness
-----------------------------------------------------------------------------
\* The guard stops the machine within three clocks of any change on the bus.
StopsInTime == Onee!StopsInTime

\* The mode rises only while someone wants it (onee_service.c:576).
NoSilentRestart == Onee!NoSilentRestart

\* The saved choice is given up only for a hazard that lasts (onee_service.c:12).
GlitchKeepsChoice == Onee!GlitchKeepsChoice

\* The card's outputs come back to the Apple's bus only after a quiet bus.
ReleasesQuiet == Onee!ReleasesQuiet

\* A durable OFF reaches the settings file, however often its save fails.
OffReachesCard == Onee!OffReachesCard
=============================================================================
