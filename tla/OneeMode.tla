------------------------------- MODULE OneeMode -------------------------------
(***************************************************************************)
(* The stand-alone mode as CPU0 runs it: the supervisor of onee_service.c, *)
(* its control of the private core in vtw_service.c, and the menu row and  *)
(* saved choice of config_menu.c, over the interlock of OneeGuard.  One    *)
(* thread polls the status register far more slowly than the interlock     *)
(* settles; between reading it and writing a register the Apple's bus can  *)
(* come alive.  The settings file is replaced as a whole (ConfigFile).     *)
(***************************************************************************)
EXTENDS OneeGuard

CONSTANTS Confirm,   \* ONEE_HAZARD_CONFIRM_POLLS
          Grace      \* ONEE_RESTORE_HAZARD_GRACE_POLLS

VARIABLES
  step,      \* where CPU0 is: "idle" between two rounds of the main loop
  seen,      \* g_status: what the last read of the register showed
  posted,    \* the register write on its way: "none", "on", "off"
  manual, latched, started, intent, restore,  \* g_manual_request, g_lockout_latched,
             \* g_runtime_started, g_persisted_intent, g_restore_pending
  update,    \* the durable choice that waits to be saved: "none", "on", "off"
  confirm,   \* polls of a hazard confirmation, 0 if none is pending, else 1 + count
  waits,     \* g_restore_hazard_polls
  backoff,   \* g_runtime_retry_polls is not zero
  ctrl,      \* the core's control word: "off", "reset", "held" or "run"
  live,      \* g_onee_running of vtw_service.c
  choice,    \* the menu's copy of the choice: "on" or "off"
  loaded,    \* the settings file has been read or written since the start
  unsaved,   \* menu->onee_persist_write_failed
  card,      \* the choice in the settings file
  \* observers
  touched,   \* the pin has moved since the last poll
  streak,    \* polls in a row, up to now, before each of which the pin moved
  consent    \* someone wants the mode: chosen in the menu, or saved and not yet stopped

svars == <<step, seen, posted, manual, latched, started, intent, restore, update, confirm,
           waits, backoff, ctrl, live, choice, loaded, unsaved, card, touched, streak, consent>>
ovars == <<gvars, svars>>

service == <<manual, latched, started, intent, restore, update, confirm, waits, backoff>>
core == <<ctrl, live>>
menu == <<choice, loaded, unsaved, card>>
observers == <<touched, streak, consent>>

MaxStreak == IF Confirm > Grace THEN Confirm ELSE Grace

\* What one read of CARD_CTRL 0x5B shows, as onee_service.c takes it apart.
Status ==
  [hazard |-> lockout, request |-> request, effective |-> run,
   ready |-> ~lockout /\ IsQuiet /\ armed /\ ~request /\ ~run /\ ~Isolated,
   confirmed |-> request /\ run /\ selected /\ ~lockout]
Nothing == [hazard |-> TRUE, request |-> FALSE, effective |-> FALSE, ready |-> FALSE,
            confirmed |-> FALSE]

\* Power-up of the card: onee_service_init, then the settings, if they can be read.
Fresh ==
  /\ step = "idle" /\ seen = Nothing /\ posted = "none"
  /\ manual = FALSE /\ latched = FALSE /\ started = FALSE
  /\ update = "none" /\ confirm = 0 /\ waits = 0 /\ backoff = FALSE
  /\ ctrl = "off" /\ live = FALSE /\ unsaved = FALSE
  /\ choice = (IF loaded THEN card ELSE "off")
  /\ intent = choice /\ restore = (choice = "on")
  /\ touched = TRUE /\ streak = 0 /\ consent = restore
Init == GuardInit /\ card \in {"on", "off"} /\ loaded \in BOOLEAN /\ Fresh

Restart ==
  /\ pin' \in BOOLEAN /\ caught' = pin'
  /\ sync' = [meta |-> FALSE, level |-> FALSE, previous |-> FALSE]
  /\ kill' = [meta |-> FALSE, level |-> FALSE] /\ calm' = 0 /\ lateness' = 0
  /\ lockout' = TRUE /\ UNCHANGED card
  /\ hold' = FALSE /\ armed' = FALSE /\ selected' = FALSE /\ run' = FALSE /\ request' = FALSE
  /\ step' = "idle" /\ seen' = Nothing /\ posted' = "none"
  /\ manual' = FALSE /\ latched' = FALSE /\ started' = FALSE
  /\ update' = "none" /\ confirm' = 0 /\ waits' = 0 /\ backoff' = FALSE
  /\ ctrl' = "off" /\ live' = FALSE /\ unsaved' = FALSE
  /\ loaded' \in BOOLEAN /\ choice' = (IF loaded' THEN card ELSE "off")
  /\ intent' = choice' /\ restore' = (choice' = "on")
  /\ touched' = TRUE /\ streak' = 0 /\ consent' = restore'
-----------------------------------------------------------------------------
\* The hardware: the pin, and one clock with the write that is on its way.
Bus ==
  /\ PinMoves \/ PinPulses
  /\ touched' = TRUE
  /\ UNCHANGED <<step, seen, posted, service, core, menu, streak, consent>>

\* A stop of the mode by the interlock uses up the consent.
Tick ==
  /\ Clock(posted) /\ posted' = "none"
  /\ consent' = (consent /\ ~(lockout /\ request))
  /\ UNCHANGED <<step, seen, service, core, menu, touched, streak>>
-----------------------------------------------------------------------------
CanStep == posted = "none"
Go(s) == CanStep /\ step' = s

\* Mutant: a stop leaves a pending restore in place.
Mut_Disarm_restore(lock) ==
  /\ manual' = FALSE /\ UNCHANGED <<restore, waits>> /\ backoff' = FALSE
  /\ latched' = lock
  /\ started' = FALSE /\ ctrl' = "off" /\ live' = FALSE
  /\ posted' = "off"
  /\ consent' = FALSE

\* onee_service_disarm, with the vtw_onee_shutdown in it.  The one caller that does
\* not latch the lockout, onee_service_request_stop, has cleared it just before.
\* Whatever took the mode down, nobody wants it from here on.
Disarm(lock) ==
  /\ manual' = FALSE /\ restore' = FALSE /\ waits' = 0 /\ backoff' = FALSE
  /\ latched' = lock
  /\ started' = FALSE /\ ctrl' = "off" /\ live' = FALSE
  /\ posted' = "off"
  /\ consent' = FALSE

\* force_persisted(0): supersedes a confirmation in progress.
ForceOff == confirm' = 0 /\ intent' = "off" /\ update' = "off"

\* runtime_suspend: the core's control word is cleared, the mode stays.
Suspend == started' = FALSE /\ ctrl' = "off" /\ live' = FALSE

\* The next round of the main loop: the status register is read.
PollRead ==
  /\ step = "idle" /\ CanStep /\ (Settled \/ touched)
  /\ seen' = Status /\ touched' = FALSE
  /\ streak' = IF ~touched THEN 0 ELSE IF streak = MaxStreak THEN streak ELSE streak + 1
  /\ step' = "poll"
  /\ UNCHANGED <<gvars, posted, service, core, menu, consent>>

Polled == step = "poll" /\ CanStep
\* Every return of onee_service_poll leads to config_menu_poll_onee_mode.
Leaves == step' = "menu" /\ UNCHANGED <<gvars, seen, menu, touched, streak>>
ToMenu == Leaves /\ UNCHANGED consent

\* Not selected: stale hardware state is taken down first.
StaleOff ==
  /\ posted' = IF seen.request \/ seen.effective THEN "off" ELSE "none"
  /\ IF started THEN Suspend ELSE UNCHANGED <<started, core>>

\* Mutant: one poll with a hazard confirms it.
Mut_Confirming_once ==
  /\ Polled /\ ~manual /\ confirm # 0
  /\ StaleOff /\ ToMenu
  /\ IF ~seen.hazard THEN confirm' = 0 /\ UNCHANGED <<intent, update>>
     ELSE ForceOff
  /\ UNCHANGED <<manual, latched, restore, waits, backoff>>

\* onee_service_hazard_confirm_poll.
Confirming ==
  /\ Polled /\ ~manual /\ confirm # 0
  /\ StaleOff /\ ToMenu
  /\ IF ~seen.hazard THEN confirm' = 0 /\ UNCHANGED <<intent, update>>
     ELSE IF confirm = Confirm THEN ForceOff
     ELSE confirm' = confirm + 1 /\ UNCHANGED <<intent, update>>
  /\ UNCHANGED <<manual, latched, restore, waits, backoff>>

Unselected ==
  /\ Polled /\ ~manual /\ confirm = 0 /\ ~restore
  /\ StaleOff /\ ToMenu
  /\ UNCHANGED <<manual, latched, intent, restore, update, confirm, waits, backoff>>

\* A saved choice is restored once, as soon as the interlock is ready.
RestoreWaits ==
  /\ Polled /\ ~manual /\ confirm = 0 /\ restore /\ ~seen.ready
  /\ Leaves
  /\ IF seen.hazard /\ waits + 1 = Grace THEN Disarm(TRUE) /\ ForceOff
     ELSE /\ waits' = IF seen.hazard THEN waits + 1 ELSE 0
          /\ StaleOff
          /\ UNCHANGED <<manual, latched, intent, restore, update, confirm, backoff, consent>>

RestoreRaises ==
  /\ Polled /\ ~manual /\ confirm = 0 /\ restore /\ seen.ready
  /\ latched' = FALSE /\ manual' = TRUE /\ restore' = FALSE
  /\ waits' = 0 /\ backoff' = FALSE /\ posted' = "on"
  /\ ToMenu
  /\ UNCHANGED <<started, intent, update, confirm, core>>

\* A hazard, or a request that the interlock has taken back.
StopForHazard ==
  /\ Polled /\ manual /\ (seen.hazard \/ ~seen.request)
  /\ Disarm(TRUE) /\ confirm' = 1
  /\ Leaves
  /\ UNCHANGED <<intent, update>>

\* The mode is selected and the guard has not let it run yet.
NotEffective ==
  /\ Polled /\ manual /\ ~seen.hazard /\ seen.request /\ ~seen.effective
  /\ IF started THEN Suspend ELSE UNCHANGED <<started, core>>
  /\ backoff' = FALSE /\ ToMenu
  /\ UNCHANGED <<posted, manual, latched, intent, restore, update, confirm, waits>>

Effective == Polled /\ manual /\ ~seen.hazard /\ seen.request /\ seen.effective

\* A failed start is tried again some polls later.
BackOff ==
  /\ Effective /\ ~started /\ backoff
  /\ backoff' \in BOOLEAN /\ ToMenu
  /\ UNCHANGED <<posted, manual, latched, started, intent, restore, update, confirm, waits,
                 core>>

\* The runtime runs, or has stopped and is restarted by the next poll.
CheckRunning ==
  /\ Effective /\ started /\ ToMenu
  /\ backoff' = FALSE
  /\ \/ live /\ Status.confirmed /\ UNCHANGED <<started, core>>
     \/ Suspend
  /\ UNCHANGED <<posted, manual, latched, intent, restore, update, confirm, waits>>
-----------------------------------------------------------------------------
\* vtw_service_onee_start: each write of the control word follows a look at the guard.
CoreStep(from, to, word) ==
  /\ step = from /\ CanStep
  /\ IF Status.confirmed THEN step' = to /\ ctrl' = word /\ UNCHANGED <<live, started, backoff>>
     ELSE step' = "menu" /\ Suspend /\ backoff' = TRUE
  /\ UNCHANGED <<gvars, seen, posted, manual, latched, intent, restore, update, confirm, waits,
                 menu, observers>>

StartCore == Effective /\ ~started /\ ~backoff /\ ~live /\ CoreStep("poll", "cold", "reset")

\* The memory and the ROM are loaded under reset; then reset ends, then the hold.
LoadCold == CoreStep("cold", "release", "held")
Release == CoreStep("release", "wait", "run")

\* The core has to be seen running within the poll limit.
AwaitCore ==
  /\ step = "wait" /\ CanStep
  /\ step' = "menu"
  /\ IF Status.confirmed
     THEN \/ live' = TRUE /\ started' = TRUE /\ backoff' = FALSE /\ UNCHANGED ctrl
          \/ Suspend /\ backoff' = TRUE
     ELSE Suspend /\ backoff' = TRUE
  /\ UNCHANGED <<gvars, seen, posted, manual, latched, intent, restore, update, confirm, waits,
                 menu, observers>>
-----------------------------------------------------------------------------
\* A save of the settings with this choice: it succeeds, or fails having landed or not.
Save(v, ok) == card' \in (IF ok THEN {v} ELSE {v, card}) /\ loaded' = (loaded \/ ok)

\* Mutant: a save is acknowledged whether or not it succeeded.
Mut_MenuSave_ack(ok) ==
  /\ step = "menu" /\ CanStep /\ update # "none"
  /\ choice' = update /\ Save(update, ok)
  /\ unsaved' = ~ok /\ update' = "none"
  /\ step' = "idle"
  /\ UNCHANGED <<gvars, seen, posted, manual, latched, started, intent, restore, confirm,
                 waits, backoff, core, observers>>

\* config_menu_poll_onee_mode: a durable choice is saved, then acknowledged.
MenuSave(ok) ==
  /\ step = "menu" /\ CanStep /\ update # "none"
  /\ choice' = update /\ Save(update, ok)
  /\ unsaved' = ~ok /\ update' = IF ok THEN "none" ELSE update
  /\ step' = "idle"
  /\ UNCHANGED <<gvars, seen, posted, manual, latched, started, intent, restore, confirm,
                 waits, backoff, core, observers>>

\* Nothing to save, or the card is lent to a network client, or a retry is not due.
MenuSkip ==
  /\ step = "menu" /\ CanStep
  /\ choice' = IF update = "none" THEN choice ELSE update
  /\ step' = "idle"
  /\ UNCHANGED <<gvars, seen, posted, service, core, loaded, unsaved, card, observers>>

\* Another setting is changed: the whole file is written.
OtherEdit(ok) ==
  /\ step = "idle" /\ CanStep
  /\ Save(choice, ok)
  /\ UNCHANGED <<gvars, step, seen, posted, service, core, choice, unsaved, observers>>

\* retry_settings_if_needed: a card is inserted late; its file must not replace
\* a choice made since (onee_service_restore_persisted).
Reload ==
  /\ step = "idle" /\ CanStep /\ ~loaded
  /\ loaded' = TRUE /\ choice' = card
  /\ IF manual \/ update # "none" \/ latched \/ confirm # 0
     THEN UNCHANGED <<intent, restore, waits, update, consent>>
     ELSE /\ intent' = card /\ restore' = (card = "on") /\ waits' = 0 /\ update' = "none"
          /\ consent' = (consent \/ card = "on")
  /\ UNCHANGED <<gvars, step, seen, posted, manual, latched, started, confirm, backoff, core,
                 unsaved, card, touched, streak>>
-----------------------------------------------------------------------------
\* config_menu_toggle_onee_mode: the row turns the mode off if it is on in any form.
RowIsOn == seen.request \/ (manual /\ started /\ seen.effective) \/ (choice = "on" /\ restore)

TurnOff ==
  /\ step = "idle" /\ CanStep /\ RowIsOn
  /\ ForceOff /\ Disarm(FALSE)
  /\ unsaved' = FALSE /\ step' = "menu"
  /\ UNCHANGED <<gvars, seen, choice, loaded, card, touched, streak>>

\* Turning it on: the choice is on the card before the request may be raised.
TurnOn(ok) ==
  /\ step = "idle" /\ CanStep /\ ~RowIsOn
  /\ unsaved' = FALSE /\ Save("on", ok)
  /\ IF ok THEN choice' = "on" /\ step' = "ask"
     ELSE choice' = "off" /\ step' = "idle"
  /\ UNCHANGED <<gvars, seen, posted, service, core, observers>>

\* onee_service_request_start reads the register again, and raises the request
Raise ==
  /\ step = "ask" /\ CanStep /\ Status.ready
  /\ seen' = Status /\ step' = "menu"
  /\ manual' = TRUE /\ latched' = FALSE /\ restore' = FALSE /\ backoff' = FALSE
  /\ confirm' = 0 /\ intent' = "on" /\ update' = "none"
  /\ posted' = "on" /\ consent' = TRUE
  /\ UNCHANGED <<gvars, started, waits, core, menu, touched, streak>>

\* or makes the refusal durable.
RefuseRaise ==
  /\ step = "ask" /\ CanStep /\ ~Status.ready
  /\ seen' = Status /\ step' = "menu"
  /\ ForceOff /\ Disarm(TRUE)
  /\ UNCHANGED <<gvars, menu, touched, streak>>
-----------------------------------------------------------------------------
Poll == PollRead \/ Confirming \/ Unselected \/ RestoreWaits \/ RestoreRaises \/ StopForHazard
          \/ NotEffective \/ BackOff \/ CheckRunning \/ StartCore \/ LoadCold \/ Release
          \/ AwaitCore

Next == Bus \/ Tick \/ Poll \/ MenuSkip \/ Reload \/ TurnOff \/ Raise \/ RefuseRaise
          \/ (\E ok \in BOOLEAN : MenuSave(ok) \/ OtherEdit(ok) \/ TurnOn(ok)) \/ Restart

\* The clock runs, CPU0's loop goes round, and a save that is retried succeeds in the end.
Fairness == WF_ovars(Tick) /\ WF_ovars(Poll) /\ WF_ovars(MenuSkip)
              /\ SF_ovars(MenuSave(TRUE)) /\ WF_ovars(Raise \/ RefuseRaise)
Spec == Init /\ [][Next]_ovars /\ Fairness
-----------------------------------------------------------------------------
\* onee_service.c:576, "Quiet later does not restart it; the operator must select
\* the item again": the request rises, and the mode runs, only while someone wants
\* it (a stop that is on its way to the register can be one clock late).
NoSilentRestart ==
  [][(~request /\ request') \/ (~run /\ run') => consent \/ posted = "off"]_ovars

\* onee_service.c:12, a safety stop becomes "a durable OFF" on a hazard that lasts: the
\* supervisor gives the saved choice up only when the bus has moved before each of
\* the polls that the confirmation, or the wait of a restored choice, counts.
GlitchKeepsChoice ==
  [][step = "poll" /\ update # "off" /\ update' = "off"
       => streak >= (IF restore THEN Grace ELSE Confirm)]_ovars

\* The card's outputs come back to the Apple's bus only after a quiet bus, also when
\* the mode was stopped by the interlock.
ReleasesQuiet == [][Tick /\ Isolated /\ ~Isolated' => IsQuiet]_ovars

\* A durable OFF that the menu has taken over reaches the card, however often its save
\* fails, unless the mode is chosen again or the card is restarted without its file.
OffReachesCard ==
  choice = "off" /\ update = "off" /\ loaded ~> card = "off" \/ choice = "on" \/ ~loaded
==============================================================================
