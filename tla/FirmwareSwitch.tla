---------------------------- MODULE FirmwareSwitch ----------------------------
(***************************************************************************)
(* control_service_firmware_switch and control_service_golden_boot_update  *)
(* of main.c: the way from a menu request to the reset that starts another *)
(* firmware, or the new Golden.  CPU0 stops the Apple, saves the media,    *)
(* commits the request and preselects Golden, and every step can fail; the *)
(* Apple, or the ONE//e core, runs on until it is stopped.  What the flash *)
(* holds is the matter of Multiboot and GoldenUpdate.                      *)
(* The guard of the connector is taken not to trip during the work.        *)
(***************************************************************************)
EXTENDS Naturals

VARIABLES
  job,        \* the request or the work in hand: "none", "switch" or "golden"
  step,       \* the next step of it; "loop" outside both functions
  did,        \* the "attempted" and "reserved" flags of the function
  active, fault,     \* g_firmware_switch_active, g_firmware_switch_fault
  machine,    \* "apple", "onee", "foreign" (no bus mastering), "off"
  dma,        \* g_psdma_owner: "none", "update" or "other"
  res,        \* the APPLE_RES bit of the accelerator's control word
  isolated,   \* the ONE//e request that only isolates the connector
  paused,     \* g_onee_pause_requested
  booter,     \* MULTIBOOT: "firmware" or "golden"
  cpu1,       \* "runs" or "held" (also after a failed attempt)
  asked,      \* a boot request is in flash
  command,    \* a SmartPort command is captured or half done
  track,      \* the Disk II track buffer holds unsaved writes
  image,      \* a SmartPort image has writes that are not synced
  stale       \* the user was told that the request could not be cleared

vars == <<job, step, did, active, fault, machine, dma, res, isolated, paused, booter, cpu1,
          asked, command, track, image, stale>>

bus == <<res, isolated, paused>>
media == <<command, track, image>>
boot == <<booter, cpu1, asked>>
status == <<active, fault, stale>>

Init ==
  /\ job = "none" /\ step = "loop" /\ did = {}
  /\ active = FALSE /\ fault = FALSE /\ stale = FALSE
  /\ machine \in {"apple", "onee", "foreign", "off"}
  /\ dma \in {"none", "other"}
  /\ res = FALSE /\ isolated = FALSE /\ paused = FALSE
  /\ booter = "firmware" /\ cpu1 = "runs" /\ asked = FALSE
  /\ command = FALSE /\ track = FALSE /\ image = FALSE
-----------------------------------------------------------------------------
\* The computer that uses the card: the Apple until it is held in reset, the
\* private core until it is paused.
Running ==
  \/ machine = "apple" /\ ~res
  \/ machine = "onee" /\ ~paused
  \/ machine = "foreign" /\ ~isolated

Executes == Running /\ command' = TRUE
            /\ UNCHANGED <<job, step, did, status, machine, dma, bus, boot, track, image>>
WritesDisk == Running /\ track' = TRUE
              /\ UNCHANGED <<job, step, did, status, machine, dma, bus, boot, command, image>>

\* The Apple is switched on: if the guard isolates the connector, it stays so.
PowerOn ==
  /\ machine = "off" /\ ~isolated /\ machine' = "foreign"
  /\ UNCHANGED <<job, step, did, status, dma, bus, boot, media>>
-----------------------------------------------------------------------------
\* The main loop, when no request waits: the services run, and the menu may pause
\* the ONE//e core (ui_sync_onee_menu_pause).
Serve ==
  /\ step = "loop" /\ job = "none" /\ ~fault
  /\ command' = FALSE /\ image' \in (IF command THEN {TRUE} ELSE {image})
  /\ track' \in {track, FALSE}
  /\ paused' \in (IF machine = "onee" THEN BOOLEAN ELSE {FALSE})
  /\ dma' \in {"none", "other"}
  /\ UNCHANGED <<job, step, did, status, machine, res, isolated, boot>>

\* menu_platform_request_firmware_switch and _golden_boot_update; the menu shows
\* the progress page from then on.
Request(j) ==
  /\ step = "loop" /\ job = "none" /\ ~fault
  /\ job' = j /\ step' = "start"
  /\ UNCHANGED <<did, status, machine, dma, bus, boot, media>>

\* Downloads, jobs, a missing image, a Golden that is not verified, a closed boot
\* menu: refused before anything is touched.
Start ==
  /\ step = "start"
  /\ \/ step' = "drain" /\ active' = TRUE
     \/ step' = "recover" /\ UNCHANGED active
  /\ UNCHANGED <<job, did, fault, stale, machine, dma, bus, boot, media>>

\* Up to 64 polls of the SmartPort service.
Drain ==
  /\ step = "drain"
  /\ \/ command' = FALSE /\ image' = (image \/ command) /\ step' = "claim"
     \/ command /\ step' = "recover" /\ UNCHANGED <<command, image>>
  /\ UNCHANGED <<job, did, status, machine, dma, bus, boot, track>>

\* psdma_acquire: not while the engine is owned or still busy.
Claim ==
  /\ step = "claim"
  /\ \/ /\ dma = "none" /\ dma' = "update" /\ did' = did \cup {"dma"} /\ step' = "hold"
     \/ step' = "recover" /\ UNCHANGED <<dma, did>>
  /\ UNCHANGED <<job, status, machine, bus, boot, media>>

\* Mutant: the hold is noted once it has been seen to work.
Mut_HoldReset_late ==
  /\ step = "hold" /\ machine = "apple"
  /\ res' = TRUE
  /\ \/ step' = "recheck" /\ did' = did \cup {"res"}
     \/ step' = "recover" /\ UNCHANGED did
  /\ UNCHANGED <<job, status, machine, dma, isolated, paused, boot, media>>

\* control_hold_apple_reset: RES# is asserted, and read back within 100 ms or not.
HoldReset ==
  /\ step = "hold" /\ machine = "apple"
  /\ res' = TRUE /\ did' = did \cup {"res"} /\ step' \in {"recheck", "recover"}
  /\ UNCHANGED <<job, status, machine, dma, isolated, paused, boot, media>>

\* control_hold_quiet_connector: only of a bus that is quiet.
HoldQuiet ==
  /\ step = "hold" /\ machine = "off"
  /\ isolated' = TRUE /\ did' = did \cup {"iso"} /\ step' \in {"recheck", "recover"}
  /\ UNCHANGED <<job, status, machine, dma, res, paused, boot, media>>

\* A bus that is not quiet; for Golden, a boot menu that has been left meanwhile.
HoldRefused ==
  /\ step = "hold" /\ (machine \in {"foreign", "off"} \/ (machine = "apple" /\ job = "golden"))
  /\ step' = "recover"
  /\ UNCHANGED <<job, did, status, machine, dma, bus, boot, media>>

\* vtw_service_onee_set_paused.
HoldPaused ==
  /\ step = "hold" /\ machine = "onee"
  /\ \/ paused' = TRUE /\ step' = "recheck"
     \/ step' = "recover" /\ UNCHANGED paused
  /\ UNCHANGED <<job, did, status, machine, dma, res, isolated, boot, media>>

\* Mutant: a command that arrives before the hold takes effect is not noticed.
Mut_Recheck_none ==
  /\ step = "recheck"
  /\ step' = "disk"
  /\ UNCHANGED <<job, did, status, machine, dma, bus, boot, media>>

\* A command that arrived before the hold took effect is refused.
Recheck ==
  /\ step = "recheck"
  /\ step' = IF command THEN "recover" ELSE "disk"
  /\ UNCHANGED <<job, did, status, machine, dma, bus, boot, media>>

\* disk2_service_flush_dirty_now, up to 64 times.
FlushDisk ==
  /\ step = "disk"
  /\ \/ track' = FALSE /\ step' = "sync"
     \/ track /\ step' = "recover" /\ UNCHANGED track
  /\ UNCHANGED <<job, did, status, machine, dma, bus, boot, command, image>>

\* config_menu_flush_settings and smartport_service_sync_sd.
SyncSd ==
  /\ step = "sync"
  /\ \/ image' = FALSE /\ step' = "commit"
     \/ step' = "recover" /\ image' \in {image, FALSE}
  /\ UNCHANGED <<job, did, status, machine, dma, bus, boot, command, track>>

\* mb_platform_prepare_request, which can fail having written the request;
\* golden_self_update_run leaves nothing to take back.
Commit ==
  /\ step = "commit"
  /\ \/ /\ job = "switch" /\ did' = did \cup {"request"}
        /\ \/ asked' = TRUE /\ step' = "register"
           \/ asked' \in {asked, TRUE} /\ step' = "recover"
     \/ job = "golden" /\ step' \in {"register", "recover"} /\ UNCHANGED <<did, asked>>
  /\ UNCHANGED <<job, status, machine, dma, bus, booter, cpu1, media>>

\* control_prepare_golden_boot: MULTIBOOT is written and read back.
Preselect ==
  /\ step = "register" /\ did' = did \cup {"register"}
  /\ \/ booter' = "golden" /\ step' = "cpu1"
     \/ booter' \in {booter, "golden"} /\ step' = "recover"
  /\ UNCHANGED <<job, status, machine, dma, bus, cpu1, asked, media>>

\* amp_hold_core1: a processor that a failed attempt reset cannot be restarted.
HoldCpu1 ==
  /\ step = "cpu1" /\ did' = did \cup {"cpu1"}
  /\ cpu1' = "held" /\ step' \in {"reset", "recover"}
  /\ UNCHANGED <<job, status, machine, dma, bus, booter, asked, media>>
-----------------------------------------------------------------------------
\* mb_platform_clear_request, of a request that may have been written.
Unask ==
  IF "request" \in did
  THEN \/ asked' = FALSE /\ stale' = FALSE
       \/ UNCHANGED asked /\ stale' = TRUE
  ELSE UNCHANGED <<asked, stale>>

\* The failure path.  What cannot be repaired, a reset processor or a boot register
\* that does not read back, keeps the machine held.
Recover ==
  /\ step = "recover"
  /\ Unask
  /\ \/ /\ booter' = (IF "register" \in did THEN "firmware" ELSE booter)
        /\ IF "cpu1" \in did THEN fault' = TRUE /\ step' = "loop"
           ELSE step' = "release" /\ UNCHANGED fault
     \/ /\ "register" \in did /\ booter' \in {booter, "firmware"}
        /\ fault' = TRUE /\ step' = "loop"
  /\ UNCHANGED <<job, did, active, machine, dma, bus, cpu1, media>>

\* Everything taken is given back; a reset Apple starts with a clean transport.
Release ==
  /\ step = "release"
  /\ step' = "loop" /\ job' = "none" /\ did' = {} /\ active' = FALSE
  /\ dma' = IF "dma" \in did THEN "none" ELSE dma
  /\ res' = (res /\ "res" \notin did)
  /\ isolated' = (isolated /\ "iso" \notin did)
  /\ command' \in (IF "res" \in did THEN {FALSE, command} ELSE {command})
  /\ UNCHANGED <<fault, stale, machine, paused, boot, track, image>>

\* Services stop, then control_reboot_preselected_golden.
Reset ==
  /\ step = "reset"
  /\ step' = "rebooted"
  /\ UNCHANGED <<job, did, status, machine, dma, bus, boot, media>>

Steps == Start \/ Drain \/ Claim \/ HoldReset \/ HoldQuiet \/ HoldRefused \/ HoldPaused
           \/ Recheck \/ FlushDisk \/ SyncSd \/ Commit \/ Preselect \/ HoldCpu1 \/ Recover
           \/ Release \/ Reset
Next == Executes \/ WritesDisk \/ PowerOn \/ Serve
          \/ (\E j \in {"switch", "golden"} : Request(j)) \/ Steps
Spec == Init /\ [][Next]_vars
-----------------------------------------------------------------------------
\* main.c:2423-2569: a switch that is given up, at whichever step, leaves the Apple, the
\* connector, the DMA engine, the worker and the boot register as they were, and no
\* request in flash unless the user was told so.
HoldsReturned ==
  step = "loop" /\ ~fault =>
    /\ ~active /\ ~res /\ ~isolated /\ dma # "update"
    /\ cpu1 = "runs" /\ booter = "firmware"
    /\ asked => stale

\* main.c:2458-2481: at the reset no SmartPort command is half done, no track and no
\* image waits to be saved, nobody can start a new one, and Golden boots next.
ResetLosesNothing ==
  step = "rebooted" =>
    /\ ~command /\ ~track /\ ~image /\ ~Running
    /\ booter = "golden" /\ cpu1 = "held" /\ dma = "update"
==============================================================================
