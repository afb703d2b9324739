----------------------------- MODULE MCServices -----------------------------
(***************************************************************************)
(* Three services of CPU0's main loop for TLC; a behaviour shows one of    *)
(* them.  rom: VideoRom, the exchange of the character ROM with CPU1.      *)
(* reboot: FirmwareSwitch, the way to the reset that starts another        *)
(* firmware.  net: HttpService, the HTTP client and its users.             *)
(***************************************************************************)
EXTENDS VideoRom

CONSTANTS Size, Ring, MaxRedirects      \* of HttpService

VARIABLES
  shown,    \* which of the three this behaviour shows
  \* FirmwareSwitch
  job, step, did, active, fault, machine, dma, res, isolated, paused, booter, worker,
  wished, command, track, image, stale,
  \* HttpService
  hs, owner, console, code, known, redirects, got, ring, consumed, owns, saved, rxRestore,
  restorePending, cancelPending, chip, slot, wanted, ns, request, handoff, wantsFile, ds,
  open, part, closed, written, final, us, uOwned, uFile, uCleanup, storageBusy, ftp,
  ftpSaved, usb

Reboot == INSTANCE FirmwareSwitch WITH cpu1 <- worker, asked <- wished
Net == INSTANCE HttpService

rebootVars ==
  <<job, step, did, active, fault, machine, dma, res, isolated, paused, booter, worker,
    wished, command, track, image, stale>>
netVars ==
  <<hs, owner, console, code, known, redirects, got, ring, consumed, owns, saved, rxRestore,
    restorePending, cancelPending, chip, slot, wanted, ns, request, handoff, wantsFile, ds,
    open, part, closed, written, final, us, uOwned, uFile, uCleanup, storageBusy, ftp,
    ftpSaved, usb>>

\* Those that are not shown stay in one of their initial states.
MCInit ==
  /\ shown \in {"rom", "reboot", "net"}
  /\ Init /\ Reboot!Init /\ Net!Init
  /\ shown # "rom" => buf = Whole(CHOOSE r \in Roms : TRUE)
  /\ shown # "reboot" => machine = "off" /\ dma = "none"

MCNext ==
  \/ shown = "rom" /\ Next /\ UNCHANGED <<shown, rebootVars, netVars>>
  \/ shown = "reboot" /\ Reboot!Next /\ UNCHANGED <<shown, vars, netVars>>
  \/ shown = "net" /\ Net!Next /\ UNCHANGED <<shown, vars, rebootVars>>

\* The fairness of VideoRom and of HttpService, each for its own behaviours.
MCFairness ==
  /\ WF_vars(shown = "rom" /\ Poll)
  /\ WF_vars(shown = "rom" /\ PollStep)
  /\ WF_vars(shown = "rom" /\ Frame)
  /\ WF_netVars(shown = "net" /\ \E ok \in BOOLEAN : Net!Fails(ok))
  /\ WF_netVars(shown = "net" /\ Net!Restore(TRUE))

MCSpec == MCInit /\ [][MCNext]_<<vars, shown, rebootVars, netVars>> /\ MCFairness
-----------------------------------------------------------------------------
\* A firmware switch that is given up leaves everything as it was (main.c:2423).
HoldsReturned == Reboot!HoldsReturned

\* At the reset nothing is half done or unsaved (main.c:2458).
ResetLosesNothing == Reboot!ResetLosesNothing

\* The Ethernet chip has one user, and otherwise belongs to the Apple.
EthernetHasOneUser == Net!EthernetHasOneUser

\* While a USB host has the card, no request is active and no file of a download
\* or of the updater is open or half written (main.c:1742).
CardLentAlone == Net!CardLentAlone

\* A download that gets its final name is the whole body (http_download.c:135).
DownloadIsWhole == Net!DownloadIsWhole

\* Every request gives the Ethernet slot back in the end (http_service.c:437).
EthernetComesBack == Net!EthernetComesBack
=============================================================================
