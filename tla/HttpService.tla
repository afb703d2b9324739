------------------------------ MODULE HttpService ------------------------------
(***************************************************************************)
(* The HTTP client of http_service.c and its users: the console, the       *)
(* Apple's network requests (net_service.c), the download to a file        *)
(* (http_download.c) and the online updater (online_update_service.c).     *)
(* One request at a time borrows the Ethernet chip from the Apple's slot   *)
(* 1; main.c lends the SD card to a USB host or to FTP clients.  All of it *)
(* runs in CPU0's main loop: one action is one service call of one round.  *)
(* A call of the chip or of the SD card can fail; a failed write of the    *)
(* chip's receive layout leaves any layout.                                *)
(***************************************************************************)
EXTENDS Naturals

CONSTANTS Size,         \* units in a response body
          Ring,         \* units the stream ring holds
          MaxRedirects

VARIABLES
  hs,         \* g_http.status.state; "open" is any step up to the TCP socket
  owner,      \* "console" (HTTP_OWNER_NONE), "net", "download" or "update"
  console,    \* console.active
  code,       \* status line of this response: "none" yet, "ok" (2xx), "other"
  known,      \* it gives the length of the body
  redirects, got, ring,  \* redirects followed; units received; and not yet read
  consumed,   \* the owner has read some of them
  owns, saved, rxRestore, restorePending, cancelPending, \* owns_eth, saved_mask, ...
  chip,       \* the chip's receive layout: "normal" or "update"
  slot,       \* bit of slot 1 in the slot-enable register
  wanted,     \* the same in g_card_slot_effective_mask
  ns, request,\* net.state; net.pending: "none", "start" or "cancel"
  handoff, wantsFile,    \* net.download_handoff; a download flag in net.flags
  ds, open, part, closed, written, \* download: status, its FIL, its .part, phase 2
  final,      \* units in the file under its final name, NoFile if none
  us, uOwned, uFile, uCleanup,     \* update: phase, http_owned, .part, cleanup
  storageBusy, ftp, ftpSaved, usb  \* the SD card: usb is "none", "pending" or "lent"

http == <<hs, owner, console, code, known, redirects, got, ring, consumed>>
ether == <<owns, saved, rxRestore, restorePending, cancelPending, chip, slot>>
net == <<ns, request, handoff, wantsFile>>
file == <<ds, open, part, closed, written, final>>
update == <<us, uOwned, uFile, uCleanup>>
lent == <<storageBusy, ftp, ftpSaved, usb>>
hvars == <<http, ether, wanted, net, file, update, lent>>

NoFile == Size + 1
Active == hs \in {"prepare", "open", "connect", "read"}
DownloadActive == ds \in {"waiting", "writing"} \/ open \/ part
UpdateActive == us # "idle" \/ uOwned \/ uFile \/ uCleanup

Init ==
  /\ hs = "idle" /\ owner = "console" /\ console = FALSE /\ code = "none" /\ known = FALSE
  /\ redirects = 0 /\ got = 0 /\ ring = 0 /\ consumed = FALSE
  /\ owns = FALSE /\ saved = FALSE /\ rxRestore = FALSE /\ restorePending = FALSE
  /\ cancelPending = FALSE /\ chip = "normal" /\ slot = TRUE /\ wanted = TRUE
  /\ ns = "idle" /\ request = "none" /\ handoff = FALSE /\ wantsFile = FALSE
  /\ ds = "none" /\ open = FALSE /\ part = FALSE /\ closed = FALSE /\ written = 0
  /\ final = NoFile
  /\ us = "idle" /\ uOwned = FALSE /\ uFile = FALSE /\ uCleanup = FALSE
  /\ storageBusy = FALSE /\ ftp = FALSE /\ ftpSaved = FALSE /\ usb = "none"
-----------------------------------------------------------------------------
(* The Ethernet slot                                                       *)

\* Mutant: a change of the slots during a request is not remembered.
Mut_SlotPolicy_forgets(w) ==
  /\ wanted' = w /\ slot' = (w /\ ~owns)
  /\ UNCHANGED saved

\* card_control_apply_slot_policy with http_service_filter_slot_mask.
SlotPolicy(w) ==
  /\ wanted' = w /\ slot' = (w /\ ~owns)
  /\ saved' = IF owns THEN w ELSE saved

\* release_ethernet.  The layout can fail to be restored; then nothing is given back.
Release(ok) ==
  IF owns /\ rxRestore /\ ~ok
  THEN /\ restorePending' = TRUE /\ chip' \in {"normal", "update"}
       /\ UNCHANGED <<owns, rxRestore, slot>>
  ELSE /\ owns' = FALSE /\ restorePending' = FALSE
       /\ slot' = IF owns THEN saved ELSE slot
       /\ rxRestore' = (rxRestore /\ ~owns)
       /\ chip' = IF owns /\ rxRestore THEN "normal" ELSE chip

\* finish: the request ends; it also fails when Ethernet cannot be given back.
Finish(failed, ok) ==
  /\ Release(ok)
  /\ hs' = IF failed \/ restorePending' THEN "failed" ELSE "done"

\* http_service_cancel_owned, of a request that o owns or does not.
Cancel(o, ok) ==
  IF owner # o THEN UNCHANGED <<hs, owner, ring, owns, rxRestore, restorePending,
                                cancelPending, chip, slot>>
  ELSE /\ Release(ok)
       /\ hs' = IF Active THEN "failed" ELSE hs
       /\ cancelPending' = owns'
       /\ IF owns' THEN UNCHANGED <<owner, ring>> ELSE owner' = "console" /\ ring' = 0

CanStart == owner = "console" /\ ~owns /\ ~Active /\ ~console /\ ~storageBusy /\ ~ftp

\* http_service_start_owned; a request can also be refused for its arguments.
StartFor(o) ==
  /\ hs' = "prepare" /\ owner' = o
  /\ code' = "none" /\ redirects' = 0 /\ got' = 0 /\ ring' = 0 /\ consumed' = FALSE
  /\ rxRestore' = FALSE /\ cancelPending' = FALSE
  /\ UNCHANGED known
-----------------------------------------------------------------------------
(* poll_http                                                               *)

\* Mutant: only a request that was cancelled is tried again.
Mut_Restore_cancelled(ok) ==
  /\ ~Active /\ restorePending /\ cancelPending
  /\ Release(ok)
  /\ IF ~restorePending'
     THEN owner' = "console" /\ ring' = 0 /\ cancelPending' = FALSE
     ELSE UNCHANGED <<owner, ring, cancelPending>>
  /\ UNCHANGED <<hs, console, code, known, redirects, got, consumed, saved, wanted, net, file,
                 update, lent>>

\* A slot that could not be given back is tried again.
Restore(ok) ==
  /\ ~Active /\ restorePending
  /\ Release(ok)
  /\ IF ~restorePending' /\ cancelPending
     THEN owner' = "console" /\ ring' = 0 /\ cancelPending' = FALSE
     ELSE UNCHANGED <<owner, ring, cancelPending>>
  /\ UNCHANGED <<hs, console, code, known, redirects, got, consumed, saved, wanted, net, file,
                 update, lent>>

\* The deadline, or an error in any step after the claim.
Fails(ok) ==
  /\ Active /\ Finish(TRUE, ok)
  /\ UNCHANGED <<owner, console, code, known, redirects, got, ring, consumed, saved,
                 cancelPending, wanted, net, file, update, lent>>

\* claim: the Apple's slot is switched off and the chip is set up
Claim ==
  /\ hs = "prepare" /\ hs' = "open"
  /\ owns' = TRUE /\ saved' = slot /\ slot' = FALSE /\ chip' = "normal"
  /\ UNCHANGED <<owner, console, code, known, redirects, got, ring, consumed, rxRestore,
                 restorePending, cancelPending, wanted, net, file, update, lent>>

\* or the chip does not answer; then the request fails at once, and an updater's
\* layout may have to be restored later.
ClaimFails ==
  /\ hs = "prepare" /\ hs' = "failed" /\ owner = "update"
  /\ owns' = TRUE /\ saved' = slot /\ slot' = FALSE
  /\ rxRestore' = TRUE /\ restorePending' = TRUE /\ chip' \in {"normal", "update"}
  /\ UNCHANGED <<owner, console, code, known, redirects, got, ring, consumed, cancelPending,
                 wanted, net, file, update, lent>>

\* DNS and the socket: only the updater gives socket 0 all of the receive memory,
\* and notes first that it will have to be restored.
Open ==
  /\ hs = "open" /\ hs' = "connect"
  /\ IF owner = "update" THEN rxRestore' = TRUE /\ chip' = "update"
     ELSE UNCHANGED <<rxRestore, chip>>
  /\ UNCHANGED <<owner, console, code, known, redirects, got, ring, consumed, owns, saved,
                 restorePending, cancelPending, slot, wanted, net, file, update, lent>>

OpenFails ==
  /\ hs = "open" /\ owner = "update" /\ hs' = "failed"
  /\ rxRestore' = TRUE /\ restorePending' = TRUE /\ chip' \in {"normal", "update"}
  /\ UNCHANGED <<owner, console, code, known, redirects, got, ring, consumed, owns, saved,
                 cancelPending, slot, wanted, net, file, update, lent>>

\* Connected, shaken hands and the request sent.
Connected ==
  /\ hs = "connect" /\ hs' = "read"
  /\ UNCHANGED <<owner, console, code, known, redirects, got, ring, consumed, ether, wanted,
                 net, file, update, lent>>

\* A redirect starts again; DNS needs the layout that the updater gave up.
Redirect ==
  /\ hs = "read" /\ code = "none" /\ redirects < MaxRedirects
  /\ hs' = "open" /\ redirects' = redirects + 1
  /\ rxRestore' = FALSE /\ chip' = "normal"
  /\ UNCHANGED <<owner, console, code, known, got, ring, consumed, owns, saved,
                 restorePending, cancelPending, slot, wanted, net, file, update, lent>>

Headers ==
  /\ hs = "read" /\ code = "none"
  /\ code' \in {"ok", "other"} /\ known' \in BOOLEAN
  /\ UNCHANGED <<hs, owner, console, redirects, got, ring, consumed, ether, wanted, net, file,
                 update, lent>>

\* body_sink: a full ring pauses the parser.
Receive ==
  /\ hs = "read" /\ code # "none" /\ got < Size /\ ring < Ring
  /\ got' = got + 1 /\ ring' = ring + 1
  /\ UNCHANGED <<hs, owner, console, code, known, redirects, consumed, ether, wanted, net,
                 file, update, lent>>

\* Without a length the body ends with the connection.
Complete(ok) ==
  /\ hs = "read" /\ code # "none" /\ (known => got = Size)
  /\ Finish(FALSE, ok)
  /\ UNCHANGED <<owner, console, code, known, redirects, got, ring, consumed, saved,
                 cancelPending, wanted, net, file, update, lent>>

Step == Claim \/ ClaimFails \/ Open \/ OpenFails \/ Connected \/ Redirect \/ Headers \/ Receive
          \/ \E ok \in BOOLEAN : Complete(ok) \/ Fails(ok)
-----------------------------------------------------------------------------
(* The console                                                             *)

ConsoleStart ==
  /\ CanStart /\ StartFor("console") /\ console' = TRUE
  /\ UNCHANGED <<owns, saved, restorePending, chip, slot, wanted, net, file, update, lent>>

ConsoleCancel ==
  /\ owner = "console" /\ Cancel("console", TRUE)
  /\ UNCHANGED <<console, code, known, redirects, got, consumed, saved, wanted, net, file,
                 update, lent>>

\* console_poll: everything in the ring is read; then the result is printed.
ConsolePoll ==
  /\ console /\ ring' = 0 /\ console' = Active
  /\ UNCHANGED <<hs, owner, code, known, redirects, got, consumed, ether, wanted, net, file,
                 update, lent>>
-----------------------------------------------------------------------------
(* The download to a file                                                  *)

\* cleanup of http_download.c: the FIL, then the .part, then the request.
Clean(closes, unlinks) ==
  /\ open' = (open /\ ~closes)
  /\ part' = (part /\ (open' \/ ~unlinks))
  /\ Cancel("download", TRUE)

\* http_download_fail.
DownloadFails(closes, unlinks) ==
  /\ ds # "done" /\ Clean(closes, unlinks) /\ ds' = "failed"
  /\ UNCHANGED <<closed, written, final>>

\* http_download_begin: with the handoff of the request, if none of it was read.
Begin ==
  /\ ~consumed /\ owner' = "download"
  /\ ds' = "writing" /\ closed' = FALSE /\ written' = 0
  /\ \/ open' = TRUE /\ part' = TRUE
     \/ UNCHANGED <<open, part>>          \* the name is taken: the next one, next time
  /\ UNCHANGED <<hs, ring, owns, rxRestore, restorePending, cancelPending, chip, slot, final>>

\* Mutant: an empty ring is taken for the end of a body of unknown length.
Mut_IsWhole_drained(w) == code = "ok" /\ (IF known THEN w = Size ELSE ring = 0)

\* The checks before commit, of a body of which w units are written.
IsWhole(w) == hs = "done" /\ code = "ok" /\ (known => w = Size)

\* The FIL is created if it is not there yet, and the ring is written to it.
Write(w) ==
  /\ hs # "done"
  /\ open' = TRUE /\ part' = TRUE /\ written' = w /\ ring' = 0
  /\ UNCHANGED <<ds, closed, final, hs, owner, owns, rxRestore, restorePending,
                 cancelPending, chip, slot>>

\* commit: sync, close, rename; the request is released last.
Commit(w) ==
  /\ written' = w /\ open' = FALSE /\ closed' = TRUE
  /\ \/ ds' = "done" /\ part' = FALSE /\ final' = w /\ Cancel("download", TRUE)
     \/ /\ part' = TRUE /\ ring' = 0    \* the name is taken: another one next time
        /\ UNCHANGED <<ds, final, hs, owner, owns, rxRestore, restorePending,
                       cancelPending, chip, slot>>

\* http_download_poll, when nothing in it fails.
DownloadPoll ==
  /\ ds = "writing" /\ owner = "download" /\ hs # "failed"
  /\ LET w == IF closed THEN written ELSE written + ring
     IN  IF closed \/ IsWhole(w) THEN Commit(w) ELSE Write(w)
-----------------------------------------------------------------------------
(* The Apple's network requests.  The SmartPort is not served while the SD  *)
(* card is lent.                                                           *)

Served == usb = "none" /\ ~ftp
rest == <<console, code, known, redirects, got, consumed, saved, wanted>>

\* net_service_control, NET_START: for a page or for a file (a download flag).
NetStart(toFile) ==
  /\ Served /\ ~DownloadActive
  /\ ns' = "queued" /\ request' = "start" /\ handoff' = FALSE /\ wantsFile' = toFile
  /\ ds' = IF toFile THEN "waiting" ELSE "none"
  /\ closed' = FALSE /\ written' = 0 /\ final' = NoFile
  /\ UNCHANGED <<http, ether, wanted, open, part, update, lent>>

NetCancel(closes, unlinks) ==
  /\ Served /\ ns' = "cancelled" /\ request' = "cancel"
  /\ IF ds \in {"none", "done"}
     THEN UNCHANGED <<ds, open, part, hs, owner, ring, owns, rxRestore, restorePending,
                      cancelPending, chip, slot>>
     ELSE /\ Clean(closes, unlinks)
          /\ ds' = IF open' \/ part' THEN "failed" ELSE "cancelled"
  /\ UNCHANGED <<rest, handoff, wantsFile, closed, written, final, update, lent>>

\* The Apple reads the stream of a page.
NetRead ==
  /\ Served /\ ns \in {"active", "done"} /\ ~handoff /\ ds # "waiting"
  /\ owner = "net" /\ ring > 0
  /\ ring' = 0 /\ consumed' = TRUE
  /\ UNCHANGED <<hs, owner, console, code, known, redirects, got, ether, wanted, net, file,
                 update, lent>>

\* net_service_poll, with a command: the old request is cancelled, the new one started
NetPollStarts ==
  /\ request = "start" /\ request' = "none" /\ ns' = "active"
  /\ owner = "net" \/ CanStart
  /\ ~console /\ ~storageBusy /\ ~ftp
  /\ StartFor("net")
  /\ owns' = FALSE /\ slot' = (IF owns THEN saved ELSE slot) /\ restorePending' = FALSE
  /\ UNCHANGED <<console, saved, chip, wanted, handoff, wantsFile, file, update, lent>>

\* or refused
NetPollRefused ==
  /\ request = "start" /\ request' = "none" /\ ns' = "failed"
  /\ Cancel("net", TRUE)
  /\ IF wantsFile THEN ds' = "failed" ELSE UNCHANGED ds
  /\ UNCHANGED <<rest, handoff, wantsFile, open, part, closed, written, final, update, lent>>

NetPollCancels ==
  /\ request = "cancel" /\ request' = "none"
  /\ Cancel("net", TRUE)
  /\ UNCHANGED <<rest, ns, handoff, wantsFile, file, update, lent>>

NetActive == ns = "active" /\ request = "none"

\* The request was taken away or has failed.
NetPollLost(closes, unlinks) ==
  /\ NetActive /\ ~handoff /\ (owner # "net" \/ hs = "failed")
  /\ ns' = "failed"
  /\ IF wantsFile /\ ds # "done" THEN DownloadFails(closes, unlinks)
     ELSE UNCHANGED <<file, hs, owner, ring, owns, rxRestore, restorePending, cancelPending,
                      chip, slot>>
  /\ UNCHANGED <<rest, request, handoff, wantsFile, update, lent>>

NetHeld == NetActive /\ ~handoff /\ owner = "net" /\ hs # "failed"

\* A response to be saved is handed over to the download.
NetPollHandsOff ==
  /\ NetHeld /\ ds = "waiting" /\ code = "ok" /\ hs \in {"read", "done"}
  /\ handoff' = TRUE /\ Begin
  /\ UNCHANGED <<rest, ns, request, wantsFile, update, lent>>

\* A status that is not 2xx, or a directory or a file that cannot be created.
NetPollNoFile ==
  /\ NetHeld /\ ds = "waiting" /\ code # "none"
  /\ ns' = "failed" /\ handoff' = (code = "ok")
  /\ ds' = "failed"
  /\ IF code = "ok" THEN owner' = "console" /\ ring' = 0 /\ Release(TRUE)
                         /\ hs' = (IF Active THEN "failed" ELSE hs)
     ELSE UNCHANGED <<hs, owner, ring, owns, rxRestore, restorePending, chip, slot>>
  /\ UNCHANGED <<rest, request, wantsFile, open, part, closed, written, final,
                 cancelPending, update, lent>>

\* An ordinary page after all: the Apple reads it.
NetPollPage ==
  /\ NetHeld /\ ds = "waiting" /\ code # "none"
  /\ ds' = "none" /\ ns' = IF hs = "done" THEN "done" ELSE "active"
  /\ UNCHANGED <<http, ether, wanted, request, handoff, wantsFile, open, part, closed,
                 written, final, update, lent>>

NetPollDone ==
  /\ NetHeld /\ ds # "waiting" /\ hs = "done" /\ ns' = "done"
  /\ UNCHANGED <<http, ether, wanted, request, handoff, wantsFile, file, update, lent>>

\* The download is polled, and fails or goes on.
NetPollDownload ==
  /\ NetActive /\ handoff
  /\ \/ DownloadPoll
     \/ \E c, u \in BOOLEAN : ds = "writing" /\ DownloadFails(c, u)
  /\ ns' = CASE ds' = "done" -> "done" [] ds' = "failed" -> "failed"
             [] ds' = "cancelled" -> "cancelled" [] OTHER -> "active"
  /\ UNCHANGED <<rest, request, handoff, wantsFile, update, lent>>

NetPoll == NetPollStarts \/ NetPollRefused \/ NetPollCancels \/ NetPollHandsOff
             \/ NetPollNoFile \/ NetPollPage \/ NetPollDone \/ NetPollDownload
             \/ \E c, u \in BOOLEAN : NetPollLost(c, u)
-----------------------------------------------------------------------------
(* The online updater                                                      *)

\* online_update_check, and online_update_start of a file.
UpdateStart(toFile) ==
  /\ ~UpdateActive /\ us' = IF toFile THEN "open" ELSE "start"
  /\ UNCHANGED <<http, ether, wanted, net, file, uOwned, uFile, uCleanup, lent>>

\* cleanup of online_update_service.c: the request, then the .part.
UpdateClean(ok, removes) ==
  /\ IF uOwned THEN Cancel("update", ok) /\ uOwned' = (owner = "update" /\ owns')
     ELSE UNCHANGED <<hs, owner, ring, owns, rxRestore, restorePending, cancelPending, chip,
                      slot, uOwned>>
  /\ uFile' = (uFile /\ ~removes)
  /\ uCleanup' = (uFile' \/ uOwned') /\ us' = "idle"
  /\ UNCHANGED <<rest, net, file, lent>>

UpdateRetries(ok, removes) == us = "idle" /\ uCleanup /\ UpdateClean(ok, removes)

\* An error, the user's cancellation, or a menu or SD card that is needed elsewhere.
UpdateFails(ok, removes) == us # "idle" /\ UpdateClean(ok, removes)

MayUpdate == Served /\ ~DownloadActive

UpdateOpens ==
  /\ us = "open" /\ MayUpdate /\ us' = "start" /\ uFile' = TRUE
  /\ UNCHANGED <<http, ether, wanted, net, file, uOwned, uCleanup, lent>>

UpdateRequests ==
  /\ us = "start" /\ MayUpdate /\ CanStart
  /\ StartFor("update") /\ uOwned' = TRUE /\ us' = "read"
  /\ UNCHANGED <<console, owns, saved, restorePending, chip, slot, wanted, net, file, uFile,
                 uCleanup, lent>>

UpdateReads ==
  /\ us = "read" /\ MayUpdate /\ owner = "update" /\ hs = "read" /\ code = "ok"
  /\ ring > 0 /\ ring' = 0 /\ consumed' = TRUE
  /\ UNCHANGED <<hs, owner, console, code, known, redirects, got, ether, wanted, net, file,
                 update, lent>>

\* The body is complete: the request is dropped; after the release list comes the
\* image to look at, after a file its verification.
UpdateReceived ==
  /\ us = "read" /\ MayUpdate /\ owner = "update" /\ hs = "done" /\ code = "ok"
  /\ Cancel("update", TRUE) /\ uOwned' = FALSE
  /\ us' \in (IF uFile THEN {"stage"} ELSE {"start", "idle"})
  /\ UNCHANGED <<rest, net, file, uFile, uCleanup, lent>>

\* The file is verified, closed and given its name.
UpdateStages ==
  /\ us = "stage" /\ MayUpdate /\ us' = "idle" /\ uFile' = FALSE
  /\ UNCHANGED <<http, ether, wanted, net, file, uOwned, uCleanup, lent>>

UpdatePoll == UpdateOpens \/ UpdateRequests \/ UpdateReads \/ UpdateReceived \/ UpdateStages
                \/ \E ok, r \in BOOLEAN : UpdateRetries(ok, r) \/ UpdateFails(ok, r)
-----------------------------------------------------------------------------
(* The SD card is lent                                                     *)

\* Mutant: the card is handed over whatever the clean-up says.
Mut_LendsTo_now == "lent"

\* Not before the updater and the download have closed their files.
LendsTo == IF UpdateActive \/ open' \/ part' THEN "pending" ELSE "lent"

\* control_set_usb0_sd_remote_mount(1): requests end, downloads are cleaned up, the
\* updater is cancelled (its next poll fails); tried again while it is pending.
UsbMount(ok, closes, unlinks) ==
  /\ storageBusy' = TRUE
  /\ open' = (open /\ ~closes) /\ part' = (part /\ (open' \/ ~unlinks))
  /\ IF owner # "download" /\ Active
     THEN Finish(TRUE, ok) /\ UNCHANGED <<owner, ring, cancelPending>>
     ELSE Cancel("download", TRUE)
  /\ ds' = IF open' \/ part' THEN "failed" ELSE "none"
  /\ closed' = FALSE /\ written' = 0 /\ UNCHANGED final
  /\ ns' = "idle" /\ request' = "cancel" /\ handoff' = FALSE /\ wantsFile' = FALSE
  /\ usb' = LendsTo
  /\ UNCHANGED <<rest, update, ftp, ftpSaved>>

UsbMounts(ok, closes, unlinks) == usb = "none" /\ ~ftp /\ UsbMount(ok, closes, unlinks)
UsbRetries(ok, closes, unlinks) == usb = "pending" /\ UsbMount(ok, closes, unlinks)

UsbUnmount ==
  /\ usb # "none" /\ usb' = "none" /\ storageBusy' = FALSE
  /\ UNCHANGED <<http, ether, wanted, net, file, update, ftp, ftpSaved>>

\* control_set_ethernet_ftp_sd_remote: slot 1 is off while FTP uses the chip.
FtpStart ==
  /\ usb = "none" /\ ~ftp /\ ~Active /\ ~UpdateActive /\ ~DownloadActive
  /\ ftp' = TRUE /\ ftpSaved' = wanted
  /\ SlotPolicy(FALSE)
  /\ UNCHANGED <<http, owns, rxRestore, restorePending, cancelPending, chip, net, file,
                 update, storageBusy, usb>>

FtpStop ==
  /\ ftp /\ ftp' = FALSE /\ ftpSaved' = FALSE
  /\ SlotPolicy(ftpSaved)
  /\ UNCHANGED <<http, owns, rxRestore, restorePending, cancelPending, chip, net, file,
                 update, storageBusy, usb>>

\* The user or the boot menu changes the slots; FTP's page has no such row.
SetSlot(w) ==
  /\ ~ftp /\ SlotPolicy(w)
  /\ UNCHANGED <<http, owns, rxRestore, restorePending, cancelPending, chip, net, file,
                 update, lent>>
-----------------------------------------------------------------------------
Next ==
  \/ Step \/ NetPoll \/ UpdatePoll
  \/ ConsoleStart \/ ConsoleCancel \/ ConsolePoll \/ NetRead
  \/ UsbUnmount \/ FtpStart \/ FtpStop
  \/ \E b \in BOOLEAN : Restore(b) \/ NetStart(b) \/ UpdateStart(b) \/ SetSlot(b)
  \/ \E c, u \in BOOLEAN : NetCancel(c, u)
  \/ \E ok, c, u \in BOOLEAN : UsbMounts(ok, c, u) \/ UsbRetries(ok, c, u)

\* Every request has a deadline that the loop's poll looks at; a chip that is asked
\* in every round to take its layout back answers in the end.
Fairness == WF_hvars(\E ok \in BOOLEAN : Fails(ok)) /\ WF_hvars(Restore(TRUE))
Spec == Init /\ [][Next]_hvars /\ Fairness
-----------------------------------------------------------------------------
\* The Ethernet chip has one user; when no request and no FTP client has it, the
\* Apple has it, as the latest slot setting says and with its own receive layout,
\* whatever failed, was cancelled or was changed meanwhile.
EthernetHasOneUser ==
  /\ owns => ~slot /\ ~ftp
  /\ ftp => ~slot
  /\ ~owns => slot = wanted /\ chip = "normal"

\* main.c:1742, "Keep the host detached until every local download FIL is closed":
\* while a USB host has the card, no request is active and no file of a download or
\* of the updater is open or half written.  Images of the SmartPort stay open.
CardLentAlone == usb = "lent" => ~open /\ ~part /\ ~uFile /\ ~Active

\* A download that gets its final name is the whole body of a 2xx response, from its
\* first unit on, although the request changed hands with part of it received.
DownloadIsWhole ==
  [][final' # final /\ final' # NoFile
       => final' = got /\ code = "ok" /\ hs = "done" /\ (known => got = Size)]_hvars

\* http_service.c:437: the Apple gets its Ethernet card back from every request,
\* also when a cancellation could not restore the chip at first.
EthernetComesBack == owns ~> ~owns
==============================================================================
