------------------------------- MODULE Multiboot -------------------------------
(***************************************************************************)
(* Product firmware slots: lib/multiboot.c with its callers, Golden's SD   *)
(* batch (bootloader/updater.c, bootloader/main.c) and the running         *)
(* firmware's startup and switch choices (frontend/main.c).                *)
(*                                                                         *)
(* A slot's contents are an image, seen whole, or Junk; the XLNX word of   *)
(* its header, which mb_install withholds, is apart.  The metadata is one  *)
(* record, written atomically but possibly reported as failed: that is     *)
(* what MetadataPair's AtomicRecord gives.  Reading an image and comparing *)
(* its CRCs with a record is comparing images.                             *)
(***************************************************************************)
EXTENDS Integers

CONSTANTS
  AImages, MImages, \* v2 images, tagged with their product
  FImages,          \* v1 Appletini images with the frontend's identity
  UImages,          \* v1 images without it
  LImages,          \* v1 images that reach into the Multitini slot
  NoImage, Files,   \* candidate names on the card are 1 .. Files
  MaxCuts           \* bound on losses of power

ASSUME BoundsAssumption == Files \in Nat /\ MaxCuts \in Nat

Old == FImages \cup UImages \cup LImages
Tagged == AImages \cup MImages
Images == Tagged \cup Old
Installable == Tagged \cup FImages          \* mb_firmware_validate
Products == {"appletini", "multitini"}
Peer(p) == IF p = "appletini" THEN "multitini" ELSE "appletini"
Product(i) == IF i \in MImages THEN "multitini" ELSE "appletini"

Junk == "junk"                   \* erased, or part of an image
Tail == "tail"                   \* in the Multitini slot: an L image's tail
ASSUME ImagesAssumption ==
  /\ Images \cap {NoImage, Junk, Tail} = {}
  /\ NoImage \notin {Junk, Tail}
  /\ LImages \cap Installable = {} /\ UImages \cap Installable = {}
  /\ MImages \cap (AImages \cup Old) = {}
Choices == Products \cup {"none"}
NoRec == [product \in Products |-> NoImage]
NoMeta == [present |-> FALSE, default |-> "none", request |-> "none", rec |-> NoRec]

VARIABLES
  ident,    \* product -> the slot's header has its XLNX word
  body,     \* product -> the rest of the slot
  meta,     \* the multiboot record; rec[p] # NoImage is flag VALID
  v4,       \* sector B still holds the old single-slot record
  card,     \* file -> image, or NoImage: renamed .OK or never there
  pc,       \* where the program that runs on CPU0 is
  idx,      \* Golden: file being processed
  chosen,   \* Golden: image selected; then the image running
  cuts

flash == <<ident, body, meta, v4>>
vars == <<ident, body, meta, v4, card, pc, idx, chosen, cuts>>
-----------------------------------------------------------------------------
(* Verifying slots                                                         *)

Intact(p, i) ==
  /\ ident[p] /\ body[p] = i
  /\ i \in LImages => body["multitini"] = Tail

\* flash_image over the whole slot: the image it finds, NoImage otherwise.
Live(p) == IF body[p] \in Images /\ Intact(p, body[p]) THEN body[p] ELSE NoImage

\* old_legacy_verify
OldLegacy == IF v4 /\ Live("appletini") \in Old THEN Live("appletini") ELSE NoImage

LiveTagged(p) == IF Live(p) \in Tagged THEN Live(p) ELSE NoImage

\* What a slot offers, with a record and without: the image, or NoImage.
Offered(p) ==
  IF meta.present
  THEN IF meta.rec[p] # NoImage /\ Live(p) = meta.rec[p] THEN meta.rec[p] ELSE NoImage
  ELSE IF p = "appletini" /\ LiveTagged(p) = NoImage THEN OldLegacy ELSE LiveTagged(p)

\* mb_slot_verify: as above, and an old image must be a known Appletini one.
SlotVerify(p) == Offered(p) \in Tagged \cup FImages

\* mb_slot_probe with a record: the payload of a tagged image is not read.
SlotProbe(p) ==
  IF meta.rec[p] \in Old THEN SlotVerify(p)
  ELSE meta.rec[p] # NoImage /\ ident[p] /\ body[p] \in {meta.rec[p], Junk}

\* metadata_adopt, and the record update_begin adds: records from live slots.
Adopted ==
  IF meta.present THEN meta
  ELSE LET rec == [p \in Products |->
                     IF Offered(p) \in LImages THEN NoImage ELSE Offered(p)]
       IN [present |-> TRUE, request |-> "none", rec |-> rec,
           default |-> IF rec["appletini"] \in Tagged \cup FImages THEN "appletini"
                       ELSE IF rec["multitini"] # NoImage THEN "multitini"
                       ELSE "none"]

\* mb_select
First ==
  IF meta.request # "none" THEN meta.request
  ELSE IF meta.default # "none" THEN meta.default ELSE "appletini"

Selected ==
  IF SlotVerify(First) THEN Offered(First)
  ELSE IF SlotVerify(Peer(First)) THEN Offered(Peer(First))
  ELSE Offered("appletini")
-----------------------------------------------------------------------------
(* Steps that write flash: each succeeds, fails with an error, or is cut   *)

\* Power is lost: Golden starts over.
Cut ==
  /\ cuts < MaxCuts /\ cuts' = cuts + 1
  /\ pc' = "reset" /\ idx' = 1 /\ chosen' = NoImage
  /\ UNCHANGED card

GoTo(l) == pc' = l /\ UNCHANGED <<card, idx, chosen, cuts>>

\* The batch goes on with the next file, keeping this one (files_failed).
NextFile == pc' = "file" /\ idx' = idx + 1 /\ UNCHANGED <<card, chosen, cuts>>

\* metadata_commit(m), then ok or else failed; the record may land either way.
Commit(m, ok, failed) ==
  /\ UNCHANGED <<ident, body>>
  /\ \/ meta' = m /\ v4' = (v4 /\ ~meta.present) /\ ok
     \/ /\ \/ UNCHANGED <<meta, v4>>
           \/ UNCHANGED meta /\ v4' = (v4 /\ ~meta.present)
           \/ meta' = m /\ v4' = (v4 /\ ~meta.present)
        /\ failed \/ Cut

cur == card[idx]
dst == Product(cur)

\* Opening, mounting or validating the file fails, or it is not there.
SkipFile == pc = "file" /\ idx <= Files /\ UNCHANGED flash /\ NextFile

\* Mutants: the record is left valid; the overlap with L images is not refused.
Mut_UpdateBegin_valid ==
  /\ pc = "file" /\ idx <= Files
  /\ cur \in Installable
  /\ ~(~meta.present /\ dst = "multitini" /\ OldLegacy \in LImages)
  /\ Commit(Adopted, GoTo("zero"), NextFile)
Mut_UpdateBegin_overlap ==
  /\ pc = "file" /\ idx <= Files
  /\ cur \in Installable
  /\ Commit([Adopted EXCEPT !.rec[dst] = NoImage], GoTo("zero"), NextFile)

\* mb_update_begin: the slot loses its authority before its contents.
UpdateBegin ==
  /\ pc = "file" /\ idx <= Files
  /\ cur \in Installable
  /\ ~(~meta.present /\ dst = "multitini" /\ OldLegacy \in LImages)
  /\ Commit([Adopted EXCEPT !.rec[dst] = NoImage], GoTo("zero"), NextFile)

\* mb_install: the old header goes before the erase.
ZeroIdent ==
  /\ pc = "zero" /\ UNCHANGED <<body, meta, v4>>
  /\ \/ ident' = [ident EXCEPT ![dst] = FALSE] /\ GoTo("erase")
     \/ ident' \in {ident, [ident EXCEPT ![dst] = FALSE]} /\ (NextFile \/ Cut)

EraseSlot ==
  /\ pc = "erase" /\ UNCHANGED <<meta, v4>>
  /\ \/ /\ body' = [body EXCEPT ![dst] = Junk]
        /\ ident' = [ident EXCEPT ![dst] = FALSE] /\ GoTo("program")
     \/ /\ body' \in {body, [body EXCEPT ![dst] = Junk]} /\ UNCHANGED ident
        /\ NextFile \/ Cut

\* Everything but the XLNX word, each piece read back.
ProgramBody ==
  /\ pc = "program" /\ UNCHANGED <<ident, meta, v4>>
  /\ \/ body' = [body EXCEPT ![dst] = cur] /\ GoTo("ident")
     \/ UNCHANGED body /\ (NextFile \/ Cut)

ProgramIdent ==
  /\ pc = "ident" /\ UNCHANGED <<body, meta, v4>>
  /\ \/ ident' = [ident EXCEPT ![dst] = TRUE] /\ GoTo("finish")
     \/ ident' \in {ident, [ident EXCEPT ![dst] = TRUE]} /\ (NextFile \/ Cut)

\* mb_update_finish: the live slot is verified again before it is recorded.
UpdateFinish ==
  /\ pc = "finish"
  /\ \/ UNCHANGED flash /\ NextFile
     \/ /\ Live(dst) = cur
        /\ Commit([meta EXCEPT !.rec[dst] = cur,
                    !.default = IF @ = "none" THEN dst ELSE @,
                    !.request = IF cur \in Old THEN "appletini" ELSE @],
                  GoTo("rename"), NextFile)

\* The source becomes .OK; a failed close, unlink or rename keeps it.
RenameSource ==
  /\ pc = "rename" /\ UNCHANGED flash
  /\ \/ /\ card' = [card EXCEPT ![idx] = NoImage]
        /\ pc' = "file" /\ idx' = idx + 1
        /\ UNCHANGED <<chosen, cuts>>
     \/ NextFile

EndBatch == pc = "file" /\ idx > Files /\ UNCHANGED flash /\ GoTo("select")

\* updater_select_firmware: no verified image leaves Golden in its monitor.
Select ==
  /\ pc = "select" /\ UNCHANGED <<flash, card, idx, cuts>>
  /\ chosen' = Selected
  /\ pc' = IF Selected = NoImage THEN "stuck" ELSE "clear"

\* Mutant: when the clear fails Golden resets instead of starting the image.
Mut_ClearRequest_reset ==
  /\ pc = "clear"
  /\ IF meta.request = "none" THEN UNCHANGED flash /\ GoTo("app")
     ELSE Commit([meta EXCEPT !.request = "none"], GoTo("app"),
                 pc' = "reset" /\ idx' = 1 /\ chosen' = NoImage /\ UNCHANGED <<card, cuts>>)

\* The one-shot request is consumed; failing to clear it does not stop the boot.
ClearRequest ==
  /\ pc = "clear"
  /\ IF meta.request = "none" THEN UNCHANGED flash /\ GoTo("app")
     ELSE Commit([meta EXCEPT !.request = "none"], GoTo("app"), GoTo("app"))

\* Golden starts: the batch, or the monitor when the operator asks for it.
StartBatch ==
  /\ pc = "reset" /\ UNCHANGED flash
  /\ pc' = "file" /\ idx' = 1 /\ UNCHANGED <<card, chosen, cuts>>

GoldenStep ==
  \/ StartBatch \/ SkipFile \/ UpdateBegin \/ ZeroIdent \/ EraseSlot \/ ProgramBody
  \/ ProgramIdent \/ UpdateFinish \/ RenameSource \/ EndBatch \/ Select \/ ClearRequest
-----------------------------------------------------------------------------
(* The operator at Golden's serial monitor, and the running firmware       *)

Monitor == pc \in {"monitor", "stuck"}

Interrupt == pc = "reset" /\ UNCHANGED flash /\ GoTo("monitor")

\* set_choice for a request; ok and failed say where the caller goes.
SetRequest(p, ok, failed) ==
  /\ IF meta.present THEN SlotProbe(p) ELSE Adopted.rec[p] \in Tagged
  /\ IF meta.request = p THEN UNCHANGED flash /\ ok
     ELSE Commit([Adopted EXCEPT !.request = p], ok, failed)

\* boot, boot <product>, update, rx: serial_boot.c
MonitorBoot == Monitor /\ UNCHANGED flash /\ GoTo("select")
MonitorRequest(p) == Monitor /\ SetRequest(p, GoTo("select"), GoTo("monitor"))
MonitorUpdate ==
  /\ Monitor /\ UNCHANGED flash
  /\ pc' = "file" /\ idx' = 1 /\ UNCHANGED <<card, chosen, cuts>>
MonitorReceive(i) ==
  /\ Monitor /\ UNCHANGED flash
  /\ card' = [card EXCEPT ![1] = i]
  /\ pc' = "file" /\ idx' = 1 /\ UNCHANGED <<chosen, cuts>>
MonitorReboot == Monitor /\ UNCHANGED flash /\ GoTo("reset")

\* Firmware with this code: the startup choice, and switching products.
SetDefault(p) ==
  /\ pc = "app" /\ chosen \in Tagged
  /\ SlotVerify(p)
  /\ IF meta.present /\ meta.default = p THEN UNCHANGED flash /\ GoTo("app")
     ELSE Commit([Adopted EXCEPT !.default = p], GoTo("app"), GoTo("app"))

SwitchFirmware(p) ==
  pc = "app" /\ chosen \in Tagged /\ SetRequest(p, GoTo("switch"), GoTo("cancel"))

\* Holding the bus, CPU1 or the boot register failed after the request.
CancelSwitch == pc = "switch" /\ UNCHANGED flash /\ GoTo("cancel")

DropRequest ==
  /\ pc = "cancel"
  /\ IF ~meta.present \/ meta.request = "none" THEN UNCHANGED flash /\ GoTo("app")
     ELSE Commit([meta EXCEPT !.request = "none"], GoTo("app"), GoTo("app"))

\* Files reach the card while firmware runs.
Upload(f, i) ==
  /\ pc = "app" /\ card' = [card EXCEPT ![f] = i]
  /\ UNCHANGED <<flash, pc, idx, chosen, cuts>>

Restart ==
  /\ pc \in {"app", "switch"} /\ UNCHANGED <<flash, card, cuts>>
  /\ pc' = "reset" /\ idx' = 1 /\ chosen' = NoImage

PowerCut == pc \notin {"app", "reset"} /\ UNCHANGED flash /\ Cut

OperatorStep ==
  \/ Interrupt \/ MonitorBoot \/ MonitorUpdate \/ MonitorReboot
  \/ \E p \in Products : MonitorRequest(p) \/ SetDefault(p) \/ SwitchFirmware(p)
  \/ \E i \in Images : MonitorReceive(i) \/ \E f \in 1 .. Files : Upload(f, i)
  \/ CancelSwitch \/ DropRequest \/ Restart

Next == GoldenStep \/ OperatorStep \/ PowerCut

\* As delivered, or as an older Golden left it: whole images, no record.
Init ==
  /\ \E a \in AImages \cup Old \cup {Junk}, m \in MImages \cup {Junk, Tail} :
       /\ a \in LImages <=> m = Tail
       /\ body = [p \in Products |-> IF p = "appletini" THEN a ELSE m]
  /\ ident = [p \in Products |-> body[p] \in Images]
  /\ meta = NoMeta /\ v4 \in BOOLEAN
  /\ card \in [1 .. Files -> {NoImage} \cup Images]
  /\ pc = "reset" /\ idx = 1 /\ chosen = NoImage /\ cuts = 0

Spec == Init /\ [][Next]_vars
FairSpec == Spec /\ WF_vars(GoldenStep)
-----------------------------------------------------------------------------
TypeOK ==
  /\ ident \in [Products -> BOOLEAN]
  /\ body \in [Products -> Images \cup {Junk, Tail}]
  /\ meta \in [present : BOOLEAN, default : Choices, request : Choices,
               rec : [Products -> Images \cup {NoImage}]]
  /\ v4 \in BOOLEAN
  /\ card \in [1 .. Files -> Images \cup {NoImage}]
  /\ pc \in {"reset", "file", "zero", "erase", "program", "ident", "finish", "rename",
             "select", "clear", "app", "switch", "cancel", "monitor", "stuck"}
  /\ idx \in 1 .. Files + 1
  /\ chosen \in Images \cup {NoImage}
  /\ cuts \in 0 .. MaxCuts

\* A slot whose record says VALID holds exactly the recorded image, at every
\* instant of an update: mb_slot_probe lets a switch rely on the record alone.
AuthorisedIsWhole ==
  meta.present => \A p \in Products : meta.rec[p] # NoImage => Live(p) = meta.rec[p]

\* A header BootROM would accept is never in front of a partly written image.
HeaderMeansWhole == \A p \in Products : ident[p] => body[p] \in Images

\* An update file is renamed .OK only when its image is what the slot offers.
RenamedMeansInstalled ==
  [][\A f \in 1 .. Files : card[f] # NoImage /\ card'[f] = NoImage =>
        Offered(Product(card[f])) = card[f]]_vars

\* Whatever writes fail, Golden reaches firmware if some slot is usable, and
\* does not reset for ever over a file or a request it cannot get rid of.
StartsFirmware ==
  pc = "reset" ~> \/ pc \in {"app", "monitor"}
                  \/ pc = "stuck" /\ \A p \in Products : Offered(p) = NoImage

Catalog == INSTANCE FirmwareCatalog WITH
             Appletini <- AImages \cup Old, Multitini <- MImages,
             Unidentified <- UImages \cup LImages,
             usable <- [p \in Products |-> Offered(p)],
             default <- Adopted.default, request <- meta.request,
             running <- chosen,
             target <- IF pc \in {"zero", "erase", "program", "ident", "finish"}
                       THEN dst ELSE "none"

\* The catalog of usable slots, whatever operation is cut or fails.
ImplementsCatalog == Catalog!Spec
==============================================================================
