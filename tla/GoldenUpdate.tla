----------------------------- MODULE GoldenUpdate -----------------------------
(***************************************************************************)
(* Replacing Golden, the recovery image: lib/golden_self_update.c with its *)
(* callers bootloader/main.c, bootloader/serial_boot.c, frontend/main.c.   *)
(* A new Golden is staged in the trial slot, started there, and itself     *)
(* copies the trial over the primary; BOOT.BIN is then retired.            *)
(*                                                                         *)
(* The BootROM (external) starts the first slot at or above the MULTIBOOT  *)
(* register whose header is valid; it checks no payload.  Losing power     *)
(* clears the register, a soft reset keeps it.                             *)
(***************************************************************************)
EXTENDS Integers

CONSTANTS Goldens,   \* Golden images
          NoImage,
          MaxCuts    \* bound on losses of power (MCRecords assumes of the constants)

Junk == "junk"

Slots == {"primary", "trial"}
Answers == {"none", "ok", "error"}

VARIABLES
  header,  \* slot -> its header is valid: the XLNX word is in place
  body,    \* slot -> the rest: an image, seen whole, or Junk
  reg,     \* the MULTIBOOT register; "firmware" is a product slot
  pc,
  run,     \* the Golden image running, NoImage in firmware
  dst, src,\* install_slot_image: target and source
  back,    \* where a failed staging returns
  repair,  \* result of the repair in this session
  sd,      \* BOOT.BIN: an image, Junk for anything else, NoImage if absent
  cuts

slots == <<header, body>>
vars == <<header, body, reg, pc, run, dst, src, back, repair, sd, cuts>>

Whole(s) == header[s] /\ body[s] \in Goldens

\* The slot the BootROM starts from a register value, "none" if neither.
Pick(r) ==
  IF r = "primary" /\ header["primary"] THEN "primary"
  ELSE IF r \in Slots /\ header["trial"] THEN "trial" ELSE "none"

GoTo(l) == pc' = l /\ UNCHANGED <<reg, run, dst, src, back, repair, sd, cuts>>

\* Loss of power: the BootROM starts over at the primary.
Cut ==
  /\ cuts < MaxCuts /\ cuts' = cuts + 1
  /\ reg' = "primary" /\ pc' = "rom" /\ run' = NoImage /\ repair' = "none"
  /\ dst' = "trial" /\ src' = NoImage /\ back' = "monitor"
  /\ UNCHANGED sd

PowerCut == pc \notin {"rom", "dead"} /\ UNCHANGED slots /\ Cut

\* install_slot_image returns an error to the repair or to the staging caller.
Fail ==
  /\ pc' = IF dst = "primary" THEN "monitor" ELSE back
  /\ repair' = IF dst = "primary" THEN "error" ELSE repair
  /\ UNCHANGED <<reg, run, dst, src, back, sd, cuts>>

Stop == Fail \/ Cut
-----------------------------------------------------------------------------
BootRom ==
  /\ pc = "rom" /\ UNCHANGED slots
  /\ IF Pick(reg) = "none"
     THEN pc' = "dead" /\ UNCHANGED <<reg, run>>
     ELSE pc' = "golden" /\ reg' = Pick(reg) /\ run' = body[Pick(reg)]
  /\ UNCHANGED <<dst, src, back, repair, sd, cuts>>

\* Mutant: the register is read back after it was pointed at the primary.
Mut_Start_order ==
  /\ pc = "golden" /\ reg' = "primary"
  /\ pc' = "complete"
  /\ UNCHANGED <<slots, run, dst, src, back, repair, sd, cuts>>

\* main: what started us, then any further reset goes to the primary first.
Start ==
  /\ pc = "golden" /\ reg' = "primary"
  /\ pc' = IF reg = "trial" THEN "repair" ELSE "complete"
  /\ UNCHANGED <<slots, run, dst, src, back, repair, sd, cuts>>

\* golden_self_update_repair_primary up to its first write; the verified
\* product firmware it also requires may be missing.
BeginRepair ==
  /\ pc = "repair" /\ UNCHANGED slots
  /\ \/ /\ Whole("trial")
        /\ pc' = "invalidate" /\ dst' = "primary" /\ src' = body["trial"]
        /\ UNCHANGED repair
     \/ pc' = "monitor" /\ repair' = "error" /\ UNCHANGED <<dst, src>>
  /\ UNCHANGED <<reg, run, back, sd, cuts>>

\* golden_self_update_common: the primary's structure is checked, not its CRC.
\* The preflights may refuse (no recovery firmware): then nothing happens.
Stage(i, from) ==
  /\ pc = from /\ header["primary"] /\ UNCHANGED slots
  /\ pc' = "erase" /\ dst' = "trial" /\ src' = i /\ back' = from
  /\ UNCHANGED <<reg, run, repair, sd, cuts>>

\* From BOOT.BIN, at the monitor or in firmware; received by XMODEM.
StageFromSd == sd \in Goldens /\ \E from \in {"monitor", "app"} : Stage(sd, from)
StageFromSerial == \E i \in Goldens : Stage(i, "monitor")
-----------------------------------------------------------------------------
(* install_slot_image                                                      *)

\* Mutant: the primary is erased with its header still in place.
Mut_Invalidate_skip == pc = "invalidate" /\ UNCHANGED slots /\ GoTo("erase")

\* Only the primary's header is withdrawn before the erase, and read back.
Invalidate ==
  /\ pc = "invalidate" /\ UNCHANGED body
  /\ \/ header' = [header EXCEPT ![dst] = FALSE] /\ GoTo("erase")
     \/ header' \in {header, [header EXCEPT ![dst] = FALSE]} /\ Stop

Erase ==
  /\ pc = "erase"
  /\ \/ /\ header' = [header EXCEPT ![dst] = FALSE]
        /\ body' = [body EXCEPT ![dst] = Junk] /\ GoTo("program")
     \/ /\ header' \in {header, [header EXCEPT ![dst] = FALSE]}
        /\ body' \in {body, [body EXCEPT ![dst] = Junk]} /\ Stop

\* All but the XLNX word; a write may go wrong without an error.
Program ==
  /\ pc = "program" /\ UNCHANGED header
  /\ \/ \E b \in {src, Junk} : body' = [body EXCEPT ![dst] = b] /\ GoTo("verify")
     \/ UNCHANGED body /\ Stop

\* Mutant: the intermediate readback is skipped.
Mut_VerifyBody_skip == pc = "verify" /\ UNCHANGED slots /\ GoTo("commit")

\* Readback with the XLNX word erased, and no other header in the slot.
VerifyBody ==
  /\ pc = "verify" /\ UNCHANGED slots
  /\ \/ body[dst] = src /\ GoTo("commit")
     \/ Stop

CommitIdent ==
  /\ pc = "commit" /\ UNCHANGED body
  /\ \/ header' \in {header, [header EXCEPT ![dst] = TRUE]} /\ GoTo("final")
     \/ header' \in {header, [header EXCEPT ![dst] = TRUE]} /\ Stop

\* Header, bytes and CRC; on a mismatch the word is withdrawn, if that works.
FinalVerify ==
  /\ pc = "final" /\ UNCHANGED body
  /\ \/ /\ Whole(dst) /\ body[dst] = src /\ UNCHANGED header
        /\ IF dst = "primary"
           THEN pc' = "complete" /\ repair' = "ok"
           ELSE pc' = "staged" /\ UNCHANGED repair
        /\ UNCHANGED <<reg, run, dst, src, back, sd, cuts>>
     \/ header' \in {header, [header EXCEPT ![dst] = FALSE]} /\ Stop
-----------------------------------------------------------------------------
\* A verified trial is started, unless firmware cannot let go of the machine.
BootStaged ==
  /\ pc = "staged" /\ UNCHANGED <<slots, dst, src, back, sd, cuts>>
  /\ \/ pc' = "rom" /\ reg' = "trial" /\ run' = NoImage /\ repair' = "none"
     \/ back = "app" /\ pc' = "app" /\ UNCHANGED <<reg, run, repair>>

\* golden_self_update_complete_sd: BOOT.BIN becomes BOOT.OK when its bytes are
\* those of the verified primary.  Failing that it stays, and nothing waits.
RetireSource ==
  /\ pc = "complete" /\ UNCHANGED slots
  /\ sd' \in {sd} \cup (IF Whole("primary") /\ sd = body["primary"] THEN {NoImage} ELSE {})
  /\ pc' = "done" /\ UNCHANGED <<reg, run, dst, src, back, repair, cuts>>

\* After a repair the primary is started; else the serial window, then firmware.
Finish ==
  /\ pc = "done" /\ UNCHANGED <<slots, dst, src, back, sd, cuts>>
  /\ IF repair = "ok"
     THEN pc' = "rom" /\ run' = NoImage /\ repair' = "none" /\ UNCHANGED reg
     ELSE \/ pc' = "monitor" /\ UNCHANGED <<reg, run, repair>>
          \/ pc' = "app" /\ reg' = "firmware" /\ run' = NoImage /\ UNCHANGED repair

\* The operator, from the monitor.
BootFirmware ==
  /\ pc = "monitor" /\ UNCHANGED <<slots, dst, src, back, sd, cuts>>
  /\ pc' = "app" /\ reg' = "firmware" /\ run' = NoImage /\ repair' = "none"
Reboot ==
  /\ pc = "monitor" /\ UNCHANGED <<slots, reg, dst, src, back, sd, cuts>>
  /\ pc' = "rom" /\ run' = NoImage /\ repair' = "none"

\* A product switch from firmware: mb_golden_available, then a reset to it.
ReturnToGolden ==
  /\ pc = "app" /\ UNCHANGED <<slots, dst, src, back, sd, cuts>>
  /\ \E s \in Slots : Whole(s) /\ (s = "trial" => ~Whole("primary")) /\ reg' = s
  /\ pc' = "rom" /\ repair' = "none" /\ UNCHANGED run

\* The owner copies a BOOT.BIN to the card.
CopyToSd ==
  /\ pc = "app" /\ sd' \in Goldens \cup {Junk} /\ UNCHANGED slots
  /\ UNCHANGED <<reg, pc, run, dst, src, back, repair, cuts>>

Install == Invalidate \/ Erase \/ Program \/ VerifyBody \/ CommitIdent \/ FinalVerify
GoldenStep == BootRom \/ Start \/ BeginRepair \/ Install \/ BootStaged \/ RetireSource \/ Finish
Next == \/ GoldenStep \/ PowerCut
        \/ StageFromSd \/ StageFromSerial \/ BootFirmware \/ Reboot
        \/ ReturnToGolden \/ CopyToSd

\* A card as programmed at the factory, after any earlier update, or after a
\* repair cut short.
Init ==
  /\ body \in [Slots -> Goldens \cup {Junk}]
  /\ header = [s \in Slots |-> body[s] \in Goldens]
  /\ Whole("primary") \/ Whole("trial")
  /\ reg = "primary" /\ pc = "rom" /\ run = NoImage
  /\ dst = "trial" /\ src = NoImage /\ back = "monitor"
  /\ repair = "none" /\ sd \in Goldens \cup {Junk, NoImage} /\ cuts = 0

Spec == Init /\ [][Next]_vars
FairSpec == Spec /\ WF_vars(GoldenStep)
-----------------------------------------------------------------------------
TypeOK ==
  /\ header \in [Slots -> BOOLEAN]
  /\ body \in [Slots -> Goldens \cup {Junk}]
  /\ reg \in Slots \cup {"firmware"}
  /\ pc \in {"rom", "golden", "repair", "invalidate", "erase", "program", "verify", "commit",
             "final", "staged", "complete", "done", "monitor", "app"}
  /\ run \in Goldens \cup {NoImage} /\ src \in Goldens \cup {NoImage}
  /\ dst \in Slots /\ back \in {"monitor", "app"}
  /\ repair \in Answers /\ sd \in Goldens \cup {Junk, NoImage}
  /\ cuts \in 0 .. MaxCuts

\* At every instant the slot the BootROM would start, at power on and from the
\* register as it stands, holds a whole Golden.
AlwaysBootable ==
  \A r \in {"primary", reg} \ {"firmware"} : Pick(r) # "none" /\ Whole(Pick(r))

PowerOnImage == IF Pick("primary") = "none" THEN NoImage ELSE body[Pick("primary")]

\* The image that power-on starts changes only to the Golden now running: one
\* that has started from the trial slot.
TrialRunsFirst == [][PowerOnImage' # PowerOnImage => PowerOnImage' = run]_vars

\* BOOT.BIN is retired only when the primary holds its image.
RetiredMeansInstalled ==
  [][(sd # NoImage /\ sd' = NoImage) =>
       Whole("primary") /\ body["primary"] = sd]_vars

\* A repair that a loss of power cut short is resumed at the next start, and
\* ends with the primary restored unless an operation fails again.
RepairResumes ==
  pc = "rom" /\ ~header["primary"] ~> Whole("primary") \/ (pc = "monitor" /\ repair = "error")

Pair == INSTANCE AtomicRecord WITH
          Values <- Goldens, NoRecord <- NoImage,
          value <- PowerOnImage, answer <- repair,
          writing <- IF dst = "primary" /\ pc \in {"invalidate", "erase", "program",
                                                   "verify", "commit", "final"}
                     THEN src ELSE NoImage

\* The two slots are one Golden, replaced all at once by a repair.
ImplementsAtomicGolden == Pair!Spec
==============================================================================
