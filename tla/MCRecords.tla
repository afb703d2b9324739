------------------------------ MODULE MCRecords ------------------------------
(***************************************************************************)
(* The three records that the program replaces as a whole, for TLC; a      *)
(* behaviour shows one of them.  flash: MetadataPair, the metadata of the  *)
(* firmware slots.  card: ConfigFile, the settings on the SD card.         *)
(* golden: GoldenUpdate, the recovery image that power-on starts.  All     *)
(* implement AtomicRecord.                                                 *)
(***************************************************************************)
EXTENDS MetadataPair

CONSTANTS Defaults, NoFile, CutFile,    \* of ConfigFile
          Goldens, NoImage, MaxCuts     \* of GoldenUpdate

VARIABLES
  shown,    \* which of them this behaviour shows
  file, cpc, saving, saved, live, sessionOnly, loaded,
  header, body, reg, gpc, run, dst, src, back, repair, sd, cuts

Cfg == INSTANCE ConfigFile
Golden == INSTANCE GoldenUpdate WITH pc <- gpc

ASSUME FilesAssumption == /\ Defaults \in Values /\ CutFile \notin Values
                          /\ NoFile \notin Values \cup {CutFile}
ASSUME GoldensAssumption == /\ NoImage \notin Goldens /\ Golden!Junk \notin Goldens
                            /\ NoImage # Golden!Junk
ASSUME MaxCutsAssumption == MaxCuts \in Nat

cardVars == <<file, cpc, saving, saved, live, sessionOnly, loaded>>
goldenVars == <<header, body, reg, gpc, run, dst, src, back, repair, sd, cuts>>
allVars == <<vars, shown, cardVars, goldenVars>>

\* One that is not shown stays in one of its initial states.
MCInit ==
  /\ shown \in {"flash", "card", "golden"}
  /\ Init /\ Cfg!Init /\ Golden!Init
  /\ shown # "card" => file = [n \in Cfg!Names |-> NoFile]
  /\ shown # "flash" => sector = [s \in Sectors |-> Erased]
  /\ shown # "golden" => sd = NoImage /\ \A i \in Goldens : body["trial"] # i

MCNext ==
  \/ shown = "flash" /\ Next /\ UNCHANGED <<shown, cardVars, goldenVars>>
  \/ shown = "card" /\ Cfg!Next /\ UNCHANGED <<shown, vars, goldenVars>>
  \/ shown = "golden" /\ Golden!Next /\ UNCHANGED <<shown, vars, cardVars>>

\* The fairness of GoldenUpdate: no step of an update waits for ever.
MCSpec ==
  /\ MCInit /\ [][MCNext]_allVars
  /\ WF_goldenVars(shown = "golden" /\ Golden!GoldenStep)
-----------------------------------------------------------------------------
\* The settings file, its backup and its temporary file are one record that a
\* save replaces all at once (config_menu.c:1444).
ImplementsSavedSettings == Cfg!ImplementsSavedSettings

\* At every instant a start finds a whole Golden.
AlwaysBootable == Golden!AlwaysBootable

\* A repair that a loss of power cut short is resumed.
RepairResumes == Golden!RepairResumes

\* The two Golden slots are one record that a repair replaces all at once.
ImplementsAtomicGolden == Golden!ImplementsAtomicGolden
=============================================================================
