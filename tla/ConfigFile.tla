------------------------------ MODULE ConfigFile ------------------------------
(***************************************************************************)
(* The settings of config_menu.c and their file on the SD card.  A save    *)
(* writes 0:/appletini_cfg.tmp, then commits it in three steps of FatFs,   *)
(* which does not rename over an existing name: the old backup is deleted, *)
(* the file becomes the backup, the temporary file becomes the file.  Each *)
(* operation of FatFs is one step that can succeed, report an error        *)
(* (before or after its effect) or be cut by a loss of power; a rename and *)
(* an unlink of one directory entry are atomic.  A profile (profiles.c) is *)
(* a file of its own written by the same function.                         *)
(***************************************************************************)
CONSTANTS Values,    \* settings
          Defaults,  \* the settings of config_menu_init, in Values
          NoFile,    \* there is no such file
          CutFile    \* a file that was not written to its end

VARIABLES
  file,        \* contents of "main", "bak" and "tmp"
  cpc,         \* the step of the save or load in progress, "idle"
  saving,      \* the settings that the save writes
  saved,       \* what the last save answered: "none", "ok" or "error"
  live,        \* the settings in memory
  sessionOnly, \* menu->session_only: they are not on the card
  loaded       \* menu->settings_loaded

cvars == <<file, cpc, saving, saved, live, sessionOnly, loaded>>
memory == <<live, sessionOnly, loaded>>

Names == {"main", "bak", "tmp"}
SaveSteps == {"open", "write", "stat", "dropbak", "setaside", "install", "first",
              "done", "putback", "cleanup"}

\* As delivered or as an earlier session left it.
Init ==
  /\ file \in {[n \in Names |-> NoFile]}
       \cup {[main |-> v, bak |-> NoFile, tmp |-> NoFile] : v \in Values}
  /\ cpc = "load" /\ saving = NoFile /\ saved = "none"
  /\ live = Defaults /\ sessionOnly = FALSE /\ loaded = FALSE

\* f_rename: an error if the old name is missing or the new one is taken.
CanRename(from, to) == file[from] # NoFile /\ file[to] = NoFile
Renamed(from, to) == [file EXCEPT ![to] = file[from], ![from] = NoFile]

Begin(v) == cpc' = "open" /\ saving' = v /\ saved' = "none"
Finish(answer) == cpc' = "idle" /\ saving' = NoFile /\ saved' = answer
GoTo(step) == cpc' = step /\ UNCHANGED <<saving, saved>>

\* Mutant: the file is deleted to make room, not set aside.
Mut_After_unlink(step) ==
  CASE step = "open" -> [file EXCEPT !["tmp"] = CutFile]
    [] step = "write" -> [file EXCEPT !["tmp"] = saving]
    [] step = "dropbak" -> [file EXCEPT !["bak"] = NoFile]
    [] step = "setaside" -> [file EXCEPT !["main"] = NoFile]
    [] step \in {"install", "first"} -> Renamed("tmp", "main")
    [] step = "cleanup" -> [file EXCEPT !["tmp"] = NoFile]
    [] OTHER -> file

\* The files after the step's operation.
After(step) ==
  CASE step = "open" -> [file EXCEPT !["tmp"] = CutFile]
    [] step = "write" -> [file EXCEPT !["tmp"] = saving]
    [] step = "dropbak" -> [file EXCEPT !["bak"] = NoFile]
    [] step = "setaside" -> Renamed("main", "bak")
    [] step \in {"install", "first"} -> Renamed("tmp", "main")
    [] step = "putback" -> IF CanRename("bak", "main") THEN Renamed("bak", "main") ELSE file
    [] step = "cleanup" -> [file EXCEPT !["tmp"] = NoFile]
    [] OTHER -> file

\* The step that follows one that succeeded, up to the installation.
Following(step) ==
  CASE step = "open" -> "write"
    [] step = "write" -> "stat"
    [] step = "stat" -> IF file["main"] = NoFile THEN "first" ELSE "dropbak"
    [] step = "dropbak" -> "setaside"
    [] step = "setaside" -> "install"

Advance ==
  /\ cpc \in {"open", "write", "stat", "dropbak", "setaside"}
  /\ file' = After(cpc) /\ GoTo(Following(cpc))
  /\ UNCHANGED memory

\* The temporary file becomes the file.
Install ==
  /\ cpc \in {"install", "first"}
  /\ file' = After(cpc) /\ GoTo("done")
  /\ UNCHANGED memory

Done ==
  /\ cpc = "done" /\ Finish("ok")
  /\ sessionOnly' = FALSE /\ loaded' = TRUE
  /\ UNCHANGED <<file, live>>

\* An operation reports an error; a truncated or written file stays as it came.
Fail ==
  /\ cpc \in SaveSteps \ {"done", "putback", "cleanup"}
  /\ file' \in {file, After(cpc)}
  /\ IF cpc = "open" THEN Finish("error")
     ELSE GoTo(IF cpc = "install" THEN "putback" ELSE "cleanup")
  /\ sessionOnly' = TRUE
  /\ UNCHANGED <<live, loaded>>

\* What follows is best effort: its result is not looked at.
PutBack ==
  /\ cpc = "putback"
  /\ file' \in {file, After(cpc)} /\ GoTo("cleanup")
  /\ UNCHANGED memory

Cleanup ==
  /\ cpc = "cleanup"
  /\ file' \in {file, After(cpc)} /\ Finish("error")
  /\ UNCHANGED memory
-----------------------------------------------------------------------------
\* A setting is changed in the menu and saved at once.
Edit(v) ==
  /\ cpc = "idle" /\ v # live
  /\ live' = v /\ Begin(v)
  /\ UNCHANGED <<file, sessionOnly, loaded>>

\* config_menu_flush_settings before a reset, when it has to save.
Flush ==
  /\ cpc = "idle" /\ sessionOnly
  /\ Begin(live)
  /\ UNCHANGED <<file, memory>>

\* save_settings_to_path of a profile: no temporary file, the same flags.
SaveProfile ==
  /\ cpc = "idle"
  /\ \/ sessionOnly' = FALSE /\ loaded' = TRUE
     \/ sessionOnly' = TRUE /\ UNCHANGED loaded
  /\ UNCHANGED <<file, cpc, saving, saved, live>>

\* load_profile_settings: read into the live settings, which are then saved.
LoadProfile(v) ==
  /\ cpc = "idle"
  /\ \/ live' = v /\ loaded' = TRUE /\ sessionOnly' = FALSE /\ Begin(v)
     \/ loaded' = FALSE /\ sessionOnly' = TRUE
        /\ UNCHANGED <<cpc, saving, saved, live>>
  /\ UNCHANGED file
-----------------------------------------------------------------------------
\* config_menu_open_cfg: with no file, the backup is the last committed one.
Opened == IF file["main"] = NoFile /\ file["bak"] # NoFile
          THEN {Renamed("bak", "main"), [Renamed("bak", "main") EXCEPT !["tmp"] = NoFile]}
          ELSE {file}

\* Read; a file of an older version is written again in the current form.
Load ==
  /\ cpc = "load" /\ file' \in Opened /\ file'["main"] # NoFile
  /\ live' = file'["main"] /\ loaded' = TRUE /\ sessionOnly' = FALSE
  /\ \/ cpc' = "idle" /\ UNCHANGED <<saving, saved>>
     \/ Begin(file'["main"])

\* Neither file nor backup: the file is created from the live settings.
LoadNone ==
  /\ cpc = "load" /\ file["main"] = NoFile /\ file["bak"] = NoFile
  /\ Begin(live)
  /\ UNCHANGED <<file, memory>>

\* The card cannot be read, before or after the backup was renamed.
LoadFails ==
  /\ cpc = "load" /\ file' \in Opened \cup {file}
  /\ cpc' = "idle"
  /\ loaded' = FALSE /\ sessionOnly' = TRUE
  /\ UNCHANGED <<saving, saved, live>>

\* retry_settings_if_needed: the menu opens or a card is inserted.
Retry ==
  /\ cpc = "idle" /\ ~loaded
  /\ GoTo("load")
  /\ UNCHANGED <<file, memory>>

\* Power is lost, during an operation or between two; the program starts again.
PowerCut ==
  /\ file' \in {file, After(cpc)}
  /\ cpc' = "load" /\ saving' = NoFile /\ saved' = "none"
  /\ live' = Defaults /\ sessionOnly' = FALSE /\ loaded' = FALSE

Next == Advance \/ Install \/ Done \/ Fail \/ PutBack \/ Cleanup \/ Flush \/ SaveProfile
          \/ (\E v \in Values : Edit(v) \/ LoadProfile(v))
          \/ Load \/ LoadNone \/ LoadFails \/ Retry \/ PowerCut

Spec == Init /\ [][Next]_cvars
-----------------------------------------------------------------------------
\* What a load would find.
Stored == IF file["main"] # NoFile THEN file["main"] ELSE file["bak"]

Record == INSTANCE AtomicRecord WITH
            value <- Stored, NoRecord <- NoFile,
            writing <- saving, answer <- saved

\* The three names are one atomically replaced record of settings: a save that
\* fails or is cut leaves the last settings or the new ones, never a part of them.
ImplementsSavedSettings == Record!Spec

\* config_menu.c:4181, "Edits save at once. A session-only change cannot be
\* silently discarded": a change whose save failed stays marked for the flush.
FlushLosesNothing ==
  cpc = "idle" /\ saved = "error" /\ Stored \notin {NoFile, live} => sessionOnly
==============================================================================
