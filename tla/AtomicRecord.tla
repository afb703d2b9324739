----------------------------- MODULE AtomicRecord -----------------------------
(***************************************************************************)
(* What a record that survives a loss of power promises its users: the     *)
(* multiboot metadata, the settings file, the Golden image that power-on   *)
(* starts.  A write replaces it all at once.  A write that is cut short or *)
(* fails has either happened or not; one that reports success has          *)
(* happened; nothing else changes the record, and once there is a record   *)
(* there always is.                                                        *)
(***************************************************************************)
CONSTANTS Values, NoRecord

VARIABLES value,    \* the record a load finds
          writing,  \* the value of the write in progress, NoRecord if none
          answer    \* what the last write reported: "none", "ok" or "error"

rvars == <<value, writing, answer>>

Init == value \in Values \cup {NoRecord} /\ writing = NoRecord /\ answer = "none"

Begin(v) ==
  writing = NoRecord /\ writing' = v /\ answer' = "none" /\ UNCHANGED value

Land == writing # NoRecord /\ value' = writing /\ UNCHANGED <<writing, answer>>

\* Success is reported only of a record that a load finds.
Succeed ==
  /\ writing # NoRecord /\ value = writing
  /\ writing' = NoRecord /\ answer' = "ok"
  /\ UNCHANGED value

\* An error return, or a power cut with no answer at all, possibly as it lands.
GiveUp ==
  /\ writing # NoRecord /\ writing' = NoRecord
  /\ value' \in {value, writing}
  /\ answer' \in {"none", "error"}

\* The answer is forgotten with the memory of whoever asked.
Forget == writing = NoRecord /\ answer' = "none" /\ UNCHANGED <<value, writing>>

\* A write that is refused does not begin.
Refuse == writing = NoRecord /\ answer' = "error" /\ UNCHANGED <<value, writing>>

Next == (\E v \in Values : Begin(v)) \/ Land \/ Succeed \/ GiveUp \/ Forget \/ Refuse

Spec == Init /\ [][Next]_rvars
==============================================================================
