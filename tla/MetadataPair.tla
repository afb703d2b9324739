----------------------------- MODULE MetadataPair -----------------------------
(***************************************************************************)
(* The two metadata sectors of lib/multiboot.c: mb_metadata_load takes the *)
(* newer of the records that decode, metadata_commit writes the other      *)
(* sector (erase, body, CRC word, read back).  Each flash operation can    *)
(* report an error or be cut by a loss of power, and leaves behind what    *)
(* such an operation can leave.  A sector that is neither whole nor erased *)
(* is Damaged: its CRC does not match (metadata_decode rejects it).        *)
(***************************************************************************)
EXTENDS Integers

CONSTANTS Values,       \* contents of a record other than its sequence
          NoRecord,     \* MB_E_METADATA: neither sector decodes
          Half          \* half the range of the sequence (2^31 in the code)

ASSUME HalfAssumption == Half \in Nat /\ Half > 2
ASSUME ValuesAssumption == Values # {} /\ NoRecord \notin Values

SeqMod == 2 * Half
Sectors == {"A", "B"}
Other(s) == IF s = "A" THEN "B" ELSE "A"

Full(s, v) == [state |-> "full", seq |-> s, val |-> v]
Records == [state : {"full"}, seq : 1 .. SeqMod - 1, val : Values]
Damaged == [state |-> "damaged", seq |-> 0, val |-> NoRecord]
Erased  == [state |-> "erased", seq |-> 0, val |-> NoRecord]
Contents == Records \cup {Damaged, Erased}

VARIABLES
  sector,   \* the flash: contents of the two sectors
  pc,       \* where the one thread that writes metadata is
  dest, new, \* metadata_commit: destination sector, record being written
  result    \* and its return code: "ok", "error", "none" until it returns

vars == <<sector, pc, dest, new, result>>

Decodes(s) == sector[s].state = "full"

\* ++sequence, skipping 0.
NextSeq(n) == IF n + 1 = SeqMod THEN 1 ELSE n + 1

\* ma.sequence - mb.sequence in 32 bits.
Delta(a, b) == IF a >= b THEN a - b ELSE a - b + SeqMod

\* Mutant: the sequences are compared as plain numbers.
Mut_Newest_plain ==
  IF Decodes("A") /\ Decodes("B")
  THEN IF sector["A"].seq > sector["B"].seq THEN "A" ELSE "B"
  ELSE IF Decodes("A") THEN "A" ELSE IF Decodes("B") THEN "B" ELSE "none"

\* Of two records that decode; equal ones are the same record, or refused.
Newer ==
  LET d == Delta(sector["A"].seq, sector["B"].seq)
  IN  IF d = 0 THEN IF sector["A"] = sector["B"] THEN "A" ELSE "none"
      ELSE IF d = Half THEN "none"
      ELSE IF d < Half THEN "A" ELSE "B"

\* mb_metadata_load: the sector it takes, "none" for MB_E_METADATA.
Newest ==
  IF Decodes("A") /\ Decodes("B") THEN Newer
  ELSE IF Decodes("A") THEN "A" ELSE IF Decodes("B") THEN "B" ELSE "none"

Loaded == IF Newest = "none" THEN NoRecord ELSE sector[Newest].val

\* As delivered: no record yet (the B sector may hold an older layout, which
\* does not decode), or one record in either sector.
Init ==
  /\ sector \in [Sectors -> {Erased, Damaged}]
       \cup {[s \in Sectors |-> IF s = t THEN Full(n, v) ELSE Erased] :
               t \in Sectors, n \in 1 .. SeqMod - 1, v \in Values}
  /\ pc = "idle" /\ dest = "A" /\ new = Full(1, CHOOSE v \in Values : TRUE)
  /\ result = "none"

\* A caller has loaded the newest record (or adopted, when there is none),
\* changed it to v, and calls metadata_commit.  A load that cannot read a
\* sector returns MB_E_READ and the caller does nothing.
Commit(v) ==
  /\ pc = "idle"
  /\ dest' = IF Newest = "A" THEN "B" ELSE "A"
  /\ new' = Full(IF Newest = "none" THEN 1 ELSE NextSeq(sector[Newest].seq), v)
  /\ pc' = "erase" /\ result' = "none"
  /\ UNCHANGED sector

Erase ==
  /\ pc = "erase"
  /\ sector' = [sector EXCEPT ![dest] = Erased]
  /\ pc' = "body"
  /\ UNCHANGED <<dest, new, result>>

ProgramBody ==
  /\ pc = "body"
  /\ sector' = [sector EXCEPT ![dest] = Damaged]
  /\ pc' = "crc"
  /\ UNCHANGED <<dest, new, result>>

ProgramCrc ==
  /\ pc = "crc"
  /\ sector' = [sector EXCEPT ![dest] = new]
  /\ pc' = "verify"
  /\ UNCHANGED <<dest, new, result>>

\* Read back: equal and decodable, or MB_E_VERIFY (see Fail).
Verify ==
  /\ pc = "verify" /\ sector[dest] = new
  /\ pc' = "idle" /\ result' = "ok"
  /\ UNCHANGED <<sector, dest, new>>

\* What an operation on contents c leaves when it fails or power goes during it.
Remains(step, c) ==
  IF step = "erase" THEN {c, Damaged, Erased}
  ELSE IF step = "body" THEN {c, Damaged}
  ELSE IF step = "crc" THEN {Damaged, new} ELSE {c}

\* The flash operation reports an error: metadata_commit returns it at once.
Fail ==
  /\ pc # "idle"
  /\ \E c \in Remains(pc, sector[dest]) : sector' = [sector EXCEPT ![dest] = c]
  /\ pc' = "idle" /\ result' = "error"
  /\ UNCHANGED <<dest, new>>

\* Loss of power: the same remains, and the writer's memory is gone.
PowerCut ==
  /\ pc # "idle"
  /\ \E c \in Remains(pc, sector[dest]) : sector' = [sector EXCEPT ![dest] = c]
  /\ pc' = "idle" /\ result' = "none"
  /\ dest' = "A" /\ new' = Full(1, CHOOSE v \in Values : TRUE)

Next == (\E v \in Values : Commit(v)) \/ Erase \/ ProgramBody \/ ProgramCrc
          \/ Verify \/ Fail \/ PowerCut

Spec == Init /\ [][Next]_vars
-----------------------------------------------------------------------------
TypeOK ==
  /\ sector \in [Sectors -> Contents]
  /\ pc \in {"idle", "erase", "body", "crc", "verify"}
  /\ dest \in Sectors
  /\ new \in Records
  /\ result \in {"none", "ok", "error"}

\* The load never has to refuse two records that decode (equal sequences with
\* different contents, or sequences half the range apart), wraps included.
NeverAmbiguous == Decodes("A") /\ Decodes("B") => Newest # "none"

\* Once a record has been written there is always one to load, whatever
\* operation fails or is cut: in particular an update's invalidation survives.
RecordSurvives == [][Loaded # NoRecord => Loaded' # NoRecord]_vars

Cell == INSTANCE AtomicRecord WITH
          value <- Loaded,
          writing <- IF pc = "idle" THEN NoRecord ELSE new.val,
          answer <- result

\* The two sectors are one atomically replaced record.
ImplementsAtomicRecord == Cell!Spec
==============================================================================
