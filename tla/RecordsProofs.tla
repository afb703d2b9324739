---------------------------- MODULE RecordsProofs ----------------------------
(***************************************************************************)
(* Proofs about the three records that are replaced as a whole: each       *)
(* implements AtomicRecord, for every set of values, every width of the    *)
(* sequence, every set of images and any number of losses of power.        *)
(***************************************************************************)
EXTENDS MCRecords, TLAPS

-----------------------------------------------------------------------------
(* The metadata of the slots.  Two records that decode are always          *)
(* successive, so the load can tell the newer one, and the one being       *)
(* written over is always the older or does not decode.                    *)

Successive ==
  Decodes("A") /\ Decodes("B") =>
    \/ sector["A"].seq = NextSeq(sector["B"].seq)
    \/ sector["B"].seq = NextSeq(sector["A"].seq)

\* The record being written follows the one that stays, if that decodes.
Follows ==
  pc # "idle" /\ Decodes(Other(dest)) => new.seq = NextSeq(sector[Other(dest)].seq)

\* What is about to be erased is not the newest record.
OlderErased ==
  pc = "erase" /\ Decodes(dest) =>
    /\ Decodes(Other(dest))
    /\ sector[Other(dest)].seq = NextSeq(sector[dest].seq)

Blank == pc \in {"body", "crc"} => ~Decodes(dest)

Written == pc = "verify" => sector[dest] = new

PairInv == TypeOK /\ Successive /\ Follows /\ OlderErased /\ Blank /\ Written

USE HalfAssumption, ValuesAssumption

\* Serial-number arithmetic: a successor is one or two ahead (0 is skipped).
LEMMA Succession ==
  ASSUME NEW n \in 1 .. SeqMod - 1
  PROVE  /\ NextSeq(n) \in 1 .. SeqMod - 1
         /\ Delta(NextSeq(n), n) \in {1, 2}
         /\ Delta(n, NextSeq(n)) \in {SeqMod - 1, SeqMod - 2}
BY DEF NextSeq, Delta, SeqMod

\* What the load takes, when the records that decode are successive.
LEMMA NewestIs ==
  ASSUME TypeOK
  PROVE  /\ ~Decodes("A") /\ ~Decodes("B") => Newest = "none"
         /\ Decodes("A") /\ ~Decodes("B") => Newest = "A"
         /\ ~Decodes("A") /\ Decodes("B") => Newest = "B"
         /\ Decodes("A") /\ Decodes("B") /\ sector["A"].seq = NextSeq(sector["B"].seq)
              => Newest = "A"
         /\ Decodes("A") /\ Decodes("B") /\ sector["B"].seq = NextSeq(sector["A"].seq)
              => Newest = "B"
<1>1. /\ Decodes("A") => sector["A"].seq \in 1 .. SeqMod - 1
      /\ Decodes("B") => sector["B"].seq \in 1 .. SeqMod - 1
  BY DEF TypeOK, Contents, Records, Damaged, Erased, Decodes, Sectors
<1>2. CASE ~(Decodes("A") /\ Decodes("B"))
  BY <1>2 DEF Newest
<1>3. CASE Decodes("A") /\ Decodes("B")
  <2>1. sector["A"].seq = NextSeq(sector["B"].seq) => Newest = "A"
    BY <1>1, <1>3, Succession DEF Newest, Newer, SeqMod
  <2>2. sector["B"].seq = NextSeq(sector["A"].seq) => Newest = "B"
    BY <1>1, <1>3, Succession DEF Newest, Newer, SeqMod
  <2> QED BY <1>3, <2>1, <2>2
<1> QED BY <1>2, <1>3

\* The same, after a step.
LEMMA NewestIsNext ==
  ASSUME TypeOK'
  PROVE  /\ ~Decodes("A")' /\ ~Decodes("B")' => Newest' = "none"
         /\ Decodes("A")' /\ ~Decodes("B")' => Newest' = "A"
         /\ ~Decodes("A")' /\ Decodes("B")' => Newest' = "B"
         /\ Decodes("A")' /\ Decodes("B")' /\ sector'["A"].seq = NextSeq(sector'["B"].seq)
              => Newest' = "A"
         /\ Decodes("A")' /\ Decodes("B")' /\ sector'["B"].seq = NextSeq(sector'["A"].seq)
              => Newest' = "B"
<1>1. /\ Decodes("A")' => sector'["A"].seq \in 1 .. SeqMod - 1
      /\ Decodes("B")' => sector'["B"].seq \in 1 .. SeqMod - 1
  BY DEF TypeOK, Contents, Records, Damaged, Erased, Decodes, Sectors
<1>2. CASE ~(Decodes("A")' /\ Decodes("B")')
  BY <1>2 DEF Newest
<1>3. CASE Decodes("A")' /\ Decodes("B")'
  <2>1. sector'["A"].seq = NextSeq(sector'["B"].seq) => Newest' = "A"
    BY <1>1, <1>3, Succession DEF Newest, Newer, SeqMod
  <2>2. sector'["B"].seq = NextSeq(sector'["A"].seq) => Newest' = "B"
    BY <1>1, <1>3, Succession DEF Newest, Newer, SeqMod
  <2> QED BY <1>3, <2>1, <2>2
<1> QED BY <1>2, <1>3

LEMMA Shapes ==
  /\ Damaged \in Contents /\ Erased \in Contents /\ Records \subseteq Contents
  /\ Damaged.state # "full" /\ Erased.state # "full"
  /\ \A r \in Records : r.state = "full" /\ r.seq \in 1 .. SeqMod - 1 /\ r.val \in Values
  /\ \A n \in 1 .. SeqMod - 1, v \in Values : Full(n, v) \in Records
  /\ \A c \in Contents : c.state = "full" => c \in Records
BY DEF Damaged, Erased, Contents, Records, Full

LEMMA PairInitial == Init => PairInv
<1> SUFFICES ASSUME Init PROVE PairInv
  OBVIOUS
<1>1. Full(1, CHOOSE v \in Values : TRUE) \in Records
  <2>1. 1 \in 1 .. SeqMod - 1
    BY DEF SeqMod
  <2>2. (CHOOSE v \in Values : TRUE) \in Values
    OBVIOUS
  <2> QED BY <2>1, <2>2, Shapes
<1>2. CASE sector \in [Sectors -> {Erased, Damaged}]
  <2>1. sector \in [Sectors -> Contents] /\ ~Decodes("A") /\ ~Decodes("B")
    BY <1>2, Shapes DEF Decodes, Sectors
  <2> QED
    BY <1>1, <2>1 DEF Init, PairInv, TypeOK, Successive, Follows, OlderErased, Blank,
                     Written, Sectors
<1>3. CASE \E t \in Sectors, n \in 1 .. SeqMod - 1, v \in Values :
             sector = [s \in Sectors |-> IF s = t THEN Full(n, v) ELSE Erased]
  <2>1. PICK t \in Sectors, n \in 1 .. SeqMod - 1, v \in Values :
             sector = [s \in Sectors |-> IF s = t THEN Full(n, v) ELSE Erased]
    BY <1>3
  <2>2. sector \in [Sectors -> Contents] /\ ~(Decodes("A") /\ Decodes("B"))
    BY <2>1, Shapes DEF Decodes, Sectors
  <2> QED
    BY <1>1, <2>2 DEF Init, PairInv, TypeOK, Successive, Follows, OlderErased, Blank,
                     Written, Sectors
<1> QED BY <1>2, <1>3 DEF Init

\* Whether sector s, fixed, decodes after a step.
DecodesNext(s) == sector'[s].state = "full"

\* An operation on the destination that cannot leave a record there.
LEMMA DestLosesRecord ==
  ASSUME PairInv, NEW c \in {Damaged, Erased},
         pc # "idle", sector' = [sector EXCEPT ![dest] = c]
  PROVE  /\ sector' \in [Sectors -> Contents]
         /\ ~DecodesNext(dest) /\ ~(Decodes("A")' /\ Decodes("B")')
         /\ sector'[Other(dest)] = sector[Other(dest)]
<1>1. c \in Contents /\ c.state # "full"
  BY Shapes
<1>2. sector \in [Sectors -> Contents] /\ dest \in Sectors
  BY DEF PairInv, TypeOK
<1>3. /\ sector' \in [Sectors -> Contents]
      /\ sector'[dest] = c
      /\ sector'[Other(dest)] = sector[Other(dest)]
  <2>1. sector' \in [Sectors -> Contents]
    BY <1>1, <1>2
  <2>2. sector'[dest] = c
    BY <1>2
  <2>3. Other(dest) \in Sectors /\ Other(dest) # dest
    BY <1>2 DEF Other, Sectors
  <2> QED BY <1>2, <2>1, <2>2, <2>3
<1>4. ~DecodesNext(dest)
  BY <1>1, <1>3 DEF Decodes, DecodesNext
<1>5. ~(Decodes("A")' /\ Decodes("B")')
  BY <1>1, <1>2, <1>3 DEF Decodes, DecodesNext, Sectors
<1> QED BY <1>3, <1>4, <1>5

\* One that leaves the new record there.
LEMMA DestGainsRecord ==
  ASSUME PairInv, pc # "idle", sector' = [sector EXCEPT ![dest] = new]
  PROVE  /\ sector' \in [Sectors -> Contents]
         /\ sector'[dest] = new
         /\ sector'[Other(dest)] = sector[Other(dest)]
         /\ Successive'
BY Shapes DEF PairInv, TypeOK, Decodes, DecodesNext, Sectors, Other, Successive, Follows

LEMMA CommitIInv ==
  ASSUME PairInv, NEW v \in Values, Commit(v)
  PROVE  PairInv'
<1> USE DEF Commit
<1>1. new' \in Records
  <2>1. Newest # "none" => Newest \in Sectors /\ Decodes(Newest)
    BY DEF Newest, Newer, Sectors, Decodes
  <2>2. Newest # "none" => sector[Newest].seq \in 1 .. SeqMod - 1
    BY <2>1, Shapes DEF PairInv, TypeOK, Decodes
  <2>3. 1 \in 1 .. SeqMod - 1
    BY DEF SeqMod
  <2> QED BY <2>2, <2>3, Shapes, Succession
<1>2. TypeOK'
  BY <1>1 DEF PairInv, TypeOK, Sectors
<1>3. Follows' /\ OlderErased'
  <2>1. CASE Newest = "none"
    BY <2>1, NewestIs DEF PairInv, Successive, Follows, OlderErased, Decodes, Other
  <2>2. CASE Newest = "A"
    <3>1. Decodes("A") /\ new'.seq = NextSeq(sector["A"].seq)
      BY <2>2 DEF Newest, Newer, Full
    <3>2. Decodes("B") => sector["A"].seq = NextSeq(sector["B"].seq)
      BY <2>2, <3>1, NewestIs DEF PairInv, Successive
    <3> QED BY <2>2, <3>1, <3>2 DEF Follows, OlderErased, Decodes, Other
  <2>3. CASE Newest = "B"
    <3>1. Decodes("B") /\ new'.seq = NextSeq(sector["B"].seq)
      BY <2>3, NewestIs DEF Newest, Newer, Full, PairInv, Successive
    <3>2. Decodes("A") => sector["B"].seq = NextSeq(sector["A"].seq)
      BY <2>3, <3>1, NewestIs DEF PairInv, Successive
    <3> QED BY <2>3, <3>1, <3>2 DEF Follows, OlderErased, Decodes, Other
  <2> QED BY <2>1, <2>2, <2>3 DEF Newest, Newer
<1> QED BY <1>2, <1>3 DEF PairInv, Successive, Blank, Written, Decodes

\* Both ways a write stops early leave one of these in the destination.
LEMMA StopIInv ==
  ASSUME PairInv, pc # "idle",
         \E c \in Remains(pc, sector[dest]) : sector' = [sector EXCEPT ![dest] = c],
         pc' = "idle", dest' \in Sectors, new' \in Records,
         result' \in {"none", "ok", "error"}
  PROVE  PairInv'
<1>1. PICK c \in Remains(pc, sector[dest]) : sector' = [sector EXCEPT ![dest] = c]
  OBVIOUS
<1>2. c \in {Damaged, Erased} \/ c = new \/ c = sector[dest]
  BY <1>1 DEF Remains
<1>3. sector' \in [Sectors -> Contents] /\ Successive'
  <2>1. CASE c \in {Damaged, Erased}
    BY <1>1, <2>1, DestLosesRecord DEF Successive
  <2>2. CASE c = new
    BY <1>1, <2>2, DestGainsRecord
  <2>3. CASE c = sector[dest]
    BY <1>1, <2>3 DEF PairInv, TypeOK, Successive, Decodes
  <2> QED BY <1>2, <2>1, <2>2, <2>3
<1> QED BY <1>3 DEF PairInv, TypeOK, Follows, OlderErased, Blank, Written

LEMMA PairStep == PairInv /\ [Next]_vars => PairInv'
<1> SUFFICES ASSUME PairInv, [Next]_vars PROVE PairInv'
  OBVIOUS
<1>1. ASSUME NEW v \in Values, Commit(v) PROVE PairInv'
  BY <1>1, CommitIInv
<1>2. CASE Erase
  <2>1. sector' \in [Sectors -> Contents] /\ ~DecodesNext(dest)
        /\ ~(Decodes("A")' /\ Decodes("B")') /\ sector'[Other(dest)] = sector[Other(dest)]
    BY <1>2, DestLosesRecord DEF Erase
  <2> QED
    BY <1>2, <2>1 DEF Erase, PairInv, TypeOK, Successive, Follows, OlderErased, Blank,
                      Written, Decodes, DecodesNext
<1>3. CASE ProgramBody
  <2>1. sector' \in [Sectors -> Contents] /\ ~DecodesNext(dest)
        /\ ~(Decodes("A")' /\ Decodes("B")') /\ sector'[Other(dest)] = sector[Other(dest)]
    BY <1>3, DestLosesRecord DEF ProgramBody
  <2> QED
    BY <1>3, <2>1 DEF ProgramBody, PairInv, TypeOK, Successive, Follows, OlderErased, Blank,
                      Written, Decodes, DecodesNext
<1>4. CASE ProgramCrc
  <2>1. /\ sector' \in [Sectors -> Contents] /\ sector'[dest] = new
        /\ sector'[Other(dest)] = sector[Other(dest)] /\ Successive'
    BY <1>4, DestGainsRecord DEF ProgramCrc
  <2> QED
    BY <1>4, <2>1 DEF ProgramCrc, PairInv, TypeOK, Follows, OlderErased, Blank, Written, Decodes
<1>5. CASE Verify
  BY <1>5 DEF Verify, PairInv, TypeOK, Successive, Follows, OlderErased, Blank, Written, Decodes
<1>6. CASE Fail
  BY <1>6, StopIInv DEF Fail, PairInv, TypeOK
<1>7. CASE PowerCut
  <2>1. new' \in Records
    <3>1. 1 \in 1 .. SeqMod - 1
      BY DEF SeqMod
    <3>2. (CHOOSE v \in Values : TRUE) \in Values
      OBVIOUS
    <3> QED BY <1>7, <3>1, <3>2, Shapes DEF PowerCut
  <2> QED BY <1>7, <2>1, StopIInv DEF PowerCut, Sectors
<1>8. CASE UNCHANGED vars
  BY <1>8 DEF vars, PairInv, TypeOK, Successive, Follows, OlderErased, Blank, Written, Decodes
<1> QED BY <1>1, <1>2, <1>3, <1>4, <1>5, <1>6, <1>7, <1>8 DEF Next

THEOREM PairInvariance == Spec => []PairInv
BY PairInitial, PairStep, PTL DEF Spec

\* TypeOK: sequences stay within their range, 0 never among them, whichever
\* flash operation of metadata_commit fails or is cut.
THEOREM PairTypes == Spec => []TypeOK
<1>1. PairInv => TypeOK
  BY DEF PairInv
<1> QED BY <1>1, PairInvariance, PTL

\* NeverAmbiguous: mb_metadata_load never meets two records it cannot order,
\* through any number of wraps.
THEOREM Unambiguous == Spec => []NeverAmbiguous
<1>1. PairInv => NeverAmbiguous
  BY NewestIs DEF PairInv, Successive, NeverAmbiguous
<1> QED BY <1>1, PairInvariance, PTL

-----------------------------------------------------------------------------
(* The two sectors implement one atomically replaced record.               *)


\* What the load finds, seen from either sector d.
LEMMA LoadedIs ==
  ASSUME TypeOK, NEW d \in Sectors
  PROVE  /\ ~Decodes(d) =>
              Loaded = IF Decodes(Other(d)) THEN sector[Other(d)].val ELSE NoRecord
         /\ Decodes(d) /\ (Decodes(Other(d)) => sector[d].seq = NextSeq(sector[Other(d)].seq))
              => Loaded = sector[d].val
BY NewestIs DEF Loaded, Sectors, Other

LEMMA LoadedIsNext ==
  ASSUME TypeOK', NEW d \in Sectors
  PROVE  /\ ~DecodesNext(d) =>
              Loaded' = IF DecodesNext(Other(d)) THEN sector'[Other(d)].val ELSE NoRecord
         /\ (/\ DecodesNext(d)
             /\ DecodesNext(Other(d)) => sector'[d].seq = NextSeq(sector'[Other(d)].seq))
              => Loaded' = sector'[d].val
BY NewestIsNext DEF Loaded, Sectors, Other, Decodes, DecodesNext

\* Before its CRC word is written the new record plays no part in the load;
\* from then on it is what the load finds.
LEMMA LoadedDuringWrite ==
  ASSUME PairInv
  PROVE  /\ pc \in {"erase", "body", "crc"} =>
              Loaded = IF Decodes(Other(dest)) THEN sector[Other(dest)].val ELSE NoRecord
         /\ pc = "verify" => Loaded = new.val
<1>1. dest \in Sectors /\ Other(dest) \in Sectors /\ Other(Other(dest)) = dest
  BY DEF PairInv, TypeOK, Sectors, Other
<1>2. CASE pc \in {"body", "crc"}
  BY <1>1, <1>2, LoadedIs DEF PairInv, Blank
<1>3. CASE pc = "erase"
  <2>1. CASE Decodes(dest)
    BY <1>1, <1>3, <2>1, LoadedIs DEF PairInv, OlderErased
  <2>2. CASE ~Decodes(dest)
    BY <1>1, <1>3, <2>2, LoadedIs DEF PairInv
  <2> QED BY <2>1, <2>2
<1>4. CASE pc = "verify"
  <2>1. sector[dest] = new /\ Decodes(dest)
    BY <1>4, Shapes DEF PairInv, TypeOK, Written, Decodes
  <2> QED BY <1>1, <1>4, <2>1, LoadedIs DEF PairInv, Follows
<1> QED BY <1>2, <1>3, <1>4

\* A write that stops early leaves the old record or the new one to be found.
LEMMA LoadedAfterStop ==
  ASSUME PairInv, PairInv', pc # "idle",
         \E c \in Remains(pc, sector[dest]) : sector' = [sector EXCEPT ![dest] = c]
  PROVE  Loaded' \in {Loaded, new.val}
<1>1. PICK c \in Remains(pc, sector[dest]) : sector' = [sector EXCEPT ![dest] = c]
  OBVIOUS
<1>2. dest \in Sectors /\ sector \in [Sectors -> Contents] /\ TypeOK' /\ new \in Records
  BY DEF PairInv, TypeOK
<1>3. pc \in {"erase", "body", "crc", "verify"}
  BY DEF PairInv, TypeOK
<1>4. CASE c = sector[dest]
  <2>1. sector' = sector
    BY <1>1, <1>2, <1>4
  <2> QED BY <2>1 DEF Loaded, Newest, Newer, Decodes
<1>5. CASE c \in {Damaged, Erased} /\ c # sector[dest]
  <2>1. pc \in {"erase", "body", "crc"}
    BY <1>1, <1>3, <1>5 DEF Remains
  <2>2. /\ ~DecodesNext(dest) /\ sector'[Other(dest)] = sector[Other(dest)]
    BY <1>1, <1>5, DestLosesRecord
  <2> QED BY <1>2, <2>1, <2>2, LoadedIsNext, LoadedDuringWrite DEF Decodes, DecodesNext
<1>6. CASE c = new
  <2>1. sector'[dest] = new /\ sector'[Other(dest)] = sector[Other(dest)]
    BY <1>1, <1>6, DestGainsRecord
  <2>2. /\ DecodesNext(dest)
        /\ DecodesNext(Other(dest)) => new.seq = NextSeq(sector'[Other(dest)].seq)
    BY <1>2, <2>1, Shapes DEF Decodes, DecodesNext, PairInv, Follows
  <2> QED BY <1>2, <2>1, <2>2, LoadedIsNext
<1> QED BY <1>1, <1>4, <1>5, <1>6 DEF Remains

LEMMA PairRefineInit == Init => Cell!Init
<1> SUFFICES ASSUME Init PROVE Cell!Init
  OBVIOUS
<1>1. TypeOK
  BY PairInitial DEF PairInv
<1>2. Loaded \in Values \cup {NoRecord}
  <2>1. Newest # "none" => Newest \in Sectors /\ sector[Newest] \in Records
    BY <1>1, Shapes DEF Newest, Newer, Sectors, Decodes, TypeOK
  <2> QED BY <2>1, Shapes DEF Loaded
<1> QED BY <1>2 DEF Init, Cell!Init

LEMMA PairRefineStep ==
  ASSUME PairInv, PairInv', [Next]_vars
  PROVE  [Cell!Next]_(Cell!rvars)
<1> USE DEF Cell!Next, Cell!rvars
<1>1. dest \in Sectors /\ TypeOK' /\ new \in Records /\ new.val \in Values
  BY Shapes DEF PairInv, TypeOK
<1>2. ASSUME NEW v \in Values, Commit(v) PROVE Cell!Begin(v)
  BY <1>2 DEF Commit, Cell!Begin, Loaded, Newest, Newer, Decodes, Full
<1>3. CASE Erase \/ ProgramBody
  <2>1. /\ ~DecodesNext(dest) /\ sector'[Other(dest)] = sector[Other(dest)]
        /\ pc \in {"erase", "body"}
    BY <1>3, DestLosesRecord DEF Erase, ProgramBody
  <2>2. Loaded' = Loaded
    BY <1>1, <2>1, LoadedIsNext, LoadedDuringWrite DEF Decodes, DecodesNext
  <2> QED BY <1>3, <2>2 DEF Erase, ProgramBody
<1>4. CASE ProgramCrc
  <2>1. Loaded' = new'.val /\ new' = new
    <3>1. pc' = "verify" /\ new' = new
      BY <1>4 DEF ProgramCrc
    <3>2. sector'[dest] = new /\ sector'[Other(dest)] = sector[Other(dest)]
      BY <1>4, DestGainsRecord DEF ProgramCrc
    <3>3. /\ DecodesNext(dest)
          /\ DecodesNext(Other(dest)) => new.seq = NextSeq(sector'[Other(dest)].seq)
      BY <1>1, <1>4, <3>2, Shapes DEF Decodes, DecodesNext, PairInv, Follows, ProgramCrc
    <3> QED BY <1>1, <3>1, <3>2, <3>3, LoadedIsNext
  <2> QED BY <1>1, <1>4, <2>1 DEF ProgramCrc, Cell!Land
<1>5. CASE Verify
  <2>1. Loaded = new.val /\ Loaded' = Loaded
    BY <1>5, LoadedDuringWrite DEF Verify, Loaded, Newest, Newer, Decodes
  <2> QED BY <1>1, <1>5, <2>1 DEF Verify, Cell!Succeed
<1>6. CASE Fail \/ PowerCut
  <2>1. Loaded' \in {Loaded, new.val}
    BY <1>6, LoadedAfterStop DEF Fail, PowerCut
  <2> QED BY <1>1, <1>6, <2>1 DEF Fail, PowerCut, Cell!GiveUp
<1>7. CASE UNCHANGED vars
  BY <1>7 DEF vars, Loaded, Newest, Newer, Decodes
<1> QED BY <1>2, <1>3, <1>4, <1>5, <1>6, <1>7 DEF Next

\* RecordSurvives: whatever operation of metadata_commit fails or is cut, once
\* a record has been found one is always found.
THEOREM NeverLost == Spec => RecordSurvives
<1>1. PairInv /\ PairInv' /\ [Next]_vars => (Loaded # NoRecord => Loaded' # NoRecord)
  <2> SUFFICES ASSUME PairInv, PairInv', [Next]_vars, Loaded # NoRecord PROVE Loaded' # NoRecord
    OBVIOUS
  <2>1. new.val \in Values /\ (pc # "idle" => new.val # NoRecord)
    BY Shapes DEF PairInv, TypeOK
  <2>2. [Cell!Next]_(Cell!rvars)
    BY PairRefineStep
  <2> QED BY <2>1, <2>2 DEF Cell!Next, Cell!rvars, Cell!Begin, Cell!Land, Cell!Succeed,
                            Cell!GiveUp, Cell!Forget, Cell!Refuse
<1> QED BY <1>1, PairInvariance, PTL DEF Spec, RecordSurvives

\* ImplementsAtomicRecord: for every set of values and every width of the
\* sequence, the pair of sectors behaves as one atomically replaced record.
THEOREM PairRefines == Spec => ImplementsAtomicRecord
BY PairRefineInit, PairRefineStep, PairInvariance, PTL DEF Spec, Cell!Spec, ImplementsAtomicRecord

-----------------------------------------------------------------------------
(* The settings file.                                                      *)

\* The file and its backup are never a cut file: only the temporary one is written.
Files ==
  /\ file \in [Cfg!Names -> Values \cup {NoFile, CutFile}]
  /\ file["main"] # CutFile /\ file["bak"] # CutFile
  /\ live \in Values

\* Where a save is, and what it has already put on the card.
Saves ==
  /\ cpc \in Cfg!SaveSteps => saving \in Values
  /\ cpc \notin Cfg!SaveSteps => cpc \in {"idle", "load"} /\ saving = NoFile
  /\ cpc \in {"stat", "dropbak", "setaside", "install", "first"} => file["tmp"] = saving
  /\ cpc \in {"dropbak", "setaside"} => file["main"] # NoFile
  /\ cpc = "done" => file["main"] = saving

FilesInv == Files /\ Saves

\* What the operation of each step does to the record that a load would find.
LEMMA AfterStep ==
  ASSUME FilesInv, file' = Cfg!After(cpc)
  PROVE  /\ file' \in [Cfg!Names -> Values \cup {NoFile, CutFile}]
         /\ file'["main"] # CutFile /\ file'["bak"] # CutFile
         /\ cpc = "write" => file'["tmp"] = saving
         /\ cpc \in {"stat", "dropbak"} => file'["tmp"] = file["tmp"]
         /\ cpc \in {"stat", "dropbak"} => file'["main"] = file["main"]
         /\ cpc = "setaside" => file'["tmp"] = file["tmp"]
         /\ cpc \in {"install", "first"} => file'["main"] = saving /\ Cfg!Stored' = saving
         /\ cpc \notin {"install", "first"} => Cfg!Stored' = Cfg!Stored
<1> USE FilesAssumption DEF FilesInv, Files, Saves, Cfg!SaveSteps, Cfg!Names, Cfg!Stored
<1>1. CASE cpc = "open"
  BY <1>1 DEF Cfg!After
<1>2. CASE cpc = "write"
  BY <1>2 DEF Cfg!After
<1>3. CASE cpc \in {"stat", "done", "idle", "load"}
  BY <1>3 DEF Cfg!After
<1>4. CASE cpc = "dropbak"
  BY <1>4 DEF Cfg!After
<1>5. CASE cpc = "setaside"
  BY <1>5 DEF Cfg!After, Cfg!Renamed
<1>6. CASE cpc \in {"install", "first"}
  BY <1>6 DEF Cfg!After, Cfg!Renamed
<1>7. CASE cpc = "putback"
  BY <1>7 DEF Cfg!After, Cfg!Renamed, Cfg!CanRename
<1>8. CASE cpc = "cleanup"
  BY <1>8 DEF Cfg!After
<1> QED BY <1>1, <1>2, <1>3, <1>4, <1>5, <1>6, <1>7, <1>8

\* The same, of an operation that may have had its effect or not.
LEMMA MaybeAfterStep ==
  ASSUME FilesInv, file' \in {file, Cfg!After(cpc)}
  PROVE  /\ file' \in [Cfg!Names -> Values \cup {NoFile, CutFile}]
         /\ file'["main"] # CutFile /\ file'["bak"] # CutFile
         /\ Cfg!Stored' = Cfg!Stored \/ (cpc \in {"install", "first"} /\ Cfg!Stored' = saving)
<1>1. CASE file' = file
  BY <1>1 DEF FilesInv, Files, Cfg!Stored
<1>2. CASE file' = Cfg!After(cpc)
  BY <1>2, AfterStep
<1> QED BY <1>1, <1>2

\* A load brings the backup back without changing what it finds.
LEMMA OpenedSame ==
  ASSUME FilesInv, file' \in Cfg!Opened \cup {file}
  PROVE  /\ file' \in [Cfg!Names -> Values \cup {NoFile, CutFile}]
         /\ file'["main"] # CutFile /\ file'["bak"] # CutFile
         /\ Cfg!Stored' = Cfg!Stored
<1>1. CASE file' = file
  BY <1>1 DEF FilesInv, Files, Cfg!Stored
<1>2. CASE file' # file
  BY <1>2, FilesAssumption DEF FilesInv, Files, Cfg!Opened, Cfg!Renamed, Cfg!Stored, Cfg!Names
<1> QED BY <1>1, <1>2

LEMMA FilesInitial == Cfg!Init => FilesInv
BY FilesAssumption DEF Cfg!Init, FilesInv, Files, Saves, Cfg!Names, Cfg!SaveSteps

LEMMA FilesStep == FilesInv /\ [Cfg!Next]_Cfg!cvars => FilesInv'
<1> SUFFICES ASSUME FilesInv, [Cfg!Next]_Cfg!cvars PROVE FilesInv'
  OBVIOUS
<1> USE FilesAssumption DEF FilesInv, Cfg!Begin, Cfg!Finish, Cfg!GoTo, Cfg!memory
<1>1. CASE Cfg!Advance
  <2>1. Files'
    BY <1>1, AfterStep DEF Cfg!Advance, Files
  <2>2. Saves'
    BY <1>1, AfterStep DEF Cfg!Advance, Saves, Cfg!Following, Cfg!SaveSteps
  <2> QED BY <2>1, <2>2
<1>2. CASE Cfg!Install
  BY <1>2, AfterStep DEF Cfg!Install, Files, Saves, Cfg!SaveSteps
<1>3. CASE Cfg!Done
  BY <1>3 DEF Cfg!Done, Files, Saves, Cfg!SaveSteps
<1>4. CASE Cfg!Fail
  <2>1. Files'
    BY <1>4, MaybeAfterStep DEF Cfg!Fail, Files
  <2>2. Saves'
    BY <1>4 DEF Cfg!Fail, Saves, Cfg!SaveSteps
  <2> QED BY <2>1, <2>2
<1>5. CASE Cfg!PutBack \/ Cfg!Cleanup
  <2>1. Files'
    BY <1>5, MaybeAfterStep DEF Cfg!PutBack, Cfg!Cleanup, Files
  <2>2. Saves'
    BY <1>5 DEF Cfg!PutBack, Cfg!Cleanup, Saves, Cfg!SaveSteps
  <2> QED BY <2>1, <2>2
<1>6. CASE Cfg!Flush \/ Cfg!SaveProfile
  BY <1>6 DEF Cfg!Flush, Cfg!SaveProfile, Files, Saves, Cfg!SaveSteps
<1>7. ASSUME NEW v \in Values, Cfg!Edit(v) \/ Cfg!LoadProfile(v)
      PROVE  FilesInv'
  BY <1>7 DEF Cfg!Edit, Cfg!LoadProfile, Files, Saves, Cfg!SaveSteps
<1>8. CASE Cfg!Load
  <2>1. file'["main"] \in Values
    BY <1>8, OpenedSame DEF Cfg!Load, Files, Cfg!Names
  <2>2. Files'
    BY <1>8, <2>1, OpenedSame DEF Cfg!Load, Files
  <2>3. Saves'
    BY <1>8, <2>1 DEF Cfg!Load, Saves, Cfg!SaveSteps
  <2> QED BY <2>2, <2>3
<1>9. CASE Cfg!LoadNone \/ Cfg!Retry
  BY <1>9 DEF Cfg!LoadNone, Cfg!Retry, Files, Saves, Cfg!SaveSteps
<1>10. CASE Cfg!LoadFails
  <2>1. Files'
    BY <1>10, OpenedSame DEF Cfg!LoadFails, Files
  <2>2. Saves'
    BY <1>10 DEF Cfg!LoadFails, Saves, Cfg!SaveSteps
  <2> QED BY <2>1, <2>2
<1>11. CASE Cfg!PowerCut
  <2>1. Files'
    BY <1>11, MaybeAfterStep DEF Cfg!PowerCut, Files
  <2>2. Saves'
    BY <1>11 DEF Cfg!PowerCut, Saves, Cfg!SaveSteps
  <2> QED BY <2>1, <2>2
<1>12. CASE UNCHANGED Cfg!cvars
  BY <1>12 DEF Cfg!cvars, Files, Saves
<1> QED BY <1>1, <1>2, <1>3, <1>4, <1>5, <1>6, <1>7, <1>8, <1>9, <1>10, <1>11, <1>12
        DEF Cfg!Next

LEMMA FilesRefineInit == Cfg!Init => Cfg!Record!Init
<1> SUFFICES ASSUME Cfg!Init PROVE Cfg!Record!Init
  OBVIOUS
<1>1. Cfg!Stored \in Values \cup {NoFile}
  BY DEF Cfg!Init, Cfg!Stored, Cfg!Names
<1> QED BY <1>1 DEF Cfg!Init, Cfg!Record!Init

LEMMA FilesRefineStep ==
  ASSUME FilesInv, [Cfg!Next]_Cfg!cvars
  PROVE  [Cfg!Record!Next]_Cfg!Record!rvars
<1> USE FilesAssumption DEF Cfg!Begin, Cfg!Finish, Cfg!GoTo, Cfg!memory,
        Cfg!Record!Next, Cfg!Record!rvars
<1>0. Cfg!SaveSteps = {"open", "write", "stat", "dropbak", "setaside", "install", "first",
                       "done", "putback", "cleanup"}
  BY DEF Cfg!SaveSteps
<1>1. CASE Cfg!Advance
  <2>1. Cfg!Stored' = Cfg!Stored
    BY <1>1, AfterStep DEF Cfg!Advance
  <2> QED BY <1>1, <2>1 DEF Cfg!Advance
<1>2. CASE Cfg!Install
  <2>1. Cfg!Stored' = saving /\ saving \in Values
    BY <1>0, <1>2, AfterStep DEF Cfg!Install, FilesInv, Saves
  <2> QED BY <1>2, <2>1 DEF Cfg!Install, Cfg!Record!Land
<1>3. CASE Cfg!Done
  <2>1. Cfg!Stored = saving /\ saving \in Values
    BY <1>0, <1>3 DEF Cfg!Done, FilesInv, Saves, Cfg!Stored
  <2> QED BY <1>3, <2>1 DEF Cfg!Done, Cfg!Record!Succeed, Cfg!Stored
<1>4. CASE Cfg!Fail
  <2>1. saving \in Values
    BY <1>0, <1>4 DEF Cfg!Fail, FilesInv, Saves
  <2>2. Cfg!Stored' \in {Cfg!Stored, saving}
    BY <1>4, MaybeAfterStep DEF Cfg!Fail
  <2>3. CASE cpc = "open"
    BY <1>4, <2>1, <2>2, <2>3 DEF Cfg!Fail, Cfg!Record!GiveUp
  <2>4. CASE cpc # "open"
    BY <1>4, <2>1, <2>2, <2>4 DEF Cfg!Fail, Cfg!Record!Land
  <2> QED BY <2>3, <2>4
<1>5. CASE Cfg!PutBack
  <2>1. Cfg!Stored' = Cfg!Stored
    BY <1>5, MaybeAfterStep DEF Cfg!PutBack
  <2> QED BY <1>5, <2>1 DEF Cfg!PutBack
<1>6. CASE Cfg!Cleanup
  <2>1. Cfg!Stored' = Cfg!Stored /\ saving \in Values
    BY <1>0, <1>6, MaybeAfterStep DEF Cfg!Cleanup, FilesInv, Saves
  <2> QED BY <1>6, <2>1 DEF Cfg!Cleanup, Cfg!Record!GiveUp
<1>7. CASE Cfg!Flush
  <2>1. saving = NoFile /\ live \in Values /\ Cfg!Stored' = Cfg!Stored
    BY <1>0, <1>7 DEF Cfg!Flush, FilesInv, Files, Saves, Cfg!Stored
  <2> QED BY <1>7, <2>1 DEF Cfg!Flush, Cfg!Record!Begin
<1>8. CASE Cfg!SaveProfile \/ Cfg!Retry
  BY <1>8 DEF Cfg!SaveProfile, Cfg!Retry, Cfg!Stored
<1>9. ASSUME NEW v \in Values, Cfg!Edit(v) \/ Cfg!LoadProfile(v)
      PROVE  Cfg!Record!Next \/ UNCHANGED Cfg!Record!rvars
  <2>1. saving = NoFile /\ Cfg!Stored' = Cfg!Stored
    BY <1>0, <1>9 DEF Cfg!Edit, Cfg!LoadProfile, FilesInv, Saves, Cfg!Stored
  <2> QED BY <1>9, <2>1 DEF Cfg!Edit, Cfg!LoadProfile, Cfg!Record!Begin
<1>10. CASE Cfg!Load
  <2>1. file' \in Cfg!Opened /\ cpc = "load"
    BY <1>10 DEF Cfg!Load
  <2>2. Cfg!Stored' = Cfg!Stored /\ saving = NoFile
    BY <1>0, <2>1, OpenedSame DEF FilesInv, Saves
  <2>3. file'["main"] \in Values
    BY <1>10, <2>1, OpenedSame DEF Cfg!Load, Files, Cfg!Names
  <2> QED BY <1>10, <2>2, <2>3 DEF Cfg!Load, Cfg!Record!Begin
<1>11. CASE Cfg!LoadNone
  <2>1. saving = NoFile /\ live \in Values /\ Cfg!Stored' = Cfg!Stored
    BY <1>0, <1>11 DEF Cfg!LoadNone, FilesInv, Files, Saves, Cfg!Stored
  <2> QED BY <1>11, <2>1 DEF Cfg!LoadNone, Cfg!Record!Begin
<1>12. CASE Cfg!LoadFails
  <2>1. Cfg!Stored' = Cfg!Stored
    BY <1>12, OpenedSame DEF Cfg!LoadFails
  <2> QED BY <1>12, <2>1 DEF Cfg!LoadFails
<1>13. CASE Cfg!PowerCut
  <2>1. CASE cpc \in Cfg!SaveSteps
    BY <1>13, <2>1, MaybeAfterStep DEF Cfg!PowerCut, FilesInv, Saves, Cfg!Record!GiveUp
  <2>2. CASE cpc \notin Cfg!SaveSteps
    <3>1. saving = NoFile /\ Cfg!Stored' = Cfg!Stored
      BY <1>13, <2>2, MaybeAfterStep DEF Cfg!PowerCut, FilesInv, Saves
    <3> QED BY <1>13, <3>1 DEF Cfg!PowerCut, Cfg!Record!Forget
  <2> QED BY <2>1, <2>2
<1>14. CASE UNCHANGED Cfg!cvars
  BY <1>14 DEF Cfg!cvars, Cfg!Stored
<1> QED BY <1>1, <1>2, <1>3, <1>4, <1>5, <1>6, <1>7, <1>8, <1>9, <1>10, <1>11, <1>12, <1>13,
           <1>14 DEF Cfg!Next

\* config_menu.c:1444: wherever a save fails or is cut, the three names of the settings
\* file are one record that has been replaced or has not.
THEOREM SavedWhole == Cfg!Spec => ImplementsSavedSettings
BY FilesRefineInit, FilesRefineStep, FilesInitial, FilesStep, PTL
   DEF Cfg!Spec, Cfg!Record!Spec, ImplementsSavedSettings, Cfg!ImplementsSavedSettings

-----------------------------------------------------------------------------
(* The Golden image.  A valid primary header always stands before a whole  *)
(* image; while it does not, or while the primary is being rewritten, the  *)
(* trial is whole and is what runs.                                        *)

InInstall == gpc \in {"invalidate", "erase", "program", "verify", "commit", "final"}

\* The BootROM goes to the trial only past an invalid primary header.
PrimaryOrTrial ==
  /\ header["primary"] => body["primary"] \in Goldens
  /\ ~header["primary"] => Golden!Whole("trial")

\* A repair works from the trial, which is what is running.
RepairFromTrial ==
  /\ gpc = "repair" => run = body["trial"]
  /\ InInstall /\ dst = "primary" =>
       /\ Golden!Whole("trial") /\ src = body["trial"] /\ run = src
       /\ gpc \in {"erase", "program", "verify", "commit"} => ~header["primary"]

\* A trial is staged only beside a valid primary.
StageBesidePrimary == InInstall /\ dst = "trial" => header["primary"] /\ src \in Goldens

Verified ==
  /\ gpc \in {"commit", "final"} => body[dst] = src
  /\ gpc = "staged" => Golden!Whole("trial")

\* Only a whole trial is ever asked for, or found running.
TrialWhole ==
  /\ reg = "trial" => gpc \in {"rom", "golden"} /\ Golden!Whole("trial")
  /\ gpc = "golden" => reg \in Golden!Slots /\ run = body[reg]

\* The register names a product slot only while firmware is running.
FirmwareRuns ==
  reg = "firmware" =>
    \/ gpc = "app"
    \/ (InInstall \/ gpc = "staged") /\ back = "app" /\ dst = "trial"

\* A session has no answer before its repair.
NoAnswerYet == gpc \in {"rom", "golden", "repair"} => repair = "none"

GoldenInv == /\ Golden!TypeOK /\ PrimaryOrTrial /\ RepairFromTrial /\ StageBesidePrimary
        /\ Verified /\ TrialWhole /\ FirmwareRuns /\ NoAnswerYet

USE GoldensAssumption, MaxCutsAssumption

LEMMA GoldenInitial == Golden!Init => GoldenInv
<1> SUFFICES ASSUME Golden!Init PROVE GoldenInv
  OBVIOUS
<1>a. \A s \in Golden!Slots : header[s] = (body[s] \in Goldens)
  BY Zenon DEF Golden!Init
<1>b. header \in [Golden!Slots -> BOOLEAN]
  <2>1. \A s \in Golden!Slots : (body[s] \in Goldens) \in BOOLEAN
    OBVIOUS
  <2> QED BY <2>1, Zenon DEF Golden!Init
<1>c. "primary" \in Golden!Slots /\ "trial" \in Golden!Slots
  BY DEF Golden!Slots
<1>1. /\ body \in [Golden!Slots -> Goldens \cup {Golden!Junk}]
      /\ header \in [Golden!Slots -> BOOLEAN]
      /\ header["primary"] <=> body["primary"] \in Goldens
      /\ header["trial"] <=> body["trial"] \in Goldens
  BY <1>a, <1>b, <1>c, Zenon DEF Golden!Init
<1>2. PrimaryOrTrial
  BY <1>1 DEF Golden!Init, PrimaryOrTrial, Golden!Whole
<1>3. Golden!TypeOK
  BY <1>1 DEF Golden!Init, Golden!TypeOK, Golden!Slots, Golden!Answers
<1> QED
  BY <1>2, <1>3 DEF Golden!Init, GoldenInv, RepairFromTrial, StageBesidePrimary, Verified,
      TrialWhole, FirmwareRuns, NoAnswerYet, InInstall

\* Losing power leaves GoldenInv, if what is in the slots allows a start.
LEMMA CutKept ==
  ASSUME GoldenInv, Golden!Cut,
         header' \in [Golden!Slots -> BOOLEAN],
         body' \in [Golden!Slots -> Goldens \cup {Golden!Junk}],
         PrimaryOrTrial'
  PROVE  GoldenInv'
BY DEF Golden!Cut, GoldenInv, Golden!TypeOK, RepairFromTrial, StageBesidePrimary, Verified,
    TrialWhole, FirmwareRuns, NoAnswerYet, InInstall, Golden!Slots, Golden!Answers

\* So does an error return of install_slot_image.
LEMMA FailKept ==
  ASSUME GoldenInv, Golden!Fail, InInstall,
         header' \in [Golden!Slots -> BOOLEAN],
         body' \in [Golden!Slots -> Goldens \cup {Golden!Junk}],
         PrimaryOrTrial'
  PROVE  GoldenInv'
BY DEF Golden!Fail, GoldenInv, Golden!TypeOK, RepairFromTrial, StageBesidePrimary, Verified,
    TrialWhole, FirmwareRuns, NoAnswerYet, InInstall, Golden!Slots, Golden!Answers

LEMMA GoldenKept == GoldenInv /\ [Golden!Next]_Golden!vars => GoldenInv'
<1> SUFFICES ASSUME GoldenInv, [Golden!Next]_Golden!vars PROVE GoldenInv'
  OBVIOUS
<1> USE DEF GoldenInv, Golden!TypeOK, PrimaryOrTrial, RepairFromTrial, StageBesidePrimary,
    Verified, TrialWhole, FirmwareRuns, NoAnswerYet, InInstall, Golden!Whole, Golden!Slots,
    Golden!Answers
<1>1. CASE Golden!BootRom
  <2>1. Golden!Pick(reg) # "none"
          => Golden!Pick(reg) \in Golden!Slots /\ Golden!Whole(Golden!Pick(reg))
    BY DEF Golden!Pick
  <2>2. PrimaryOrTrial' /\ header' = header /\ body' = body
    BY <1>1 DEF Golden!BootRom, Golden!slots
  <2>3. Golden!Pick(reg) # "none"
    BY <1>1 DEF Golden!BootRom, Golden!Pick
  <2> QED BY <1>1, <2>1, <2>2, <2>3 DEF Golden!BootRom, Golden!Pick
<1>2. CASE Golden!Start
  BY <1>2 DEF Golden!Start, Golden!slots
<1>3. CASE Golden!BeginRepair
  BY <1>3 DEF Golden!BeginRepair, Golden!slots
<1>4. CASE Golden!Invalidate
  <2>1. /\ header' \in [Golden!Slots -> BOOLEAN] /\ body' = body
        /\ header' \in {header, [header EXCEPT ![dst] = FALSE]}
    BY <1>4 DEF Golden!Invalidate
  <2>2. PrimaryOrTrial'
    BY <1>4, <2>1 DEF Golden!Invalidate
  <2>3. CASE Golden!Stop
    BY <1>4, <2>1, <2>2, <2>3, CutKept, FailKept DEF Golden!Stop, Golden!Invalidate
  <2>4. CASE header' = [header EXCEPT ![dst] = FALSE] /\ Golden!GoTo("erase")
    BY <1>4, <2>1, <2>2, <2>4 DEF Golden!Invalidate, Golden!GoTo
  <2> QED BY <1>4, <2>3, <2>4 DEF Golden!Invalidate
<1>5. CASE Golden!Erase
  <2>1. /\ header' \in {header, [header EXCEPT ![dst] = FALSE]}
        /\ body' \in {body, [body EXCEPT ![dst] = Golden!Junk]}
    BY <1>5 DEF Golden!Erase
  <2>2. /\ header' \in [Golden!Slots -> BOOLEAN]
        /\ body' \in [Golden!Slots -> Goldens \cup {Golden!Junk}]
    BY <2>1, ZenonT(60)
  <2>3. CASE dst = "primary"
    <3>1. PrimaryOrTrial'
      BY <1>5, <2>1, <2>3 DEF Golden!Erase
    <3> QED BY <1>5, <2>1, <2>2, <2>3, <3>1, CutKept, FailKept DEF Golden!Erase,
        Golden!Stop, Golden!GoTo
  <2>4. CASE dst = "trial"
    <3>1. PrimaryOrTrial'
      BY <1>5, <2>1, <2>4 DEF Golden!Erase
    <3> QED BY <1>5, <2>1, <2>2, <2>4, <3>1, CutKept, FailKept DEF Golden!Erase,
        Golden!Stop, Golden!GoTo
  <2> QED BY <2>3, <2>4
<1>6. CASE Golden!Program
  BY <1>6 DEF Golden!Program, Golden!GoTo, Golden!Stop, Golden!Fail, Golden!Cut
<1>7. CASE Golden!VerifyBody
  BY <1>7 DEF Golden!VerifyBody, Golden!slots, Golden!GoTo, Golden!Stop, Golden!Fail,
      Golden!Cut
<1>8. CASE Golden!CommitIdent
  <2>1. /\ header' \in {header, [header EXCEPT ![dst] = TRUE]} /\ body' = body
        /\ header' \in [Golden!Slots -> BOOLEAN]
    BY <1>8 DEF Golden!CommitIdent
  <2>2. PrimaryOrTrial'
    BY <1>8, <2>1 DEF Golden!CommitIdent
  <2>3. CASE Golden!Stop
    BY <1>8, <2>1, <2>2, <2>3, CutKept, FailKept DEF Golden!Stop, Golden!CommitIdent
  <2>4. CASE Golden!GoTo("final")
    BY <1>8, <2>1, <2>2, <2>4 DEF Golden!CommitIdent, Golden!GoTo
  <2> QED BY <1>8, <2>3, <2>4 DEF Golden!CommitIdent
<1>9. CASE Golden!FinalVerify
  <2>1. /\ header' \in {header, [header EXCEPT ![dst] = FALSE]} /\ body' = body
        /\ header' \in [Golden!Slots -> BOOLEAN]
    BY <1>9 DEF Golden!FinalVerify
  <2>2. PrimaryOrTrial'
    BY <1>9, <2>1 DEF Golden!FinalVerify
  <2>3. CASE Golden!Stop
    BY <1>9, <2>1, <2>2, <2>3, CutKept, FailKept DEF Golden!Stop, Golden!FinalVerify
  <2>4. CASE ~Golden!Stop
    <3>1. CASE dst = "primary"
      BY <1>9, <2>2, <2>4, <3>1 DEF Golden!FinalVerify
    <3>2. CASE dst = "trial"
      BY <1>9, <2>2, <2>4, <3>2 DEF Golden!FinalVerify
    <3> QED BY <3>1, <3>2
  <2> QED BY <2>3, <2>4
<1>10. CASE Golden!BootStaged
  BY <1>10 DEF Golden!BootStaged, Golden!slots
<1>11. CASE Golden!RetireSource
  BY <1>11 DEF Golden!RetireSource, Golden!slots
<1>12. CASE Golden!Finish
  BY <1>12 DEF Golden!Finish, Golden!slots
<1>13. CASE Golden!PowerCut
  BY <1>13 DEF Golden!PowerCut, Golden!Cut, Golden!slots
<1>14. CASE Golden!StageFromSd \/ Golden!StageFromSerial
  BY <1>14 DEF Golden!StageFromSd, Golden!StageFromSerial, Golden!Stage, Golden!slots
<1>15. CASE Golden!BootFirmware \/ Golden!Reboot \/ Golden!ReturnToGolden \/ Golden!CopyToSd
  BY <1>15 DEF Golden!BootFirmware, Golden!Reboot, Golden!ReturnToGolden, Golden!CopyToSd,
      Golden!slots
<1>16. CASE UNCHANGED Golden!vars
  BY <1>16 DEF Golden!vars, Golden!slots
<1> QED BY <1>1, <1>2, <1>3, <1>4, <1>5, <1>6, <1>7, <1>8, <1>9, <1>10, <1>11, <1>12,
           <1>13, <1>14, <1>15, <1>16 DEF Golden!Next, Golden!GoldenStep, Golden!Install

-----------------------------------------------------------------------------
THEOREM GoldenInvariance == Golden!Spec => []GoldenInv
<1> QED BY GoldenInitial, GoldenKept, PTL DEF Golden!Spec

\* The types of GoldenUpdate's variables, in particular that no start ends in
\* the state where the BootROM finds nothing.
THEOREM GoldenTypes == Golden!Spec => []Golden!TypeOK
<1>1. GoldenInv => Golden!TypeOK
  BY DEF GoldenInv
<1> QED BY <1>1, GoldenInvariance, PTL

\* No step of an update, interrupted or not, leaves a card that a start finds
\* without a whole Golden: install_slot_image keeps the other slot bootable.
THEOREM Bootable == Golden!Spec => []AlwaysBootable
<1>1. GoldenInv => AlwaysBootable
  BY DEF GoldenInv, AlwaysBootable, Golden!AlwaysBootable, Golden!Pick, PrimaryOrTrial,
      TrialWhole, Golden!TypeOK, Golden!Whole, Golden!Slots
<1> QED BY <1>1, GoldenInvariance, PTL

\* What power-on starts changes only within a repair, to the image it copies.
LEMMA PowerOnChanges ==
  ASSUME GoldenInv, Golden!Next, Golden!PowerOnImage' # Golden!PowerOnImage
  PROVE  Golden!PowerOnImage' = src /\ dst = "primary" /\ InInstall /\ run = src
<1> USE DEF GoldenInv, Golden!TypeOK, PrimaryOrTrial, RepairFromTrial, StageBesidePrimary,
    Verified, TrialWhole, InInstall, Golden!Whole, Golden!Slots, Golden!Answers,
    Golden!PowerOnImage, Golden!Pick
<1>1. CASE Golden!Invalidate
  BY <1>1 DEF Golden!Invalidate
<1>2. CASE Golden!Erase
  BY <1>2 DEF Golden!Erase
<1>3. CASE Golden!Program
  BY <1>3 DEF Golden!Program
<1>4. CASE Golden!CommitIdent
  BY <1>4 DEF Golden!CommitIdent
<1>5. CASE Golden!FinalVerify
  BY <1>5 DEF Golden!FinalVerify
<1>6. CASE ~Golden!Install
  BY <1>6 DEF Golden!Next, Golden!GoldenStep, Golden!BootRom, Golden!Start,
      Golden!BeginRepair, Golden!BootStaged, Golden!RetireSource, Golden!Finish,
      Golden!PowerCut, Golden!StageFromSd, Golden!StageFromSerial, Golden!Stage,
      Golden!BootFirmware, Golden!Reboot, Golden!ReturnToGolden, Golden!CopyToSd,
      Golden!slots
<1> QED BY <1>1, <1>2, <1>3, <1>4, <1>5, <1>6 DEF Golden!Install, Golden!VerifyBody,
    Golden!slots

\* What power-on starts is replaced only by the Golden that has itself been
\* started from the trial slot: golden_self_update_repair_primary.
THEOREM TrialFirst == Golden!Spec => Golden!TrialRunsFirst
<1>1. GoldenInv /\ [Golden!Next]_Golden!vars
        => [Golden!PowerOnImage' # Golden!PowerOnImage => Golden!PowerOnImage' = run]_Golden!vars
  BY PowerOnChanges DEF Golden!vars, Golden!PowerOnImage, Golden!Pick
<1> QED BY <1>1, GoldenInvariance, PTL DEF Golden!Spec, Golden!TrialRunsFirst

\* BOOT.BIN goes only when the primary holds its image: the comparison of
\* golden_self_update_complete_sd.
THEOREM BootBinRetired == Golden!Spec => Golden!RetiredMeansInstalled
<1>1. GoldenInv /\ [Golden!Next]_Golden!vars => [(sd # NoImage /\ sd' = NoImage) =>
                               Golden!Whole("primary") /\ body["primary"] = sd]_Golden!vars
  BY DEF Golden!vars, Golden!Next, Golden!GoldenStep, Golden!Install, Golden!Invalidate,
      Golden!Erase, Golden!Program, Golden!VerifyBody, Golden!CommitIdent,
      Golden!FinalVerify, Golden!Stop, Golden!Cut, Golden!Fail, Golden!GoTo, Golden!BootRom,
      Golden!Start, Golden!BeginRepair, Golden!BootStaged, Golden!RetireSource,
      Golden!Finish, Golden!PowerCut, Golden!StageFromSd, Golden!StageFromSerial,
      Golden!Stage, Golden!BootFirmware, Golden!Reboot, Golden!ReturnToGolden,
      Golden!CopyToSd, Golden!slots, GoldenInv, Golden!TypeOK
<1> QED BY <1>1, GoldenInvariance, PTL DEF Golden!Spec, Golden!RetiredMeansInstalled

-----------------------------------------------------------------------------
(* The two slots as one record that a repair replaces                      *)

LEMMA GoldenRefineInit == Golden!Init => Golden!Pair!Init
<1> SUFFICES ASSUME Golden!Init PROVE Golden!Pair!Init
  OBVIOUS
<1>1. GoldenInv
  BY GoldenInitial
<1> QED BY <1>1 DEF Golden!Init, GoldenInv, PrimaryOrTrial, Golden!Whole,
    Golden!PowerOnImage, Golden!Pick, Golden!Pair!Init, Golden!Slots

\* Power-on's image while the primary is being rewritten, and while it is not.
LEMMA PowerOnIs ==
  ASSUME GoldenInv
  PROVE  /\ header["primary"] => Golden!PowerOnImage = body["primary"]
         /\ ~header["primary"] => Golden!PowerOnImage = body["trial"] /\ header["trial"]
BY DEF GoldenInv, Golden!PowerOnImage, Golden!Pick, PrimaryOrTrial, Golden!Whole,
    Golden!Slots

LEMMA GoldenRefineStep ==
  ASSUME GoldenInv, GoldenInv', [Golden!Next]_Golden!vars
  PROVE  [Golden!Pair!Next]_(Golden!Pair!rvars)
<1> USE DEF Golden!Pair!Next, Golden!Pair!rvars
<1>0. /\ header["primary"]' => Golden!PowerOnImage' = body["primary"]'
      /\ ~header["primary"]' => Golden!PowerOnImage' = body["trial"]' /\ header["trial"]'
  BY DEF GoldenInv, Golden!PowerOnImage, Golden!Pick, PrimaryOrTrial, Golden!Whole,
      Golden!Slots
<1>1. ASSUME UNCHANGED Golden!slots PROVE Golden!PowerOnImage' = Golden!PowerOnImage
  BY <1>1 DEF Golden!slots, Golden!PowerOnImage, Golden!Pick
<1>2. ASSUME InInstall, dst = "primary", Golden!Stop,
             Golden!PowerOnImage' \in {Golden!PowerOnImage, src}
      PROVE  Golden!Pair!GiveUp
  BY <1>2 DEF Golden!Stop, Golden!Fail, Golden!Cut, InInstall, Golden!Pair!GiveUp,
      GoldenInv, RepairFromTrial, Golden!Whole
<1>3. ASSUME InInstall, dst = "trial", Golden!Stop, Golden!PowerOnImage' = Golden!PowerOnImage
      PROVE  Golden!Pair!Forget \/ UNCHANGED Golden!Pair!rvars
  BY <1>3 DEF Golden!Stop, Golden!Fail, Golden!Cut, InInstall, Golden!Pair!Forget,
      GoldenInv, Golden!TypeOK
<1>4. ASSUME InInstall, InInstall', UNCHANGED <<repair, dst, src>>,
             Golden!PowerOnImage' # Golden!PowerOnImage
               => dst = "primary" /\ Golden!PowerOnImage' = src
      PROVE  Golden!Pair!Land \/ UNCHANGED Golden!Pair!rvars
  BY <1>4 DEF InInstall, Golden!Pair!Land, GoldenInv, RepairFromTrial, Golden!Whole
<1>5. CASE Golden!Install
  <2>1. InInstall /\ dst \in Golden!Slots
    BY <1>5 DEF Golden!Install, Golden!Invalidate, Golden!Erase, Golden!Program,
        Golden!VerifyBody, Golden!CommitIdent, Golden!FinalVerify, InInstall, GoldenInv,
        Golden!TypeOK
  <2>2. Golden!PowerOnImage' # Golden!PowerOnImage => dst = "primary" /\ Golden!PowerOnImage' = src
    BY <1>5, PowerOnChanges DEF Golden!Next, Golden!GoldenStep
  <2>3. \/ Golden!Stop
        \/ InInstall' /\ UNCHANGED <<repair, dst, src>>
        \/ /\ Golden!FinalVerify /\ body[dst] = src /\ Golden!Whole(dst)
           /\ UNCHANGED <<Golden!slots, dst, src>>
           /\ IF dst = "primary" THEN gpc' = "complete" /\ repair' = "ok"
                                 ELSE gpc' = "staged" /\ UNCHANGED repair
    BY <1>5 DEF Golden!Install, Golden!Invalidate, Golden!Erase, Golden!Program,
        Golden!VerifyBody, Golden!CommitIdent, Golden!FinalVerify, InInstall, Golden!GoTo,
        Golden!slots
  <2>4. CASE Golden!Stop
    BY <2>1, <2>2, <2>4, <1>2, <1>3 DEF Golden!Slots
  <2>5. CASE InInstall' /\ UNCHANGED <<repair, dst, src>>
    BY <2>1, <2>2, <2>5, <1>4
  <2>6. CASE /\ Golden!FinalVerify /\ body[dst] = src /\ Golden!Whole(dst)
             /\ UNCHANGED <<Golden!slots, dst, src>>
             /\ IF dst = "primary" THEN gpc' = "complete" /\ repair' = "ok"
                                   ELSE gpc' = "staged" /\ UNCHANGED repair
    <3>1. /\ Golden!PowerOnImage' = Golden!PowerOnImage
          /\ (dst = "primary" => Golden!PowerOnImage = src)
      BY <2>6, <1>1, PowerOnIs DEF Golden!Whole
    <3>2. CASE dst = "primary"
      BY <2>1, <2>6, <3>1, <3>2 DEF InInstall, Golden!Pair!Succeed, GoldenInv,
          RepairFromTrial, Golden!Whole
    <3>3. CASE dst = "trial"
      BY <2>6, <3>1, <3>3
    <3> QED BY <2>1, <3>2, <3>3 DEF Golden!Slots
  <2> QED BY <2>3, <2>4, <2>5, <2>6
<1>6. CASE Golden!BeginRepair
  <2>1. Golden!PowerOnImage' = Golden!PowerOnImage /\ gpc = "repair" /\ repair = "none"
    BY <1>1, <1>6 DEF Golden!BeginRepair, GoldenInv, NoAnswerYet
  <2> QED BY <1>6, <2>1 DEF Golden!BeginRepair, Golden!Pair!Begin, Golden!Pair!Refuse,
      Golden!Whole
<1>7. CASE Golden!StageFromSd \/ Golden!StageFromSerial \/ Golden!Start \/ Golden!BootFirmware
           \/ Golden!Reboot \/ Golden!ReturnToGolden \/ Golden!CopyToSd
           \/ Golden!BootRom \/ Golden!BootStaged
           \/ Golden!RetireSource \/ Golden!Finish
  <2>1. Golden!PowerOnImage' = Golden!PowerOnImage
    BY <1>1, <1>7 DEF Golden!StageFromSd, Golden!StageFromSerial, Golden!Stage,
        Golden!Start, Golden!BootFirmware, Golden!Reboot, Golden!ReturnToGolden,
        Golden!CopyToSd, Golden!BootRom, Golden!BootStaged, Golden!RetireSource,
        Golden!Finish
  <2> QED BY <1>7, <2>1 DEF Golden!StageFromSd, Golden!StageFromSerial, Golden!Stage,
      Golden!Start, Golden!BootFirmware, Golden!Reboot, Golden!ReturnToGolden,
      Golden!CopyToSd, Golden!BootRom, Golden!BootStaged, Golden!RetireSource,
      Golden!Finish, Golden!Pair!Forget
<1>8. CASE Golden!PowerCut
  <2>1. Golden!PowerOnImage' = Golden!PowerOnImage
    BY <1>1, <1>8 DEF Golden!PowerCut
  <2> QED BY <1>8, <2>1, <1>2, <1>3 DEF Golden!PowerCut, Golden!Cut, Golden!Stop, InInstall,
      Golden!Pair!Forget, GoldenInv, Golden!TypeOK, Golden!Slots
<1>9. CASE UNCHANGED Golden!vars
  BY <1>9, <1>1 DEF Golden!vars, Golden!slots
<1> QED BY <1>5, <1>6, <1>7, <1>8, <1>9 DEF Golden!Next, Golden!GoldenStep

\* ImplementsAtomicGolden: for every set of images, power-on's Golden is a
\* record that golden_self_update_repair_primary replaces all at once.
THEOREM GoldenRefines == Golden!Spec => ImplementsAtomicGolden
BY GoldenRefineInit, GoldenRefineStep, GoldenInvariance, PTL DEF Golden!Spec,
    Golden!Pair!Spec, ImplementsAtomicGolden, Golden!ImplementsAtomicGolden

\* A behaviour of the combined model is one of each record, in which the others rest.
THEOREM ThreeRecords ==
  MCSpec => /\ Spec /\ Cfg!Spec /\ Golden!Spec
<1>1. MCInit => Init /\ Cfg!Init /\ Golden!Init
  BY DEF MCInit
<1>2. [MCNext]_allVars
        => [Next]_vars /\ [Cfg!Next]_Cfg!cvars /\ [Golden!Next]_Golden!vars
  BY DEF MCNext, allVars, vars, cardVars, goldenVars, Cfg!cvars, Golden!vars
<1> QED BY <1>1, <1>2, PTL DEF MCSpec, Spec, Cfg!Spec, Golden!Spec
=============================================================================
