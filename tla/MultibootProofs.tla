---------------------------- MODULE MultibootProofs ----------------------------
(***************************************************************************)
(* Proofs about Multiboot, for every set of images, every number of files  *)
(* on the card and any number of losses of power.  The argument: a record  *)
(* is withdrawn before its slot is touched, and is only ever written from  *)
(* the live slot; between the two the header stays withdrawn until the     *)
(* body is whole.  So what the slots offer is a catalog in which only the  *)
(* record's writes show.                                                   *)
(***************************************************************************)
EXTENDS Multiboot, TLAPS

Installing == pc \in {"zero", "erase", "program", "ident", "finish"}

MetaRecords == [present : BOOLEAN, default : Choices, request : Choices,
                rec : [Products -> Images \cup {NoImage}]]

\* What is asked of a record: it is whole, and not of an image in two slots.
Sound(m) ==
  m.present => \A p \in Products :
    m.rec[p] # NoImage => Live(p) = m.rec[p] /\ m.rec[p] \notin LImages

\* An image being installed has no record, and no header until it is whole.
InstallInv ==
  Installing =>
    /\ idx \in 1 .. Files /\ cur \in Installable
    /\ meta.present /\ meta.rec[dst] = NoImage
    /\ pc \in {"erase", "program", "ident"} => ~ident[dst]
    /\ pc = "ident" => body[dst] = cur

\* A file about to be renamed has its record.
RenameInv ==
  pc = "rename" =>
    /\ idx \in 1 .. Files /\ cur \in Installable
    /\ meta.present /\ meta.rec[dst] = cur

IInv == TypeOK /\ Sound(meta) /\ HeaderMeansWhole /\ InstallInv /\ RenameInv

USE BoundsAssumption, ImagesAssumption

LEMMA LiveType ==
  ASSUME NEW p \in Products
  PROVE  Live(p) \in Images \cup {NoImage}
BY DEF Live

LEMMA ProductType == \A i : Product(i) \in Products
BY DEF Product, Products

\* Records that metadata_adopt makes from live slots are sound.
LEMMA AdoptedSound ==
  ASSUME TypeOK, Sound(meta)
  PROVE  Adopted \in MetaRecords /\ Adopted.present /\ Sound(Adopted)
<1>1. CASE meta.present
  BY <1>1 DEF Adopted, TypeOK, MetaRecords
<1>2. CASE ~meta.present
  <2>1. ASSUME NEW p \in Products
        PROVE  Offered(p) \in Images \cup {NoImage} /\ Offered(p) \in {NoImage, Live(p)}
    BY <1>2, <2>1, LiveType DEF Offered, OldLegacy, LiveTagged, Products
  <2> DEFINE rec == [p \in Products |-> IF Offered(p) \in LImages THEN NoImage ELSE Offered(p)]
  <2>2. /\ rec \in [Products -> Images \cup {NoImage}]
        /\ \A p \in Products : rec[p] # NoImage => rec[p] = Live(p) /\ rec[p] \notin LImages
    BY <2>1
  <2>3. /\ Adopted.present /\ Adopted.rec = rec
        /\ Adopted \in [present : BOOLEAN, default : Choices, request : Choices, rec : {rec}]
    BY <1>2 DEF Adopted, Choices, Products
  <2> QED BY <2>2, <2>3 DEF Sound, MetaRecords
<1> QED BY <1>1, <1>2

\* The record with other choices, or with one slot's authority withdrawn.
LEMMA WithoutAuthority ==
  ASSUME NEW m \in MetaRecords, m.present, Sound(m), NEW p \in Products
  PROVE  LET n == [m EXCEPT !.rec[p] = NoImage]
         IN  n \in MetaRecords /\ n.present /\ Sound(n) /\ n.rec[p] = NoImage
BY DEF MetaRecords, Sound

LEMMA WithChoice ==
  ASSUME NEW m \in MetaRecords, Sound(m), NEW c \in Choices
  PROVE  /\ [m EXCEPT !.request = c] \in MetaRecords /\ Sound([m EXCEPT !.request = c])
         /\ [m EXCEPT !.default = c] \in MetaRecords /\ Sound([m EXCEPT !.default = c])
BY DEF MetaRecords, Sound
-----------------------------------------------------------------------------
\* What holds of the flash whatever the program is doing.
FlashInv ==
  /\ ident \in [Products -> BOOLEAN] /\ body \in [Products -> Images \cup {Junk, Tail}]
  /\ meta \in MetaRecords /\ v4 \in BOOLEAN /\ Sound(meta) /\ HeaderMeansWhole

\* What holds of the rest.
CardInv ==
  /\ card \in [1 .. Files -> Images \cup {NoImage}]
  /\ pc \in {"reset", "file", "zero", "erase", "program", "ident", "finish", "rename",
             "select", "clear", "app", "switch", "cancel", "monitor", "stuck"}
  /\ idx \in 1 .. Files + 1 /\ chosen \in Images \cup {NoImage} /\ cuts \in 0 .. MaxCuts

LEMMA Split == IInv <=> FlashInv /\ CardInv /\ InstallInv /\ RenameInv
BY DEF IInv, TypeOK, FlashInv, CardInv, MetaRecords

LEMMA Join == FlashInv' /\ CardInv' /\ InstallInv' /\ RenameInv' => IInv'
BY DEF IInv, TypeOK, FlashInv, CardInv, MetaRecords

LEMMA FlashUnchanged == FlashInv /\ UNCHANGED flash => FlashInv'
BY DEF FlashInv, flash, HeaderMeansWhole, Sound, Live, Intact

\* A new sound record over the same slots.
LEMMA MetaCommitted ==
  ASSUME FlashInv, UNCHANGED <<ident, body>>, v4' \in BOOLEAN,
         meta' = meta \/ (meta' \in MetaRecords /\ Sound(meta'))
  PROVE  FlashInv'
<1>1. \A p \in Products : Live(p)' = Live(p)
  BY DEF Live, Intact
<1> QED BY <1>1 DEF FlashInv, HeaderMeansWhole, Sound

\* A slot without a record may change, if its header stays honest.
LEMMA SlotChanged ==
  ASSUME FlashInv, NEW p \in Products, UNCHANGED <<meta, v4>>,
         meta.present => meta.rec[p] = NoImage,
         NEW h \in BOOLEAN, NEW b \in Images \cup {Junk, Tail}, h => b \in Images,
         ident' = [ident EXCEPT ![p] = h], body' = [body EXCEPT ![p] = b]
  PROVE  FlashInv'
<1>1. \A q \in Products :
        meta.present /\ meta.rec[q] # NoImage => q # p /\ meta.rec[q] \notin LImages
  BY DEF FlashInv, Sound
<1>2. ASSUME NEW q \in Products, q # p, Live(q) \notin LImages, Live(q) # NoImage
      PROVE  Live(q)' = Live(q)
  BY <1>2 DEF Live, Intact, FlashInv
<1>3. Sound(meta)'
  BY <1>1, <1>2 DEF FlashInv, Sound
<1> QED BY <1>3 DEF FlashInv, HeaderMeansWhole

\* A batch step that gives up, or is cut.
LEMMA GiveUp ==
  ASSUME CardInv, NextFile \/ Cut, NextFile => idx \in 1 .. Files
  PROVE  CardInv' /\ InstallInv' /\ RenameInv'
<1>1. CASE NextFile
  BY <1>1 DEF NextFile, CardInv, InstallInv, RenameInv, Installing
<1>2. CASE Cut
  BY <1>2 DEF Cut, CardInv, InstallInv, RenameInv, Installing
<1> QED BY <1>1, <1>2

LEMMA UpdateBeginKeeps ==
  ASSUME IInv, UpdateBegin PROVE IInv'
<1> DEFINE m == [Adopted EXCEPT !.rec[dst] = NoImage]
<1>1. FlashInv /\ CardInv /\ pc = "file" /\ idx \in 1 .. Files /\ cur \in Installable
  BY Split DEF UpdateBegin, CardInv
<1>2. dst \in Products
  BY ProductType DEF dst
<1>3. m \in MetaRecords /\ m.present /\ Sound(m) /\ m.rec[dst] = NoImage
  BY <1>2, AdoptedSound, WithoutAuthority DEF IInv
<1>4. \/ GoTo("zero") /\ meta' = m
      \/ NextFile
      \/ Cut
  BY DEF UpdateBegin, Commit
<1>5. FlashInv'
  <2>1. meta' \in {meta, m} /\ v4' \in BOOLEAN /\ UNCHANGED <<ident, body>>
    BY <1>1 DEF UpdateBegin, Commit, FlashInv
  <2> QED BY <1>1, <1>3, <2>1, MetaCommitted
<1>6. CASE GoTo("zero") /\ meta' = m
  <2>1. cur' = cur /\ dst' = dst
    BY <1>6 DEF GoTo, cur, dst
  <2>2. CardInv' /\ InstallInv' /\ RenameInv'
    BY <1>1, <1>3, <1>6, <2>1 DEF GoTo, CardInv, InstallInv, RenameInv, Installing
  <2> QED BY <1>5, <2>2, Join
<1>7. CASE NextFile \/ Cut
  BY <1>1, <1>5, <1>7, GiveUp, Join
<1> QED BY <1>4, <1>6, <1>7

\* The steps of mb_install: one slot, without a record, changes.
LEMMA InstallKeeps ==
  ASSUME IInv, ZeroIdent \/ EraseSlot \/ ProgramBody \/ ProgramIdent PROVE IInv'
<1>1. /\ FlashInv /\ CardInv /\ dst \in Products /\ meta.rec[dst] = NoImage
      /\ idx \in 1 .. Files /\ cur \in Installable /\ meta.present /\ Installing
  BY Split, ProductType DEF ZeroIdent, EraseSlot, ProgramBody, ProgramIdent, IInv, InstallInv,
                            Installing, dst
<1>2. ident[dst] \in BOOLEAN /\ body[dst] \in Images \cup {Junk, Tail}
      /\ (ident[dst] => body[dst] \in Images) /\ cur \in Images
  BY <1>1 DEF FlashInv, HeaderMeansWhole, Installable, Images, Old
<1>3. PICK h \in BOOLEAN, b \in Images \cup {Junk, Tail} :
        /\ h => b \in Images
        /\ ident' = [ident EXCEPT ![dst] = h] /\ body' = [body EXCEPT ![dst] = b]
  BY <1>1, <1>2, ZenonT(60) DEF ZeroIdent, EraseSlot, ProgramBody, ProgramIdent, IInv, InstallInv,
                    Installing, FlashInv
<1>4. UNCHANGED <<meta, v4>>
  BY DEF ZeroIdent, EraseSlot, ProgramBody, ProgramIdent
<1>5. FlashInv'
  BY <1>1, <1>3, <1>4, SlotChanged
<1>6. CASE NextFile \/ Cut
  BY <1>1, <1>5, <1>6, GiveUp, Join
<1>7. CASE ~(NextFile \/ Cut)
  <2>1. cur' = cur /\ dst' = dst
    BY <1>7 DEF ZeroIdent, EraseSlot, ProgramBody, ProgramIdent, GoTo, cur, dst
  <2>2. CardInv'
    BY <1>1, <1>7 DEF CardInv, ZeroIdent, EraseSlot, ProgramBody, ProgramIdent, GoTo
  <2>3. InstallInv' /\ RenameInv'
    BY <1>1, <1>2, <1>4, <1>7, <2>1
       DEF ZeroIdent, EraseSlot, ProgramBody, ProgramIdent, GoTo, InstallInv, RenameInv,
           Installing, IInv, FlashInv
  <2> QED BY <1>5, <2>2, <2>3, Join
<1> QED BY <1>6, <1>7

LEMMA UpdateFinishKeeps ==
  ASSUME IInv, UpdateFinish PROVE IInv'
<1>1. /\ FlashInv /\ CardInv /\ dst \in Products /\ idx \in 1 .. Files
      /\ cur \in Installable /\ meta.present /\ cur \notin LImages
  BY Split, ProductType DEF UpdateFinish, IInv, InstallInv, Installing, dst, Installable
<1>2. CASE UNCHANGED flash /\ NextFile
  BY <1>1, <1>2, FlashUnchanged, GiveUp, Join
<1>3. CASE ~(UNCHANGED flash /\ NextFile)
  <2> DEFINE m == [meta EXCEPT !.rec[dst] = cur,
                     !.default = IF @ = "none" THEN dst ELSE @,
                     !.request = IF cur \in Old THEN "appletini" ELSE @]
  <2>1. Live(dst) = cur /\ Commit(m, GoTo("rename"), NextFile)
    BY <1>3 DEF UpdateFinish
  <2>2. m \in MetaRecords /\ m.present /\ m.rec[dst] = cur /\ Sound(m)
    <3>1. cur \in Images
      BY <1>1 DEF Installable, Images, Old
    <3>2. /\ m.present = meta.present /\ m.rec = [meta.rec EXCEPT ![dst] = cur]
          /\ m \in MetaRecords
      BY <1>1, <3>1 DEF FlashInv, MetaRecords, Choices, Products
    <3> QED BY <1>1, <2>1, <3>2 DEF Sound, FlashInv, MetaRecords
  <2>3. FlashInv'
    <3>1. meta' \in {meta, m} /\ v4' \in BOOLEAN /\ UNCHANGED <<ident, body>>
      BY <1>1, <2>1 DEF Commit, FlashInv
    <3> QED BY <1>1, <2>2, <3>1, MetaCommitted
  <2>4. (GoTo("rename") /\ meta' = m) \/ NextFile \/ Cut
    BY <2>1 DEF Commit
  <2>5. CASE NextFile \/ Cut
    BY <1>1, <2>3, <2>5, GiveUp, Join
  <2>6. CASE GoTo("rename") /\ meta' = m
    <3>1. cur' = cur /\ dst' = dst
      BY <2>6 DEF GoTo, cur, dst
    <3>2. CardInv' /\ InstallInv' /\ RenameInv'
      BY <1>1, <2>2, <2>6, <3>1 DEF GoTo, CardInv, InstallInv, RenameInv, Installing
    <3> QED BY <2>3, <3>2, Join
  <2> QED BY <2>4, <2>5, <2>6
<1> QED BY <1>2, <1>3

\* Steps that leave the flash alone.
LEMMA QuietKeeps ==
  ASSUME IInv, UNCHANGED flash,
         \/ StartBatch \/ SkipFile \/ RenameSource \/ EndBatch \/ Select
         \/ Interrupt \/ MonitorBoot \/ MonitorUpdate \/ MonitorReboot \/ CancelSwitch
         \/ Restart \/ PowerCut
         \/ \E i \in Images : MonitorReceive(i) \/ \E f \in 1 .. Files : Upload(f, i)
  PROVE  IInv'
<1>1. FlashInv' /\ CardInv
  BY Split, FlashUnchanged
<1>2. Selected \in Images \cup {NoImage}
  <2>1. \A p \in Products : Offered(p) \in Images \cup {NoImage}
    BY <1>1, LiveType DEF Offered, OldLegacy, LiveTagged, Products
  <2>2. First \in Products
    BY Split DEF First, FlashInv, MetaRecords, Choices, Products
  <2> QED BY <2>1, <2>2 DEF Selected, Peer, Products
<1>3. CASE StartBatch \/ SkipFile \/ EndBatch \/ Interrupt \/ MonitorBoot \/ MonitorUpdate
           \/ MonitorReboot \/ CancelSwitch \/ Restart
  BY <1>1, <1>3, Join
     DEF StartBatch, SkipFile, EndBatch, Interrupt, MonitorBoot, MonitorUpdate, MonitorReboot,
         CancelSwitch, Restart, GoTo, NextFile, CardInv, InstallInv, RenameInv, Installing
<1>4. CASE Select
  BY <1>1, <1>2, <1>4, Join DEF Select, CardInv, InstallInv, RenameInv, Installing
<1>5. CASE RenameSource
  <2>1. idx \in 1 .. Files
    BY <1>5 DEF RenameSource, IInv, RenameInv
  <2> QED BY <1>1, <1>5, <2>1, Join
          DEF RenameSource, NextFile, CardInv, InstallInv, RenameInv, Installing
<1>6. CASE PowerCut
  BY <1>1, <1>6, GiveUp, Join DEF PowerCut, Cut, NextFile
<1>7. CASE \E i \in Images : MonitorReceive(i) \/ \E f \in 1 .. Files : Upload(f, i)
  BY <1>1, <1>7, Join
     DEF MonitorReceive, Upload, Monitor, CardInv, InstallInv, RenameInv, Installing
<1> QED BY <1>3, <1>4, <1>5, <1>6, <1>7

\* Steps that write a choice.
LEMMA ChoiceKeeps ==
  ASSUME IInv,
         \/ ClearRequest \/ DropRequest
         \/ \E p \in Products : MonitorRequest(p) \/ SetDefault(p) \/ SwitchFirmware(p)
  PROVE  IInv'
<1>1. FlashInv /\ CardInv
  BY Split
<1> DEFINE Good(m) == m \in MetaRecords /\ Sound(m)
<1>2. /\ Good(meta) /\ Good([meta EXCEPT !.request = "none"])
      /\ \A p \in Products : /\ Good([Adopted EXCEPT !.request = p])
                             /\ Good([Adopted EXCEPT !.default = p])
  BY <1>1, AdoptedSound, WithChoice DEF IInv, FlashInv, Choices
<1>3. UNCHANGED <<ident, body>> /\ v4' \in BOOLEAN
  BY <1>1 DEF ClearRequest, DropRequest, MonitorRequest, SetDefault, SwitchFirmware, SetRequest,
              Commit, flash, FlashInv
<1>4. \/ meta' = meta \/ meta' = [meta EXCEPT !.request = "none"]
      \/ \E p \in Products : meta' \in {[Adopted EXCEPT !.request = p],
                                        [Adopted EXCEPT !.default = p]}
  BY DEF ClearRequest, DropRequest, MonitorRequest, SetDefault, SwitchFirmware, SetRequest,
         Commit, flash
<1>6. FlashInv'
  <2> HIDE DEF Good
  <2>1. Good(meta')
    BY <1>2, <1>4
  <2> QED BY <1>1, <1>3, <2>1, MetaCommitted DEF Good
<1>5. /\ pc' \in {"reset", "select", "clear", "app", "switch", "cancel", "monitor"}
      /\ UNCHANGED card /\ idx' \in {idx, 1} /\ chosen' \in {chosen, NoImage}
      /\ cuts' \in 0 .. MaxCuts
  BY <1>1 DEF ClearRequest, DropRequest, MonitorRequest, SetDefault, SwitchFirmware, SetRequest,
              Commit, GoTo, Cut, CardInv
<1> QED BY <1>1, <1>5, <1>6, Join DEF CardInv, InstallInv, RenameInv, Installing

LEMMA InitIInv == Init => IInv
<1> SUFFICES ASSUME Init PROVE IInv
  OBVIOUS
<1>1. ident \in [Products -> BOOLEAN] /\ \A p \in Products : ident[p] => body[p] \in Images
  <2>1. \A p \in Products : (body[p] \in Images) \in BOOLEAN
    OBVIOUS
  <2> QED BY <2>1, Zenon DEF Init
<1>2. body \in [Products -> Images \cup {Junk, Tail}]
  BY DEF Init, Images, Tagged
<1>3. meta \in MetaRecords /\ ~meta.present
  BY DEF Init, NoMeta, NoRec, MetaRecords, Choices
<1>4. FlashInv
  BY <1>1, <1>2, <1>3 DEF Init, FlashInv, Sound, HeaderMeansWhole
<1>5. CardInv /\ InstallInv /\ RenameInv
  BY DEF Init, CardInv, InstallInv, RenameInv, Installing
<1> QED BY <1>4, <1>5, Split

LEMMA NextIInv == IInv /\ [Next]_vars => IInv'
<1> SUFFICES ASSUME IInv, [Next]_vars PROVE IInv'
  OBVIOUS
<1>1. CASE GoldenStep
  BY <1>1, UpdateBeginKeeps, InstallKeeps, UpdateFinishKeeps, QuietKeeps, ChoiceKeeps
     DEF GoldenStep, StartBatch, SkipFile, RenameSource, EndBatch, Select, flash
<1>2. CASE OperatorStep
  BY <1>2, QuietKeeps, ChoiceKeeps
     DEF OperatorStep, Interrupt, MonitorBoot, MonitorUpdate, MonitorReboot, MonitorReceive,
         Upload, CancelSwitch, Restart
<1>3. CASE PowerCut
  BY <1>3, QuietKeeps DEF PowerCut
<1>4. CASE UNCHANGED vars
  BY <1>4, Split, FlashUnchanged, Join
     DEF vars, flash, CardInv, InstallInv, RenameInv, Installing, cur, dst
<1> QED BY <1>1, <1>2, <1>3, <1>4 DEF Next
-----------------------------------------------------------------------------
THEOREM Invariance == Spec => []IInv
<1> QED BY InitIInv, NextIInv, PTL DEF Spec

\* The types of Multiboot's variables.
THEOREM TypeCorrect == Spec => []TypeOK
<1>1. IInv => TypeOK
  BY DEF IInv
<1> QED BY <1>1, Invariance, PTL

\* A slot that a VALID record authorises holds the recorded image at every
\* step of mb_update_begin, mb_install and mb_update_finish, cut or failed.
THEOREM Authorised == Spec => []AuthorisedIsWhole
<1>1. IInv => AuthorisedIsWhole
  BY DEF IInv, Sound, AuthorisedIsWhole
<1> QED BY <1>1, Invariance, PTL

\* The XLNX word that mb_install withholds never precedes its image.
THEOREM HeaderLast == Spec => []HeaderMeansWhole
<1>1. IInv => HeaderMeansWhole
  BY DEF IInv
<1> QED BY <1>1, Invariance, PTL

\* install_update_file renames a file only when its slot offers its image.
THEOREM Renamed == Spec => RenamedMeansInstalled
<1>1. ASSUME IInv, [Next]_vars, NEW f \in 1 .. Files, card[f] # NoImage, card'[f] = NoImage
      PROVE  Offered(Product(card[f])) = card[f]
  <2>1. pc = "rename" /\ f = idx
    BY <1>1 DEF vars, Next, GoldenStep, OperatorStep, StartBatch, SkipFile, UpdateBegin, ZeroIdent,
      EraseSlot, ProgramBody, ProgramIdent, UpdateFinish, RenameSource, EndBatch, Select,
      ClearRequest, Interrupt, MonitorBoot, MonitorUpdate, MonitorReboot, MonitorRequest,
      SetDefault, SwitchFirmware, SetRequest, MonitorReceive, Upload, CancelSwitch, DropRequest,
      Restart, PowerCut, Commit, GoTo, NextFile, Cut, IInv, TypeOK
  <2>2. meta.present /\ meta.rec[dst] = cur /\ cur # NoImage /\ Live(dst) = cur
    BY <1>1, <2>1, ProductType DEF IInv, RenameInv, Sound, cur, dst
  <2> QED BY <2>1, <2>2 DEF Offered, cur, dst
<1>2. IInv /\ [Next]_vars => [\A f \in 1 .. Files : card[f] # NoImage /\ card'[f] = NoImage =>
                               Offered(Product(card[f])) = card[f]]_vars
  BY <1>1
<1> QED BY <1>2, Invariance, PTL DEF Spec, RenamedMeansInstalled

-----------------------------------------------------------------------------
(* The catalog.                                                            *)

\* An image runs exactly between its start and the next one of Golden, and without a
\* record nobody has made a choice.
RunInv ==
  /\ chosen # NoImage <=> pc \in {"clear", "app", "switch", "cancel"}
  /\ ~meta.present => meta.default = "none" /\ meta.request = "none"

CatalogInv == IInv /\ RunInv

\* The variables of FirmwareCatalog, as this module gives them.
Usable == [p \in Products |-> Offered(p)]
Updated == IF Installing THEN dst ELSE "none"
View == <<Usable, Adopted.default, meta.request, chosen, Updated>>

\* A step of a choice or of the batch that fails keeps the record, or loses power.
Failed == UNCHANGED <<ident, body, meta>> /\ v4' \in {v4, v4 /\ ~meta.present}

\* What a slot offers is an image or nothing, and the one in the Multitini slot is not
\* an old one's tail.
LEMMA OfferedType ==
  ASSUME NEW p \in Products
  PROVE  /\ Offered(p) \in Images \cup {NoImage}
         /\ ~meta.present /\ p = "multitini" => Offered(p) \in Tagged \cup {NoImage}
BY LiveType DEF Offered, OldLegacy, LiveTagged, Products

\* The slots that Golden and the firmware verify are those the catalog calls available.
LEMMA AvailableIs ==
  ASSUME NEW p \in Products
  PROVE  Catalog!Available(p) <=> SlotVerify(p)
BY OfferedType DEF Catalog!Available, SlotVerify, Images, Installable, Old, Tagged

\* What is started is what the catalog prefers.
LEMMA PreferredIs ==
  ASSUME CatalogInv
  PROVE  Catalog!Preferred = Selected
<1>1. \A p \in Products : Catalog!Available(p) <=> SlotVerify(p)
  BY AvailableIs
<1>2. Catalog!First \in Products /\ First \in Products
  BY DEF Catalog!First, First, CatalogInv, IInv, TypeOK, Choices, Products, Adopted
<1>3. CASE meta.present
  <2>1. Catalog!First = First
    BY <1>3 DEF Catalog!First, First, Adopted
  <2> QED
    BY <1>1, <1>2, <2>1
       DEF Catalog!Preferred, Selected, Catalog!Peer, Peer, Products
<1>4. CASE ~meta.present
  <2>1. meta.request = "none" /\ meta.default = "none"
    BY <1>4 DEF CatalogInv, RunInv
  <2>2. First = "appletini"
    BY <2>1 DEF First
  <2>3. CASE Adopted.default = "multitini"
    <3>1. ~SlotVerify("appletini") /\ Offered("multitini") # NoImage
          /\ Offered("multitini") \notin LImages
      BY <1>4, <2>3 DEF Adopted, SlotVerify, Products, Installable
    <3>2. SlotVerify("multitini")
      BY <1>4, <3>1, OfferedType DEF SlotVerify, Products
    <3>3. Catalog!First = "multitini"
      BY <2>1, <2>3 DEF Catalog!First
    <3> QED
      BY <1>1, <2>2, <3>1, <3>2, <3>3
         DEF Catalog!Preferred, Selected, Peer, Products
  <2>4. CASE Adopted.default # "multitini"
    <3>1. Catalog!First = "appletini"
      BY <1>4, <2>1, <2>4 DEF Catalog!First, Adopted
    <3> QED
      BY <1>1, <2>2, <3>1
         DEF Catalog!Preferred, Selected, Catalog!Peer, Peer, Products
  <2> QED
    BY <2>3, <2>4
<1> QED
  BY <1>3, <1>4

\* What the catalog shows depends on the flash only.
LEMMA FlashShown ==
  ASSUME UNCHANGED flash
  PROVE  Usable' = Usable /\ Adopted' = Adopted /\ meta' = meta
BY DEF flash, Usable, Adopted, Offered, OldLegacy, LiveTagged, Live, Intact

\* A slot that is not written keeps its image.
LEMMA SameSlots ==
  ASSUME UNCHANGED <<ident, body>>
  PROVE  \A p \in Products : Live(p)' = Live(p)
BY DEF Live, Intact

\* A write of the record that fails may still have cleared the old one.
LEMMA FailedShown ==
  ASSUME IInv, Failed
  PROVE  Usable' = Usable /\ Adopted'.default = Adopted.default /\ meta' = meta
<1>1. \A p \in Products : Live(p)' = Live(p)
  BY SameSlots DEF Failed
<1>2. meta' = meta /\ (~meta.present => v4' = v4)
  BY DEF Failed, IInv, TypeOK
<1>3. \A p \in Products : Offered(p)' = Offered(p)
  BY <1>1, <1>2 DEF Offered, OldLegacy, LiveTagged, Products
<1>4. Adopted' = Adopted
  BY <1>2, <1>3, Zenon DEF Adopted
<1> QED
  BY <1>2, <1>3, <1>4 DEF Usable

\* With a record a slot offers what the record says.
LEMMA RecordShown ==
  ASSUME NEW p \in Products, meta.present, Sound(meta)
  PROVE  Offered(p) = meta.rec[p]
BY DEF Offered, Sound

\* The record that is made of live slots offers what they do, but for an old image that
\* reaches into the other slot.
LEMMA AdoptedRecord ==
  ASSUME IInv, NEW p \in Products
  PROVE  /\ Adopted.rec[p] = IF ~meta.present /\ Offered(p) \in LImages THEN NoImage
                             ELSE Offered(p)
         /\ ~meta.present /\ Offered(p) \in LImages =>
              p = "appletini" /\ Offered("multitini") = NoImage
<1>1. CASE meta.present
  BY <1>1, RecordShown DEF Adopted, IInv
<1>2. CASE ~meta.present
  <2>1. Adopted.rec[p] = IF Offered(p) \in LImages THEN NoImage ELSE Offered(p)
    BY <1>2 DEF Adopted
  <2>2. ASSUME Offered(p) \in LImages
        PROVE  p = "appletini" /\ Offered("multitini") = NoImage
    <3>1. p = "appletini"
      BY <1>2, <2>2, OfferedType DEF Products, Installable, Images, Old
    <3>2. body["multitini"] = Tail
      BY <1>2, <2>2, <3>1
         DEF Offered, OldLegacy, LiveTagged, Live, Intact, Installable, Images, Old
    <3>3. Live("multitini") = NoImage
      BY <3>2 DEF Live
    <3> QED
      BY <1>2, <3>1, <3>3 DEF Offered, LiveTagged, Tagged, Images
  <2> QED
    BY <1>2, <2>1, <2>2
<1> QED
  BY <1>1, <1>2

\* A choice writes such a record, and changes no slot.
LEMMA AdoptedShown ==
  ASSUME IInv, IInv', UNCHANGED <<ident, body>>, meta'.present, meta'.rec = Adopted.rec,
         NEW q \in Products, SlotVerify(q)
  PROVE  Usable' = Usable
<1>1. \A p \in Products : Offered(p)' = meta'.rec[p]
  <2> SUFFICES ASSUME NEW p \in Products PROVE Offered(p)' = meta'.rec[p]
    OBVIOUS
  <2> QED
    BY DEF Offered, Sound, IInv
<1>2. \A p \in Products : ~(~meta.present /\ Offered(p) \in LImages)
  BY AdoptedRecord DEF SlotVerify, Products, Installable, Tagged, Images, Old
<1>3. \A p \in Products : Offered(p)' = Offered(p)
  BY <1>1, <1>2, AdoptedRecord
<1> QED
  BY <1>3 DEF Usable

\* The record of a slot is withdrawn, and the rest is as it was.
LEMMA WithdrawnShown ==
  ASSUME IInv, IInv', UNCHANGED <<ident, body>>, NEW q \in Products,
         ~(~meta.present /\ q = "multitini" /\ OldLegacy \in LImages),
         meta' = [Adopted EXCEPT !.rec[q] = NoImage]
  PROVE  Usable' = [Usable EXCEPT ![q] = NoImage]
<1>1. /\ meta'.present /\ meta'.rec = [Adopted.rec EXCEPT ![q] = NoImage]
      /\ Adopted.rec \in [Products -> Images \cup {NoImage}]
  BY AdoptedSound DEF MetaRecords, IInv
<1>2. \A p \in Products : Offered(p)' = meta'.rec[p]
  <2> SUFFICES ASSUME NEW p \in Products PROVE Offered(p)' = meta'.rec[p]
    OBVIOUS
  <2> QED
    BY <1>1 DEF Offered, Sound, IInv
<1>3. ASSUME NEW p \in Products, p # q
      PROVE  Offered(p)' = Offered(p)
  <2>1. ~(~meta.present /\ Offered(p) \in LImages)
    <3> SUFFICES ASSUME ~meta.present, Offered(p) \in LImages PROVE FALSE
      OBVIOUS
    <3>1. p = "appletini" /\ q = "multitini"
      BY <1>3, AdoptedRecord DEF Products
    <3>2. Offered(p) = OldLegacy
      BY <3>1 DEF Offered, LiveTagged, Installable
    <3> QED
      BY <3>1, <3>2
  <2>2. Offered(p)' = Adopted.rec[p]
    BY <1>1, <1>2, <1>3
  <2> QED
    BY <2>1, <2>2, AdoptedRecord
<1>4. Offered(q)' = NoImage
  BY <1>1, <1>2
<1> QED
  BY <1>3, <1>4 DEF Usable

\* While an image is installed its slot offers nothing, and the other one is as it was.
LEMMA InstallShown ==
  ASSUME IInv, IInv', Installing, UNCHANGED meta
  PROVE  Usable' = Usable /\ Adopted' = Adopted
<1>1. meta.present /\ Sound(meta) /\ Sound(meta)' /\ meta' = meta
  BY DEF IInv, InstallInv
<1>2. \A p \in Products : Offered(p) = meta.rec[p]
  BY <1>1, RecordShown
<1>3. \A p \in Products : Offered(p)' = meta.rec[p]
  <2> SUFFICES ASSUME NEW p \in Products PROVE Offered(p)' = meta.rec[p]
    OBVIOUS
  <2> QED
    BY <1>1 DEF Offered, Sound
<1> QED
  BY <1>1, <1>2, <1>3 DEF Usable, Adopted

-----------------------------------------------------------------------------
(* The steps of the catalog, over what this module shows of them.          *)

\* Where nothing of it changes the catalog stutters.
LEMMA Stutters == UNCHANGED View => UNCHANGED Catalog!cvars
BY DEF View, Catalog!cvars, Usable, Updated, Installing

\* An update takes its slot's image away.
LEMMA Invalidates ==
  ASSUME NEW p \in Products, chosen = NoImage, Updated = "none",
         Usable' = [Usable EXCEPT ![p] = NoImage], Updated' \in {p, "none"},
         Adopted'.default = Adopted.default, meta'.request = meta.request, chosen' = chosen
  PROVE  Catalog!Next
<1>1. Catalog!Invalidate(p)
  BY DEF Catalog!Invalidate, Usable, Updated, Installing
<1> QED
  BY <1>1 DEF Catalog!Next, Catalog!Products, Products

\* An update ends without an image.
LEMMA Abandons ==
  ASSUME Updated' = "none", Usable' = Usable, Adopted'.default = Adopted.default,
         meta'.request = meta.request, chosen' = chosen
  PROVE  Catalog!Next
<1>1. Catalog!Abandon
  BY DEF Catalog!Abandon, Usable, Updated, Installing
<1> QED
  BY <1>1 DEF Catalog!Next

\* An update ends with its image in its slot.
LEMMA Publishes ==
  ASSUME NEW i \in Installable, Updated = Product(i), Updated' = "none",
         Offered(Product(i)) = NoImage,
         Usable' = [Usable EXCEPT ![Product(i)] = i],
         Adopted'.default = IF Adopted.default = "none" THEN Product(i) ELSE Adopted.default,
         meta'.request = IF i \in Old THEN "appletini" ELSE meta.request, chosen' = chosen
  PROVE  Catalog!Next
<1>1. Catalog!Product(i) = Product(i) /\ i \in Catalog!Images /\ Product(i) \in Products
  BY DEF Catalog!Product, Product, Catalog!Images, Installable, Tagged, Old, Products
<1>2. Catalog!Publish(i)
  BY <1>1 DEF Catalog!Publish, Usable, Updated, Installing
<1> QED
  BY <1>1, <1>2 DEF Catalog!Next

\* A slot that is verified becomes the owner's choice.
LEMMA Chooses ==
  ASSUME NEW p \in Products, SlotVerify(p), Usable' = Usable,
         chosen' \in {chosen, NoImage}, Updated' = Updated,
         \/ Adopted'.default = p /\ meta'.request = meta.request
         \/ Adopted'.default = Adopted.default /\ meta'.request = p
  PROVE  Catalog!Next
<1>1. Catalog!Available(p)
  BY AvailableIs
<1>2. Catalog!SetDefault(p) \/ Catalog!SetRequest(p)
  BY <1>1 DEF Catalog!SetDefault, Catalog!SetRequest, Catalog!MayStop, Usable, Updated,
              Installing
<1> QED
  BY <1>2 DEF Catalog!Next, Catalog!Products, Products

\* A started image drops the request.
LEMMA Clears ==
  ASSUME chosen # NoImage, meta'.request = "none", Usable' = Usable,
         Adopted'.default = Adopted.default, chosen' \in {chosen, NoImage}, Updated' = Updated
  PROVE  Catalog!Next
<1>1. Catalog!ClearRequest
  BY DEF Catalog!ClearRequest, Catalog!MayStop, Usable, Updated, Installing
<1> QED
  BY <1>1 DEF Catalog!Next

\* Golden starts what it has selected.
LEMMA Begins ==
  ASSUME CatalogInv, chosen = NoImage, Updated = "none", Selected # NoImage,
         chosen' = Selected, Usable' = Usable, Adopted'.default = Adopted.default,
         meta'.request = meta.request, Updated' = Updated
  PROVE  Catalog!Next
<1>1. Catalog!Start
  BY PreferredIs DEF Catalog!Start, Usable, Updated, Installing
<1> QED
  BY <1>1 DEF Catalog!Next

\* Golden runs again.
LEMMA Restarts ==
  ASSUME chosen' = NoImage, Usable' = Usable, Adopted'.default = Adopted.default,
         meta'.request = meta.request, Updated' = Updated
  PROVE  Catalog!Next
<1>1. Catalog!Restart
  BY DEF Catalog!Restart, Usable, Updated, Installing
<1> QED
  BY <1>1 DEF Catalog!Next

-----------------------------------------------------------------------------
(* Every step of this module is one of the catalog, or none.               *)

CatalogStep == Catalog!Next \/ UNCHANGED Catalog!cvars

\* A choice is made, and the write of it succeeds, fails or is cut.
LEMMA ChoiceShown ==
  ASSUME CatalogInv, IInv', NEW p \in Products, SlotVerify(p), ~Installing, ~Installing',
         \/ meta' \in {[Adopted EXCEPT !.request = p], [Adopted EXCEPT !.default = p]}
            /\ UNCHANGED <<ident, body>>
         \/ Failed,
         chosen' \in {chosen, NoImage}
  PROVE  CatalogStep
<1>1. Updated = "none" /\ Updated' = "none"
  BY DEF Updated
<1>2. CASE Failed
  <2>1. Usable' = Usable /\ Adopted'.default = Adopted.default /\ meta' = meta
    BY <1>2, FailedShown DEF CatalogInv
  <2>2. CASE chosen' = chosen
    BY <1>1, <2>1, <2>2, Stutters DEF View, CatalogStep
  <2>3. CASE chosen' = NoImage
    BY <1>1, <2>1, <2>3, Restarts DEF CatalogStep
  <2> QED
    BY <2>2, <2>3
<1>3. CASE meta' \in {[Adopted EXCEPT !.request = p], [Adopted EXCEPT !.default = p]}
           /\ UNCHANGED <<ident, body>>
  <2>1. Adopted \in MetaRecords /\ Adopted.present
    BY AdoptedSound DEF CatalogInv, IInv
  <2>2. meta'.present /\ meta'.rec = Adopted.rec
    BY <1>3, <2>1 DEF MetaRecords
  <2>3. Usable' = Usable
    BY <1>3, <2>2, AdoptedShown DEF CatalogInv
  <2>4. Adopted' = meta'
    BY <2>2 DEF Adopted
  <2>5. Adopted.request = meta.request
    BY DEF Adopted, CatalogInv, RunInv
  <2>6. \/ Adopted'.default = p /\ meta'.request = meta.request
        \/ Adopted'.default = Adopted.default /\ meta'.request = p
    BY <1>3, <2>1, <2>4, <2>5 DEF MetaRecords
  <2> QED
    BY <1>1, <2>3, <2>6, Chooses DEF CatalogStep
<1> QED
  BY <1>2, <1>3

\* What a request needs: mb_slot_probe trusts a record that is always whole.
LEMMA ProbedIsVerified ==
  ASSUME CatalogInv, NEW p \in Products,
         IF meta.present THEN SlotProbe(p) ELSE Adopted.rec[p] \in Tagged
  PROVE  SlotVerify(p)
<1>1. CASE meta.present
  <2>1. Offered(p) = meta.rec[p] /\ meta.rec[p] \in Images \cup {NoImage}
    BY <1>1, RecordShown DEF CatalogInv, IInv, TypeOK
  <2> QED
    BY <1>1, <2>1 DEF SlotProbe, SlotVerify, Images
<1>2. CASE ~meta.present
  BY <1>2, AdoptedRecord DEF CatalogInv, SlotVerify, Tagged, Images
<1> QED
  BY <1>1, <1>2

\* The request is dropped when its image has started, or when the switch is given up.
LEMMA ClearShown ==
  ASSUME CatalogInv, IInv', chosen # NoImage, ~Installing, ~Installing',
         \/ meta' = [meta EXCEPT !.request = "none"] /\ UNCHANGED <<ident, body>>
            /\ meta.present
         \/ Failed,
         chosen' \in {chosen, NoImage}
  PROVE  CatalogStep
<1>1. Updated = "none" /\ Updated' = "none"
  BY DEF Updated
<1>2. CASE Failed
  <2>1. Usable' = Usable /\ Adopted'.default = Adopted.default /\ meta' = meta
    BY <1>2, FailedShown DEF CatalogInv
  <2>2. CASE chosen' = chosen
    BY <1>1, <2>1, <2>2, Stutters DEF View, CatalogStep
  <2>3. CASE chosen' = NoImage
    BY <1>1, <2>1, <2>3, Restarts DEF CatalogStep
  <2> QED
    BY <2>2, <2>3
<1>3. CASE meta' = [meta EXCEPT !.request = "none"] /\ UNCHANGED <<ident, body>>
           /\ meta.present
  <2>1. /\ meta'.present /\ meta'.rec = meta.rec /\ meta'.request = "none"
        /\ meta'.default = meta.default
    BY <1>3 DEF CatalogInv, IInv, TypeOK
  <2>2. \A p \in Products : Live(p)' = Live(p)
    BY <1>3, SameSlots
  <2>3. Usable' = Usable
    BY <1>3, <2>1, <2>2 DEF Usable, Offered
  <2>4. Adopted'.default = Adopted.default
    BY <1>3, <2>1 DEF Adopted
  <2> QED
    BY <1>1, <2>1, <2>3, <2>4, Clears DEF CatalogStep
<1> QED
  BY <1>2, <1>3

\* An update begins.
LEMMA UpdateBeginShown ==
  ASSUME CatalogInv, IInv', UpdateBegin
  PROVE  CatalogStep
<1> DEFINE m == [Adopted EXCEPT !.rec[dst] = NoImage]
<1>1. pc = "file" /\ dst \in Products /\ chosen = NoImage /\ Updated = "none"
  BY ProductType DEF UpdateBegin, dst, CatalogInv, RunInv, Updated, Installing
<1>2. \/ meta' = m /\ UNCHANGED <<ident, body>>
      \/ Failed /\ (NextFile \/ Cut)
  BY DEF UpdateBegin, Commit, Failed
<1>3. GoTo("zero") \/ NextFile \/ Cut
  BY DEF UpdateBegin, Commit
<1>4. chosen' = chosen /\ Updated' \in {dst, "none"} /\ (NextFile \/ Cut => Updated' = "none")
  BY <1>1, <1>3 DEF GoTo, NextFile, Cut, Updated, Installing, dst, cur
<1>5. CASE Failed /\ (NextFile \/ Cut)
  BY <1>1, <1>4, <1>5, FailedShown, Stutters DEF CatalogInv, View, CatalogStep
<1>6. CASE meta' = m /\ UNCHANGED <<ident, body>>
  <2>1. Usable' = [Usable EXCEPT ![dst] = NoImage]
    BY <1>1, <1>6, WithdrawnShown DEF CatalogInv, UpdateBegin
  <2>2. Adopted \in MetaRecords /\ Adopted.present
    BY AdoptedSound DEF CatalogInv, IInv
  <2>3. meta'.present /\ meta'.default = Adopted.default /\ meta'.request = Adopted.request
    BY <1>6, <2>2 DEF MetaRecords
  <2>4. Adopted' = meta' /\ Adopted.request = meta.request
    BY <2>3 DEF Adopted, CatalogInv, RunInv
  <2> QED
    BY <1>1, <1>4, <2>1, <2>3, <2>4, Invalidates DEF CatalogStep
<1> QED
  BY <1>2, <1>5, <1>6

\* Until it is recorded an update shows nothing, however it ends.
LEMMA InstallSteps ==
  ASSUME CatalogInv, IInv', ZeroIdent \/ EraseSlot \/ ProgramBody \/ ProgramIdent
  PROVE  CatalogStep
<1>1. Installing /\ UNCHANGED meta /\ chosen = NoImage
  BY DEF ZeroIdent, EraseSlot, ProgramBody, ProgramIdent, Installing, CatalogInv, RunInv
<1>2. Usable' = Usable /\ Adopted' = Adopted
  BY <1>1, InstallShown DEF CatalogInv
<1>3. \/ NextFile \/ Cut
      \/ GoTo("erase") \/ GoTo("program") \/ GoTo("ident") \/ GoTo("finish")
  BY DEF ZeroIdent, EraseSlot, ProgramBody, ProgramIdent
<1>4. CASE NextFile \/ Cut
  <2>1. Updated' = "none" /\ chosen' = chosen
    BY <1>1, <1>4 DEF NextFile, Cut, Updated, Installing
  <2> QED
    BY <1>1, <1>2, <2>1, Abandons DEF CatalogStep
<1>5. CASE GoTo("erase") \/ GoTo("program") \/ GoTo("ident") \/ GoTo("finish")
  <2>1. Updated' = Updated /\ chosen' = chosen
    BY <1>1, <1>5 DEF GoTo, Updated, Installing, dst, cur
  <2> QED
    BY <1>1, <1>2, <2>1, Stutters DEF View, CatalogStep
<1> QED
  BY <1>3, <1>4, <1>5

\* The record of the new image is what publishes it.
LEMMA UpdateFinishShown ==
  ASSUME CatalogInv, IInv', UpdateFinish
  PROVE  CatalogStep
<1>1. /\ Installing /\ chosen = NoImage /\ dst \in Products /\ cur \in Installable
      /\ meta.present /\ meta.rec[dst] = NoImage /\ Updated = Product(cur)
  BY ProductType
     DEF UpdateFinish, Installing, CatalogInv, RunInv, IInv, InstallInv, dst, Updated
<1>2. GoTo("rename") \/ NextFile \/ Cut
  BY DEF UpdateFinish, Commit
<1>3. Updated' = "none" /\ chosen' = chosen
  BY <1>1, <1>2 DEF GoTo, NextFile, Cut, Updated, Installing
<1>4. CASE UNCHANGED meta
  <2>1. Usable' = Usable /\ Adopted' = Adopted
    BY <1>1, <1>4, InstallShown DEF CatalogInv
  <2> QED
    BY <1>3, <1>4, <2>1, Abandons DEF CatalogStep
<1>5. CASE meta' # meta
  <2>1. meta' = [meta EXCEPT !.rec[dst] = cur,
                   !.default = IF @ = "none" THEN dst ELSE @,
                   !.request = IF cur \in Old THEN "appletini" ELSE @]
    BY <1>5 DEF UpdateFinish, Commit, flash
  <2>2. /\ meta'.present /\ meta'.rec = [meta.rec EXCEPT ![dst] = cur]
        /\ meta'.default = IF meta.default = "none" THEN dst ELSE meta.default
        /\ meta'.request = IF cur \in Old THEN "appletini" ELSE meta.request
    BY <1>1, <2>1 DEF CatalogInv, IInv, TypeOK
  <2>3. \A p \in Products : Offered(p) = meta.rec[p] /\ Offered(p)' = meta'.rec[p]
    <3> SUFFICES ASSUME NEW p \in Products
                 PROVE  Offered(p) = meta.rec[p] /\ Offered(p)' = meta'.rec[p]
      OBVIOUS
    <3> QED
      BY <1>1, <2>2 DEF CatalogInv, IInv, Sound, Offered
  <2>4. Usable' = [Usable EXCEPT ![Product(cur)] = cur] /\ Offered(Product(cur)) = NoImage
    BY <1>1, <2>2, <2>3 DEF Usable, dst, CatalogInv, IInv, TypeOK
  <2>5. Adopted = meta /\ Adopted' = meta'
    BY <1>1, <2>2 DEF Adopted
  <2> QED
    BY <1>1, <1>3, <2>2, <2>4, <2>5, Publishes DEF CatalogStep, dst
<1> QED
  BY <1>4, <1>5

\* Nothing the catalog shows is touched.
LEMMA QuietShown ==
  ASSUME CatalogInv, UNCHANGED flash,
         \/ StartBatch \/ SkipFile \/ RenameSource \/ EndBatch \/ Select
         \/ Interrupt \/ MonitorBoot \/ MonitorUpdate \/ MonitorReboot \/ CancelSwitch
         \/ Restart \/ PowerCut
         \/ \E i \in Images : MonitorReceive(i) \/ \E f \in 1 .. Files : Upload(f, i)
  PROVE  CatalogStep
<1>1. Usable' = Usable /\ Adopted' = Adopted /\ meta' = meta
  BY FlashShown
<1>2. CASE \/ StartBatch \/ SkipFile \/ RenameSource \/ EndBatch
           \/ Interrupt \/ MonitorBoot \/ MonitorUpdate \/ MonitorReboot \/ CancelSwitch
           \/ \E i \in Images : MonitorReceive(i) \/ \E f \in 1 .. Files : Upload(f, i)
  <2>1. chosen' = chosen /\ ~Installing /\ ~Installing'
    BY <1>2 DEF StartBatch, SkipFile, RenameSource, EndBatch, Interrupt, MonitorBoot,
                MonitorUpdate, MonitorReboot, MonitorReceive, Monitor, Upload, CancelSwitch,
                GoTo, NextFile, Installing
  <2> QED
    BY <1>1, <2>1, Stutters DEF View, Updated, CatalogStep
<1>3. CASE Select
  <2>1. /\ chosen = NoImage /\ ~Installing /\ ~Installing' /\ chosen' = Selected
    BY <1>3 DEF Select, CatalogInv, RunInv, Installing
  <2>2. CASE Selected = NoImage
    BY <1>1, <2>1, <2>2, Stutters DEF View, Updated, CatalogStep
  <2>3. CASE Selected # NoImage
    BY <1>1, <2>1, <2>3, Begins DEF Updated, CatalogStep
  <2> QED
    BY <2>2, <2>3
<1>4. CASE Restart
  <2>1. chosen' = NoImage /\ ~Installing /\ ~Installing'
    BY <1>4 DEF Restart, Installing
  <2> QED
    BY <1>1, <2>1, Restarts DEF Updated, CatalogStep
<1>5. CASE PowerCut
  <2>1. chosen' = NoImage /\ ~Installing' /\ (Installing => chosen = NoImage)
    BY <1>5 DEF PowerCut, Cut, Installing, CatalogInv, RunInv
  <2>2. CASE Installing
    BY <1>1, <2>1, <2>2, Abandons DEF Updated, CatalogStep
  <2>3. CASE ~Installing
    BY <1>1, <2>1, <2>3, Restarts DEF Updated, CatalogStep
  <2> QED
    BY <2>2, <2>3
<1> QED
  BY <1>2, <1>3, <1>4, <1>5

\* The choices of the monitor and of the running firmware.
LEMMA ChoicesShown ==
  ASSUME CatalogInv, IInv',
         \/ ClearRequest \/ DropRequest
         \/ \E p \in Products : MonitorRequest(p) \/ SetDefault(p) \/ SwitchFirmware(p)
  PROVE  CatalogStep
<1>1. ~Installing /\ ~Installing' /\ chosen' \in {chosen, NoImage}
  BY DEF ClearRequest, DropRequest, MonitorRequest, SetDefault, SwitchFirmware, SetRequest,
         Monitor, Commit, GoTo, Cut, Installing
<1>2. CASE UNCHANGED flash
  <2>1. Usable' = Usable /\ Adopted' = Adopted /\ meta' = meta
    BY <1>2, FlashShown
  <2>2. CASE chosen' = chosen
    BY <1>1, <2>1, <2>2, Stutters DEF View, Updated, CatalogStep
  <2>3. CASE chosen' = NoImage
    BY <1>1, <2>1, <2>3, Restarts DEF Updated, CatalogStep
  <2> QED
    BY <1>1, <2>2, <2>3
<1>3. CASE (ClearRequest \/ DropRequest) /\ ~UNCHANGED flash
  <2>1. chosen # NoImage /\ meta.present
    BY <1>3 DEF ClearRequest, DropRequest, CatalogInv, RunInv
  <2>2. \/ meta' = [meta EXCEPT !.request = "none"] /\ UNCHANGED <<ident, body>>
        \/ Failed
    BY <1>3 DEF ClearRequest, DropRequest, Commit, Failed
  <2> QED
    BY <1>1, <2>1, <2>2, ClearShown
<1>4. ASSUME NEW p \in Products, MonitorRequest(p) \/ SwitchFirmware(p), ~UNCHANGED flash
      PROVE  CatalogStep
  <2>1. SlotVerify(p)
    BY <1>4, ProbedIsVerified DEF MonitorRequest, SwitchFirmware, SetRequest
  <2>2. \/ meta' = [Adopted EXCEPT !.request = p] /\ UNCHANGED <<ident, body>>
        \/ Failed
    BY <1>4 DEF MonitorRequest, SwitchFirmware, SetRequest, Commit, Failed
  <2> QED
    BY <1>1, <2>1, <2>2, ChoiceShown
<1>5. ASSUME NEW p \in Products, SetDefault(p), ~UNCHANGED flash
      PROVE  CatalogStep
  <2>1. SlotVerify(p)
    BY <1>5 DEF SetDefault
  <2>2. \/ meta' = [Adopted EXCEPT !.default = p] /\ UNCHANGED <<ident, body>>
        \/ Failed
    BY <1>5 DEF SetDefault, Commit, Failed
  <2> QED
    BY <1>1, <2>1, <2>2, ChoiceShown
<1> QED
  BY <1>2, <1>3, <1>4, <1>5

\* When an image runs, step by step.
LEMMA RunInvKept ==
  ASSUME CatalogInv, IInv', [Next]_vars
  PROVE  RunInv'
<1>1. chosen' # NoImage <=> pc' \in {"clear", "app", "switch", "cancel"}
  BY DEF CatalogInv, RunInv, vars, Next, GoldenStep, OperatorStep, StartBatch, SkipFile,
         UpdateBegin, ZeroIdent, EraseSlot, ProgramBody, ProgramIdent, UpdateFinish,
         RenameSource, EndBatch, Select, ClearRequest, Interrupt, MonitorBoot, MonitorUpdate,
         MonitorReboot, MonitorRequest, SetDefault, SwitchFirmware, SetRequest, Monitor,
         MonitorReceive, Upload, CancelSwitch, DropRequest, Restart, PowerCut, Commit, GoTo,
         NextFile, Cut
<1>2. \/ meta' = meta
      \/ meta' = [meta EXCEPT !.request = "none"]
      \/ meta.present /\ meta'.present
      \/ \E p \in Products : meta' \in {[Adopted EXCEPT !.request = p],
                                       [Adopted EXCEPT !.default = p],
                                       [Adopted EXCEPT !.rec[p] = NoImage]}
  <2>1. CASE UpdateBegin
    BY <2>1, ProductType DEF UpdateBegin, Commit, dst
  <2>2. CASE UpdateFinish
    <3>1. meta.present /\ (meta' # meta => meta'.present = meta.present)
      BY <2>2 DEF UpdateFinish, Commit, flash, CatalogInv, IInv, InstallInv, Installing, TypeOK
    <3> QED
      BY <3>1
  <2>3. CASE \/ ClearRequest \/ DropRequest
             \/ \E p \in Products : MonitorRequest(p) \/ SetDefault(p) \/ SwitchFirmware(p)
    BY <2>3 DEF ClearRequest, DropRequest, MonitorRequest, SetDefault, SwitchFirmware, SetRequest,
                Commit, flash
  <2>4. CASE ~(\/ UpdateBegin \/ UpdateFinish \/ ClearRequest \/ DropRequest
               \/ \E p \in Products : MonitorRequest(p) \/ SetDefault(p) \/ SwitchFirmware(p))
    <3>1. UNCHANGED meta
      BY <2>4 DEF vars, flash, Next, GoldenStep, OperatorStep, StartBatch, SkipFile, ZeroIdent,
                  EraseSlot, ProgramBody, ProgramIdent, RenameSource, EndBatch, Select, Interrupt,
                  MonitorBoot, MonitorUpdate, MonitorReboot, MonitorReceive, Upload, CancelSwitch,
                  Restart, PowerCut
    <3> QED
      BY <3>1
  <2> QED
    BY <2>1, <2>2, <2>3, <2>4
<1>3. Adopted \in MetaRecords /\ Adopted.present
  BY AdoptedSound DEF CatalogInv, IInv
<1>4. ~meta'.present => meta'.default = "none" /\ meta'.request = "none"
  BY <1>2, <1>3 DEF CatalogInv, RunInv, IInv, TypeOK, MetaRecords
<1> QED
  BY <1>1, <1>4 DEF RunInv

\* A product as delivered is a catalog.
LEMMA CatalogInit == Init => CatalogInv /\ Catalog!Init
<1> SUFFICES ASSUME Init PROVE CatalogInv /\ Catalog!Init
  OBVIOUS
<1>1. IInv
  BY InitIInv
<1>2. meta = NoMeta /\ pc = "reset" /\ chosen = NoImage
  BY DEF Init
<1>3. RunInv
  BY <1>2 DEF RunInv, NoMeta
<1>4. /\ Usable \in [Products -> Images \cup {NoImage}]
      /\ Adopted.default \in Products \cup {"none"}
  <2>1. \A p \in Products : Offered(p) \in Images \cup {NoImage}
    BY OfferedType
  <2> QED
    BY <1>2, <2>1 DEF Usable, Adopted, NoMeta, Products
<1>5. Catalog!Images = Images /\ Catalog!Products = Products
  BY DEF Catalog!Images, Images, Tagged, Catalog!Products, Products
<1> QED
  BY <1>1, <1>2, <1>3, <1>4, <1>5 DEF CatalogInv, Catalog!Init, NoMeta, Usable

\* What multiboot promises of the two slots holds at every step, whatever is cut or fails.
THEOREM SlotsAsPromised == Spec => ImplementsCatalog
<1>1. CatalogInv /\ [Next]_vars => CatalogInv' /\ [Catalog!Next]_(Catalog!cvars)
  <2> SUFFICES ASSUME CatalogInv, [Next]_vars PROVE CatalogInv' /\ CatalogStep
    BY DEF CatalogStep
  <2>1. IInv' /\ RunInv'
    BY NextIInv, RunInvKept DEF CatalogInv
  <2>2. CASE UNCHANGED vars
    <3>1. UNCHANGED flash /\ UNCHANGED <<chosen, pc, card, idx>>
      BY <2>2 DEF vars, flash
    <3>2. Updated' = Updated
      BY <3>1 DEF Updated, Installing, dst, cur
    <3> QED
      BY <2>1, <3>1, <3>2, FlashShown, Stutters DEF CatalogInv, View, CatalogStep
  <2>3. CASE GoldenStep
    <3>1. CASE StartBatch \/ SkipFile \/ RenameSource \/ EndBatch \/ Select
      <4>1. UNCHANGED flash
        BY <3>1 DEF StartBatch, SkipFile, RenameSource, EndBatch, Select
      <4> QED
        BY <2>1, <3>1, <4>1, QuietShown DEF CatalogInv
    <3> QED
      BY <2>1, <2>3, <3>1, UpdateBeginShown, InstallSteps, UpdateFinishShown, ChoicesShown
         DEF CatalogInv, GoldenStep
  <2>4. CASE PowerCut
    BY <2>1, <2>4, QuietShown DEF CatalogInv, PowerCut
  <2>5. CASE OperatorStep
    <3>1. CASE \/ Interrupt \/ MonitorBoot \/ MonitorUpdate \/ MonitorReboot
               \/ CancelSwitch \/ Restart
               \/ \E i \in Images : MonitorReceive(i) \/ \E f \in 1 .. Files : Upload(f, i)
      <4>1. UNCHANGED flash
        BY <3>1 DEF Interrupt, MonitorBoot, MonitorUpdate, MonitorReboot, CancelSwitch, Restart,
                    MonitorReceive, Upload
      <4> QED
        BY <2>1, <3>1, <4>1, QuietShown DEF CatalogInv
    <3> QED
      BY <2>1, <2>5, <3>1, ChoicesShown DEF CatalogInv, OperatorStep
  <2> QED
    BY <2>2, <2>3, <2>4, <2>5 DEF Next
<1> QED
  BY CatalogInit, <1>1, PTL DEF Spec, ImplementsCatalog, Catalog!Spec

==============================================================================
