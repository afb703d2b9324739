---------------------------- MODULE FirmwareCatalog ----------------------------
(***************************************************************************)
(* What multiboot promises about the two firmware slots, without flash     *)
(* contents or records: each slot is usable (it holds one whole image that *)
(* may be started) or not; an update makes its own slot unusable, then     *)
(* usable with the new image, and touches nothing else; the owner's        *)
(* default changes only on request; what is started is always usable and   *)
(* the most preferred one; a one-shot request is dropped only by a started *)
(* image.                                                                  *)
(***************************************************************************)
CONSTANTS
  Appletini, Multitini,  \* the images of each product
  Old,                   \* those of the single-slot days, \subseteq Appletini
  Unidentified,          \* old ones not known to be Appletini firmware
  NoImage

Images == Appletini \cup Multitini
Products == {"appletini", "multitini"}
Peer(p) == IF p = "appletini" THEN "multitini" ELSE "appletini"
Product(i) == IF i \in Appletini THEN "appletini" ELSE "multitini"

VARIABLES usable,   \* product -> the image its slot would start, or NoImage
          default,  \* startup choice of the owner, "none" before there is one
          request,  \* one-shot choice for the next start
          running,  \* the image started, NoImage while Golden decides
          target    \* product being updated, "none" if none

cvars == <<usable, default, request, running, target>>

Available(p) == usable[p] \notin {NoImage} \cup Unidentified

First == IF request # "none" THEN request
         ELSE IF default # "none" THEN default ELSE "appletini"

\* The preferred product, else the other, else the unidentified old firmware.
Preferred ==
  IF Available(First) THEN usable[First]
  ELSE IF Available(Peer(First)) THEN usable[Peer(First)]
  ELSE usable["appletini"]

Init ==
  /\ usable \in [Products -> Images \cup {NoImage}]
  /\ default \in Products \cup {"none"}
  /\ request = "none" /\ running = NoImage /\ target = "none"

\* An update begins, or fails just as it does.
Invalidate(p) ==
  /\ running = NoImage /\ target = "none"
  /\ usable' = [usable EXCEPT ![p] = NoImage]
  /\ target' \in {p, "none"}
  /\ UNCHANGED <<default, request, running>>

Abandon == target' = "none" /\ UNCHANGED <<usable, default, request, running>>

Publish(i) ==
  /\ target = Product(i) /\ target' = "none"
  /\ usable[Product(i)] = NoImage
  /\ usable' = [usable EXCEPT ![Product(i)] = i]
  /\ default' = IF default = "none" THEN Product(i) ELSE default
  /\ request' = IF i \in Old THEN "appletini" ELSE request
  /\ UNCHANGED running

\* Power may be lost just as a choice lands.
MayStop == running' \in {running, NoImage} /\ UNCHANGED target

SetDefault(p) == Available(p) /\ default' = p /\ MayStop /\ UNCHANGED <<usable, request>>
SetRequest(p) == Available(p) /\ request' = p /\ MayStop /\ UNCHANGED <<usable, default>>

ClearRequest ==
  running # NoImage /\ request' = "none" /\ MayStop /\ UNCHANGED <<usable, default>>

Start ==
  /\ running = NoImage /\ target = "none" /\ Preferred # NoImage
  /\ running' = Preferred
  /\ UNCHANGED <<usable, default, request, target>>

Restart == running' = NoImage /\ UNCHANGED <<usable, default, request, target>>

Next ==
  \/ \E p \in Products : Invalidate(p) \/ SetDefault(p) \/ SetRequest(p)
  \/ \E i \in Images : Publish(i)
  \/ Abandon \/ ClearRequest \/ Start \/ Restart

Spec == Init /\ [][Next]_cvars
==============================================================================
