---------------------------- MODULE MarkedStream ----------------------------
(***************************************************************************)
(* What the path from the Apple bus to CPU1 promises about the records it  *)
(* carries: a queue that keeps their order, that may lose records, and     *)
(* that puts a gap marker ahead of every record that follows a loss.       *)
(* Records are numbered from 1 in the order the bus produces them.         *)
(***************************************************************************)
EXTENDS Naturals, Sequences, SequencesExt, FiniteSets

CONSTANTS Gap,        \* the 64-bit zero that marks a loss
          MaxRecords, \* bound on the records the bus produces
          Lossless    \* whether a marker may appear only after a loss

VARIABLES produced,   \* number of records the bus has produced
          queue,      \* accepted records and markers, oldest first
          lost,       \* lost records that no marker announces yet
          dropped     \* whether any record has ever been lost

vars == <<produced, queue, lost, dropped>>

Init == produced = 0 /\ queue = <<>> /\ lost = {} /\ dropped = FALSE

\* A marker may be put anywhere ahead of the records that follow the losses
\* it announces.
Mark(p) ==
  /\ Lossless => dropped
  /\ \A i \in 1..p : queue[i] = Gap \/ \A l \in lost : queue[i] < l

\* What may be accepted of the next two records.
Arrivals == {<<>>, <<produced + 1>>, <<produced + 2>>, <<produced + 1, produced + 2>>}

\* The bus produces up to two records, of which "kept" are accepted, and the
\* path may put one marker into the queue.
Supply ==
  \E n \in 0..2 :
    LET fresh == (produced + 1)..(produced + n) IN
    \E kept \in Arrivals, p \in {Len(queue) + 1} \cup 0..Len(queue) :
      LET marks == p <= Len(queue) IN
      /\ ToSet(kept) \subseteq fresh
      /\ marks => Mark(p)
      /\ produced + n <= MaxRecords
      /\ produced' = produced + n
      /\ queue' = (IF marks THEN InsertAt(queue, p + 1, Gap) ELSE queue) \o kept
      /\ lost' = (IF marks THEN {} ELSE lost) \cup (fresh \ ToSet(kept))
      /\ dropped' = (dropped \/ ToSet(kept) # fresh)

\* The reader takes the oldest entry; it never takes a record while a loss
\* in front of it is unannounced.
Deliver ==
  /\ queue # <<>>
  /\ Head(queue) # Gap => \A l \in lost : Head(queue) < l
  /\ queue' = Tail(queue)
  /\ UNCHANGED <<produced, lost, dropped>>

Next == Supply \/ Deliver

Spec == Init /\ [][Next]_vars
=============================================================================
