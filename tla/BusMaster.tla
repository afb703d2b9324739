----------------------------- MODULE BusMaster ------------------------------
(***************************************************************************)
(* What the accelerator's core expects of its bus engine: posted writes go *)
(* out in the order they were made, each once; an access goes out once and *)
(* is answered by its own cycle; an access that must see the writes before *)
(* it waits for them; and a reset or a stop cuts everything off.           *)
(***************************************************************************)
EXTENDS Sequences

CONSTANTS
    Write,      \* what may be posted
    Access,     \* accesses the core waits for
    Barriers,   \* those that must not overtake a posted write
    None

VARIABLES
    todo,       \* posted writes that have not gone out
    ask,        \* the access the core waits for, or None
    bus,        \* the cycle on the bus: a write, "access", "orphan", or None
    answered    \* the access has been answered

vars == <<todo, ask, bus, answered>>

Init == todo = <<>> /\ ask = None /\ bus = None /\ answered = FALSE

Post(w) ==
    /\ ask = None
    /\ todo' = Append(todo, w)
    /\ UNCHANGED <<ask, bus, answered>>

Ask(r) ==
    /\ ask = None
    /\ ask' = r
    /\ UNCHANGED <<todo, bus, answered>>

StartWrite ==
    /\ bus = None /\ todo # <<>>
    /\ bus' = Head(todo)
    /\ todo' = Tail(todo)
    /\ UNCHANGED <<ask, answered>>

StartAccess ==
    /\ bus = None /\ ask # None /\ ~answered
    /\ ask \in Barriers => todo = <<>>
    /\ bus' = "access"
    /\ UNCHANGED <<todo, ask, answered>>

End ==
    /\ bus # None
    /\ bus' = None
    /\ answered' = (answered \/ bus = "access")
    /\ UNCHANGED <<todo, ask>>

\* The cycle ended without a strobe, and the next begins at once.
EndAndStart ==
    /\ bus # None
    /\ bus' = "access" /\ bus # "access"
    /\ ask # None /\ ~answered
    /\ ask \in Barriers => todo = <<>>
    /\ UNCHANGED <<todo, ask, answered>>

Take ==
    /\ answered
    /\ ask' = None /\ answered' = FALSE
    /\ UNCHANGED <<todo, bus>>

\* A reset of the Apple or the end of the session.  A cycle on the bus may
\* still run to its end.
Cut ==
    /\ todo' = <<>> /\ ask' = None /\ answered' = FALSE
    /\ bus' = IF bus = "access" THEN "orphan" ELSE bus

Next ==
    \/ \E w \in Write : Post(w)
    \/ \E r \in Access : Ask(r)
    \/ StartWrite \/ StartAccess \/ End \/ EndAndStart \/ Take \/ Cut

Spec == Init /\ [][Next]_vars
=============================================================================
