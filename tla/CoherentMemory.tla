--------------------------- MODULE CoherentMemory ---------------------------
(***************************************************************************)
(* What the PSRAM arbiter promises its users: one memory of bytes, changed *)
(* only by a write that a user asked for.  The Apple reads and writes      *)
(* single bytes, the other ports whole lines, and a reader gets what the   *)
(* memory held when its access was accepted.  An Apple read may instead be *)
(* refused (Missed), since the bus does not wait, and an Apple write is    *)
(* lost when there is no room for it.                                      *)
(***************************************************************************)
CONSTANTS
    Line,       \* the lines of the memory
    Lane,       \* the bytes of a line
    Byte,       \* the values of a byte
    Port,       \* the line-wide clients
    Op,         \* their operations: records of rw, line and data
    None,       \* nothing there
    Missed      \* the value of a refused read

Addr == [line : Line, lane : Lane]

VARIABLES
    memory,     \* line -> lane -> byte
    room,       \* whether an Apple write finds room
    write,      \* address of the Apple write whose data are awaited, or None
    reply,      \* the Apple read of this bus cycle: its address and its value
    request,    \* port -> the operation it asks for, or None
    answer      \* port -> the line it is promised, or None

vars == <<memory, room, write, reply, request, answer>>

Init ==
    /\ memory \in [Line -> [Lane -> Byte]]
    /\ room = TRUE
    /\ write = None
    /\ reply = None
    /\ request = [p \in Port |-> None]
    /\ answer = [p \in Port |-> None]

AppleRead(a) ==
    /\ reply = None
    /\ \E v \in {memory[a.line][a.lane], Missed} : reply' = [addr |-> a, val |-> v]
    /\ UNCHANGED <<memory, room, write, request, answer>>

AppleWrite(a) ==
    /\ write = None
    /\ write' = a
    /\ UNCHANGED <<memory, room, reply, request, answer>>

\* The bus cycle ends, and with a write the byte is there.
AppleEnd(v) ==
    /\ reply' = None
    /\ write' = None
    /\ IF write # None /\ room
       THEN /\ memory' = [memory EXCEPT ![write.line][write.lane] = v]
            /\ room' \in BOOLEAN
       ELSE UNCHANGED <<memory, room>>
    /\ UNCHANGED <<request, answer>>

MakeRoom ==
    /\ room' = TRUE
    /\ UNCHANGED <<memory, write, reply, request, answer>>

PortAsk(p, op) ==
    /\ request[p] = None
    /\ request' = [request EXCEPT ![p] = op]
    /\ UNCHANGED <<memory, room, write, reply, answer>>

PortForget(p) ==
    /\ request' = [request EXCEPT ![p] = None]
    /\ UNCHANGED <<memory, room, write, reply, answer>>

PortRead(p) ==
    /\ request[p] # None /\ request[p].rw = "read"
    /\ answer' = [answer EXCEPT ![p] = memory[request[p].line]]
    /\ request' = [request EXCEPT ![p] = None]
    /\ UNCHANGED <<memory, room, write, reply>>

PortWrite(p) ==
    /\ request[p] # None /\ request[p].rw = "write"
    /\ memory' = [memory EXCEPT ![request[p].line] = request[p].data]
    /\ request' = [request EXCEPT ![p] = None]
    /\ UNCHANGED <<room, write, reply, answer>>

PortEnd(p) ==
    /\ answer' = [answer EXCEPT ![p] = None]
    /\ UNCHANGED <<memory, room, write, reply, request>>

Next ==
    \/ \E a \in Addr : AppleRead(a) \/ AppleWrite(a)
    \/ \E v \in Byte : AppleEnd(v)
    \/ MakeRoom
    \/ \E p \in Port :
          PortForget(p) \/ PortRead(p) \/ PortWrite(p) \/ PortEnd(p) \/ \E op \in Op : PortAsk(p, op)

Spec == Init /\ [][Next]_vars
=============================================================================
