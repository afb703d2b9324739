------------------------------- MODULE VideoRom -------------------------------
(***************************************************************************)
(* Changing the character ROM that CPU1 draws with.  CPU0's                *)
(* video_rom_service.c keeps one queued request and one shared buffer;     *)
(* apple_fb_handoff.c holds the three words gen, mode and ack between the  *)
(* cores; CPU1's apple_cycle_renderer.c takes a new generation before it   *)
(* paints a frame.  Each load and store of a shared word is a step; the    *)
(* barriers make the program order of those steps the order the other core *)
(* sees.  A ROM is moved in two halves, which is enough to tear it.        *)
(***************************************************************************)
EXTENDS Integers

CONSTANTS Roms,     \* the images that can be asked for
          BuiltIn,  \* the ROM in the renderer's own code
          NoCall,   \* no video_rom_service_apply is under way
          GenMod    \* values of the generation (2^32 in the code)

ASSUME RomsAssumption == Roms # {} /\ BuiltIn \notin Roms /\ NoCall \notin Roms \cup {BuiltIn}
ASSUME GenAssumption == GenMod \in Nat /\ GenMod > 2

All == Roms \cup {BuiltIn}
Requests == [rom : All, custom : BOOLEAN]
Halves == {"lo", "hi"}
Whole(r) == [h \in Halves |-> r]
Gens == 0 .. GenMod - 1

NextGen(g) == IF g + 1 = GenMod THEN 1 ELSE g + 1

VARIABLES
  gen, mode, ack, \* the shared words; mode is "override" or "builtin"
  buf,            \* the shared buffer, by halves
  pc0, call,      \* CPU0: program point; argument of apply, or NoCall
  pending, queue, \* CPU0: is a request queued, and which
  menu,           \* CPU0: ROM of the menu's selection
  pub,            \* CPU0: request published last, with its generation
  act,            \* CPU0: what status reports, active generation and CUSTOM
  pc1, gen1, seen,\* CPU1: program point, generation read, last one applied
  drawn,          \* CPU1: its private ROM, by halves
  asked           \* ghost: the request accepted last

words == <<gen, mode, ack, buf>>
cpu0 == <<pc0, call, pending, queue, menu, pub, act, asked>>
cpu1 == <<pc1, gen1, seen, drawn>>
vars == <<words, cpu0, cpu1>>

Init ==
  /\ gen = 0 /\ mode = "builtin" /\ ack = 0 /\ buf \in {Whole(r) : r \in Roms}
  /\ pc0 = "idle" /\ call = NoCall /\ pending = FALSE /\ menu = BuiltIn
  /\ asked = [rom |-> BuiltIn, custom |-> FALSE] /\ queue = asked
  /\ pub = [rom |-> BuiltIn, custom |-> FALSE, gen |-> 0]
  /\ act = [gen |-> 0, custom |-> FALSE]
  /\ pc1 = "gen" /\ gen1 = 0 /\ seen = GenMod /\ drawn = Whole(BuiltIn)
-----------------------------------------------------------------------------
(* CPU0: every call polls; a poll publishes the queued request if it may   *)

\* From the main loop, a status call, or a wait inside the USB stack.
Poll ==
  /\ pc0 = "idle" /\ pc0' = "poll"
  /\ UNCHANGED <<words, call, pending, queue, menu, pub, act, asked, cpu1>>

Return == pc0' = IF call = NoCall THEN "idle" ELSE "apply"

\* Mutant: the queued request goes out without waiting for CPU1.
Mut_PollAck_eager ==
  /\ pc0 = "poll"
  /\ act' = IF ack = pub.gen THEN [gen |-> ack, custom |-> pub.custom] ELSE act
  /\ IF pending THEN pc0' = IF queue.rom = BuiltIn THEN "mode" ELSE "lo" ELSE Return
  /\ UNCHANGED <<words, call, pending, queue, menu, pub, asked, cpu1>>

\* The load of ack, and what follows from it.
PollAck ==
  /\ pc0 = "poll"
  /\ act' = IF ack = pub.gen THEN [gen |-> ack, custom |-> pub.custom] ELSE act
  /\ IF pending /\ ack = gen THEN pc0' = IF queue.rom = BuiltIn THEN "mode" ELSE "lo"
     ELSE Return
  /\ UNCHANGED <<words, call, pending, queue, menu, pub, asked, cpu1>>

CopyOut ==
  /\ pc0 \in Halves
  /\ buf' = [buf EXCEPT ![pc0] = queue.rom]
  /\ pc0' = IF pc0 = "lo" THEN "hi" ELSE "mode"
  /\ UNCHANGED <<gen, mode, ack, call, pending, queue, menu, pub, act, asked, cpu1>>

StoreMode ==
  /\ pc0 = "mode" /\ pc0' = "publish"
  /\ mode' = IF queue.rom = BuiltIn THEN "builtin" ELSE "override"
  /\ UNCHANGED <<gen, ack, buf, call, pending, queue, menu, pub, act, asked, cpu1>>

StoreGen ==
  /\ pc0 = "publish" /\ gen' = NextGen(gen) /\ pending' = FALSE
  /\ pub' = [rom |-> queue.rom, custom |-> queue.custom, gen |-> NextGen(gen)]
  /\ Return
  /\ UNCHANGED <<mode, ack, buf, call, queue, menu, act, asked, cpu1>>

\* video_rom_service_apply: first a poll, then the request unless one is under
\* way (BUSY), then a poll again.  BuiltIn stands for its NULL.
Apply(r) ==
  /\ pc0 = "idle" /\ pc0' = "poll" /\ call' = r
  /\ UNCHANGED <<words, pending, queue, menu, pub, act, asked, cpu1>>

Queue ==
  /\ pc0 = "apply" /\ call' = NoCall
  /\ IF pending \/ act.gen # pub.gen
     THEN pc0' = "idle" /\ UNCHANGED <<pending, queue, asked>>
     ELSE /\ pc0' = "poll" /\ pending' = TRUE
          /\ queue' = IF call = BuiltIn THEN [rom |-> menu, custom |-> FALSE]
                      ELSE [rom |-> call, custom |-> TRUE]
          /\ asked' = queue'
  /\ UNCHANGED <<words, menu, pub, act, cpu1>>

\* Mutant: a menu selection is dropped while CPU1 is busy, as apply is.
Mut_SetMenu_busy(r) ==
  /\ pc0 = "idle" /\ pc0' = "poll" /\ menu' = r
  /\ asked' = [rom |-> r, custom |-> FALSE]
  /\ IF act.gen # pub.gen THEN UNCHANGED <<pending, queue>>
     ELSE pending' = TRUE /\ queue' = asked'
  /\ UNCHANGED <<words, call, pub, act, cpu1>>

\* video_rom_service_set_menu replaces whatever is queued.
SetMenu(r) ==
  /\ pc0 = "idle" /\ pc0' = "poll" /\ menu' = r
  /\ asked' = [rom |-> r, custom |-> FALSE]
  /\ pending' = TRUE /\ queue' = asked'
  /\ UNCHANGED <<words, call, pub, act, cpu1>>
-----------------------------------------------------------------------------
(* CPU1: before a frame, and once at its cold start, when seen = GenMod    *)

ReadGen ==
  /\ pc1 = "gen" /\ gen1' = gen
  /\ pc1' = IF gen = seen THEN "gen" ELSE "mode"
  /\ UNCHANGED <<words, cpu0, seen, drawn>>

ReadMode ==
  /\ pc1 = "mode"
  /\ IF mode = "override" THEN pc1' = "lo" /\ UNCHANGED drawn
     ELSE pc1' = "ack" /\ drawn' = Whole(BuiltIn)
  /\ UNCHANGED <<words, cpu0, gen1, seen>>

CopyIn ==
  /\ pc1 \in Halves
  /\ drawn' = [drawn EXCEPT ![pc1] = buf[pc1]]
  /\ pc1' = IF pc1 = "lo" THEN "hi" ELSE "ack"
  /\ UNCHANGED <<words, cpu0, gen1, seen>>

Ack ==
  /\ pc1 = "ack" /\ ack' = gen1 /\ seen' = gen1 /\ pc1' = "gen"
  /\ UNCHANGED <<gen, mode, buf, cpu0, gen1, drawn>>

PollStep == PollAck \/ CopyOut \/ StoreMode \/ StoreGen \/ Queue
Frame == ReadGen \/ ReadMode \/ CopyIn \/ Ack
Next == Poll \/ PollStep \/ Frame \/ \E r \in All : Apply(r) \/ SetMenu(r)

\* The main loop polls for ever and calls finish; CPU1 keeps painting frames
\* while the Apple runs.
Spec == Init /\ [][Next]_vars
FairSpec == Spec /\ WF_vars(Poll) /\ WF_vars(PollStep) /\ WF_vars(Frame)
-----------------------------------------------------------------------------
TypeOK ==
  /\ gen \in Gens /\ ack \in Gens /\ mode \in {"builtin", "override"}
  /\ buf \in [Halves -> Roms]
  /\ pc0 \in {"idle", "poll", "mode", "publish", "apply"} \cup Halves
  /\ call \in All \cup {NoCall} /\ pending \in BOOLEAN /\ menu \in All
  /\ queue \in Requests /\ asked \in Requests
  /\ pub \in [rom : All, custom : BOOLEAN, gen : Gens]
  /\ act \in [gen : Gens, custom : BOOLEAN]
  /\ pc1 \in {"gen", "mode", "ack"} \cup Halves
  /\ gen1 \in Gens /\ seen \in 0 .. GenMod /\ drawn \in [Halves -> All]

\* CPU1 never paints with a mixture of two ROMs, at its cold start included.
NeverTorn == pc1 = "gen" => drawn["lo"] = drawn["hi"]

\* When status shows nothing pending, CPU1 paints with the ROM of the request
\* accepted last, and CUSTOM says which kind of request that was.
StatusHonest ==
  pc0 = "idle" /\ ~pending /\ act.gen = pub.gen =>
    drawn = Whole(asked.rom) /\ act.custom = asked.custom

\* Once requests stop, CPU1 comes to draw the last one that was accepted.
LatestDrawn == \A r \in All : <>[](asked.rom = r) => <>[](drawn = Whole(r))
==============================================================================
