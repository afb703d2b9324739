---------------------------- MODULE ServicesProofs ----------------------------
(***************************************************************************)
(* What is proved of the three services of MCServices, each by itself.     *)
(*                                                                         *)
(* VideoRom: the character-ROM handover is type correct, CPU1 never paints *)
(* with a torn ROM, and a status that shows nothing pending is true.  The  *)
(* inductive invariant says who owns the shared buffer: CPU0 between a     *)
(* poll that saw ack = gen and its store of gen, CPU1 from there to its    *)
(* store of ack.  Only CPU1's cold start is outside that protocol.         *)
(*                                                                         *)
(* FirmwareSwitch: every hold is noted before it is known to have worked,  *)
(* so the failure path gives back all that was taken; and each step on the *)
(* way to the reset settles something that nobody can unsettle, since the  *)
(* computer that could do so has been stopped.                             *)
(*                                                                         *)
(* HttpService: a request under way has the Ethernet chip, except before   *)
(* its claim; afterwards the chip is the Apple's, or the one request that  *)
(* changed its layout still owes it.  Of a body, the units written and     *)
(* those in the ring are all that came.                                    *)
(***************************************************************************)
EXTENDS MCServices, TLAPS

-----------------------------------------------------------------------------
(* The character ROM                                                       *)


Publishing == pc0 \in Halves \cup {"mode", "publish"}
Cold == seen = GenMod           \* CPU1 has not yet taken any generation

\* CPU0 publishes only what it queued, after CPU1 has acknowledged the last.
Turn ==
  /\ pub.gen = gen
  /\ Publishing => ack = gen /\ act.gen = gen /\ pending
  /\ act.gen = gen => ack = gen /\ act.custom = pub.custom
  /\ pc0 = "apply" => call # NoCall

\* CPU1 acknowledges what it has read, and that is the current generation
\* except when CPU0 published for the first time during the cold start.
Reading ==
  /\ ~Cold => seen = ack /\ (pc1 # "gen" => gen1 = gen /\ ack # gen)
  /\ Cold => /\ ack = 0 /\ gen \in {0, 1}
             /\ pc1 # "gen" => gen1 \in {0, gen}
             /\ pc1 \in Halves => gen = 1 \/ pc0 = "publish"

\* What is in the words and the buffer, from the side of CPU0.
Written ==
  /\ pc0 \in Halves => queue.rom # BuiltIn
  /\ pc0 = "hi" => buf["lo"] = queue.rom
  /\ pc0 \in {"mode", "publish"} /\ queue.rom # BuiltIn => buf = Whole(queue.rom)
  /\ pc0 = "publish" => (mode = "builtin" <=> queue.rom = BuiltIn)
  /\ pc0 # "publish" => (mode = "builtin" <=> pub.rom = BuiltIn)
  /\ ~Publishing /\ mode = "override" => buf = Whole(pub.rom)
  /\ gen = 0 => pub.rom = BuiltIn
  /\ IF pending THEN asked = queue ELSE asked = [rom |-> pub.rom, custom |-> pub.custom]

\* What CPU1 has taken from them.
Copied ==
  /\ pc1 \in {"gen", "mode", "ack", "lo"} => drawn["lo"] = drawn["hi"]
  /\ pc1 \in Halves => mode = "override"
  /\ pc1 = "hi" => drawn["lo"] = buf["lo"]
  /\ pc1 = "ack" /\ gen1 = gen /\ pc0 # "publish" => drawn = Whole(pub.rom)
  /\ ack = gen /\ pc0 # "publish" /\ pc1 \notin Halves => drawn = Whole(pub.rom)

RomInv == TypeOK /\ Turn /\ Reading /\ Written /\ Copied
-----------------------------------------------------------------------------
\* The generation after any other is a different one, and is never 0.
LEMMA NextGenDiffers ==
  ASSUME NEW g \in Gens
  PROVE  NextGen(g) \in Gens \ {0, g}
BY GenAssumption DEF NextGen, Gens

LEMMA InitInvariant == Init => RomInv
<1> SUFFICES ASSUME Init PROVE RomInv
  OBVIOUS
<1> USE RomsAssumption, GenAssumption DEF Init, All, Requests, Gens, Halves, Whole
<1>1. TypeOK
  <2>1. buf \in [Halves -> Roms] /\ drawn \in [Halves -> All]
    OBVIOUS
  <2>2. 0 \in Gens /\ GenMod \in 0 .. GenMod
    OBVIOUS
  <2>3. queue \in Requests /\ asked \in Requests /\ menu \in All /\ call \in All \cup {NoCall}
    OBVIOUS
  <2>4. /\ pub \in [rom : All, custom : BOOLEAN, gen : Gens]
        /\ act \in [gen : Gens, custom : BOOLEAN]
    BY <2>2
  <2> QED BY <2>1, <2>2, <2>3, <2>4 DEF TypeOK
<1>2. Turn /\ Reading
  BY DEF Turn, Reading, Publishing, Cold
<1>3. Written /\ Copied
  BY DEF Written, Copied, Publishing
<1> QED BY <1>1, <1>2, <1>3 DEF RomInv

LEMMA PollKeeps == ASSUME RomInv, Poll PROVE RomInv'
<1> USE RomsAssumption, GenAssumption, NextGenDiffers
<1> USE DEF RomInv, Poll, words, cpu0, cpu1, Publishing, Cold
<1>1. TypeOK'
  BY DEF TypeOK, All, Requests, Halves
<1>2. Turn'
  BY DEF TypeOK, Turn, Halves
<1>3. Reading'
  BY DEF TypeOK, Turn, Reading, Halves, Gens
<1>4. Written'
  BY DEF TypeOK, Turn, Reading, Written, Halves, Whole, All, Requests
<1>5. Copied'
  BY DEF TypeOK, Turn, Reading, Written, Copied, Halves, Whole, All
<1> QED BY <1>1, <1>2, <1>3, <1>4, <1>5

LEMMA PollAckKeeps == ASSUME RomInv, PollAck PROVE RomInv'
<1> USE RomsAssumption, GenAssumption, NextGenDiffers
<1> USE DEF RomInv, PollAck, Return, words, cpu0, cpu1, Publishing, Cold
<1>1. TypeOK'
  BY DEF TypeOK, All, Requests, Halves
<1>2. Turn'
  BY DEF TypeOK, Turn, Halves
<1>3. Reading'
  BY DEF TypeOK, Turn, Reading, Halves, Gens
<1>4. Written'
  BY DEF TypeOK, Turn, Reading, Written, Halves, Whole, All, Requests
<1>5. Copied'
  BY DEF TypeOK, Turn, Reading, Written, Copied, Halves, Whole, All
<1> QED BY <1>1, <1>2, <1>3, <1>4, <1>5

LEMMA CopyOutKeeps == ASSUME RomInv, CopyOut PROVE RomInv'
<1> USE RomsAssumption, GenAssumption, NextGenDiffers
<1> USE DEF RomInv, CopyOut, words, cpu0, cpu1, Publishing, Cold
<1>1. TypeOK'
  <2>1. queue.rom \in Roms
    BY DEF TypeOK, Written, Requests, All
  <2>2. buf' \in [Halves -> Roms]
    BY <2>1 DEF TypeOK
  <2> QED BY <2>2 DEF TypeOK, Halves
<1>2. Turn'
  BY DEF TypeOK, Turn, Halves
<1>3. Reading'
  BY DEF TypeOK, Turn, Reading, Halves, Gens
<1>4. Written'
  BY ZenonT(60) DEF TypeOK, Turn, Reading, Written, Halves, Whole, All, Requests
<1>5. Copied'
  BY DEF TypeOK, Turn, Reading, Written, Copied, Halves, Whole, All
<1> QED BY <1>1, <1>2, <1>3, <1>4, <1>5

LEMMA StoreModeKeeps == ASSUME RomInv, StoreMode PROVE RomInv'
<1> USE RomsAssumption, GenAssumption, NextGenDiffers
<1> USE DEF RomInv, StoreMode, words, cpu0, cpu1, Publishing, Cold
<1>1. TypeOK'
  BY DEF TypeOK, All, Requests, Halves
<1>2. Turn'
  BY DEF TypeOK, Turn, Halves
<1>3. Reading'
  BY DEF TypeOK, Turn, Reading, Halves, Gens
<1>4. Written'
  BY DEF TypeOK, Turn, Reading, Written, Halves, Whole, All, Requests
<1>5. Copied'
  BY DEF TypeOK, Turn, Reading, Written, Copied, Halves, Whole, All
<1> QED BY <1>1, <1>2, <1>3, <1>4, <1>5

LEMMA StoreGenKeeps == ASSUME RomInv, StoreGen PROVE RomInv'
<1> USE RomsAssumption, GenAssumption, NextGenDiffers
<1> USE DEF RomInv, StoreGen, Return, words, cpu0, cpu1, Publishing, Cold
<1>1. TypeOK'
  BY ZenonT(60) DEF TypeOK, All, Requests, Halves
<1>2. Turn'
  BY DEF TypeOK, Turn, Halves
<1>3. Reading'
  <2>1. gen' = NextGen(gen) /\ ack = gen /\ gen \in Gens
    BY DEF TypeOK, Turn, Halves
  <2>2. CASE Cold
    <3>1. gen = 0 /\ gen' = 1
      BY <2>1, <2>2 DEF Reading, NextGen
    <3> QED BY <2>2, <3>1 DEF TypeOK, Reading, Halves
  <2>3. CASE ~Cold
    BY <2>1, <2>3 DEF Reading
  <2> QED BY <2>2, <2>3
<1>4. Written'
  BY DEF TypeOK, Turn, Reading, Written, Halves, Whole, All, Requests
<1>5. Copied'
  BY DEF TypeOK, Turn, Reading, Written, Copied, Halves, Whole, All
<1> QED BY <1>1, <1>2, <1>3, <1>4, <1>5

LEMMA QueueKeeps == ASSUME RomInv, Queue PROVE RomInv'
<1> USE RomsAssumption, GenAssumption, NextGenDiffers
<1> USE DEF RomInv, Queue, words, cpu0, cpu1, Publishing, Cold
<1>1. TypeOK'
  <2>1. call \in All
    BY DEF TypeOK, Turn
  <2>2. queue' \in Requests
    <3>1. queue' \in {queue, [rom |-> menu, custom |-> FALSE], [rom |-> call, custom |-> TRUE]}
      OBVIOUS
    <3>2. \A r \in All, b \in BOOLEAN : [rom |-> r, custom |-> b] \in Requests
      BY DEF Requests
    <3>3. queue \in Requests /\ menu \in All
      BY DEF TypeOK
    <3> QED BY <2>1, <3>1, <3>2, <3>3
  <2>3. asked' \in {asked, queue'}
    OBVIOUS
  <2> QED BY <2>2, <2>3 DEF TypeOK
<1>2. Turn'
  BY DEF TypeOK, Turn, Halves
<1>3. Reading'
  BY DEF TypeOK, Turn, Reading, Halves, Gens
<1>4. Written'
  BY DEF TypeOK, Turn, Reading, Written, Halves, Whole, All, Requests
<1>5. Copied'
  BY DEF TypeOK, Turn, Reading, Written, Copied, Halves, Whole, All
<1> QED BY <1>1, <1>2, <1>3, <1>4, <1>5

LEMMA ReadGenKeeps == ASSUME RomInv, ReadGen PROVE RomInv'
<1> USE RomsAssumption, GenAssumption, NextGenDiffers
<1> USE DEF RomInv, ReadGen, words, cpu0, cpu1, Publishing, Cold
<1>1. TypeOK'
  BY DEF TypeOK, All, Requests, Halves
<1>2. Turn'
  BY DEF TypeOK, Turn, Halves
<1>3. Reading'
  BY DEF TypeOK, Turn, Reading, Halves, Gens
<1>4. Written'
  BY DEF TypeOK, Turn, Reading, Written, Halves, Whole, All, Requests
<1>5. Copied'
  BY DEF TypeOK, Turn, Reading, Written, Copied, Halves, Whole, All
<1> QED BY <1>1, <1>2, <1>3, <1>4, <1>5

LEMMA ReadModeKeeps == ASSUME RomInv, ReadMode PROVE RomInv'
<1> USE RomsAssumption, GenAssumption, NextGenDiffers
<1> USE DEF RomInv, ReadMode, words, cpu0, cpu1, Publishing, Cold
<1>1. TypeOK'
  <2>1. drawn' \in [Halves -> All]
    BY DEF TypeOK, Whole, All
  <2> QED BY <2>1 DEF TypeOK, Halves
<1>2. Turn'
  BY DEF TypeOK, Turn, Halves
<1>3. Reading'
  <2>1. CASE Cold
    <3>1. pc1' \in Halves => gen = 1 \/ pc0 = "publish"
      <4> SUFFICES ASSUME mode = "override", gen # 1 PROVE pc0 = "publish"
        BY DEF Halves
      <4>1. gen = 0
        BY <2>1 DEF Reading
      <4> QED BY <4>1 DEF Written
    <3> QED BY <2>1, <3>1 DEF Reading
  <2>2. CASE ~Cold
    BY <2>2 DEF Reading
  <2> QED BY <2>1, <2>2
<1>4. Written'
  BY DEF TypeOK, Turn, Reading, Written, Halves, Whole, All, Requests
<1>5. Copied'
  BY DEF TypeOK, Turn, Reading, Written, Copied, Halves, Whole, All
<1> QED BY <1>1, <1>2, <1>3, <1>4, <1>5

LEMMA CopyInKeeps == ASSUME RomInv, CopyIn PROVE RomInv'
<1> USE RomsAssumption, GenAssumption, NextGenDiffers
<1> USE DEF RomInv, CopyIn, words, cpu0, cpu1, Publishing, Cold
<1>1. TypeOK'
  BY DEF TypeOK, All, Requests, Halves
<1>2. Turn'
  BY DEF TypeOK, Turn, Halves
<1>3. Reading'
  BY DEF TypeOK, Turn, Reading, Halves, Gens
<1>4. Written'
  BY DEF TypeOK, Turn, Reading, Written, Halves, Whole, All, Requests
<1>5. Copied'
  BY ZenonT(60) DEF TypeOK, Turn, Reading, Written, Copied, Halves, Whole, All
<1> QED BY <1>1, <1>2, <1>3, <1>4, <1>5

LEMMA AckKeeps == ASSUME RomInv, Ack PROVE RomInv'
<1> USE RomsAssumption, GenAssumption, NextGenDiffers
<1> USE DEF RomInv, Ack, words, cpu0, cpu1, Publishing, Cold
<1>1. TypeOK'
  <2>1. gen1 \in Gens /\ gen1 \in 0 .. GenMod
    BY DEF TypeOK, Gens
  <2> QED BY <2>1 DEF TypeOK
<1>2. Turn'
  <2>1. ack = gen => gen1 = gen
    BY DEF TypeOK, Reading
  <2> QED BY <2>1 DEF Turn
<1>3. Reading'
  BY DEF TypeOK, Turn, Reading, Halves, Gens
<1>4. Written'
  BY DEF TypeOK, Turn, Reading, Written, Halves, Whole, All, Requests
<1>5. Copied'
  BY DEF TypeOK, Turn, Reading, Written, Copied, Halves, Whole, All
<1> QED BY <1>1, <1>2, <1>3, <1>4, <1>5

LEMMA ApplyKeeps == ASSUME RomInv, NEW r \in All, Apply(r) PROVE RomInv'
<1> USE RomsAssumption, GenAssumption, NextGenDiffers
<1> USE DEF RomInv, Apply, words, cpu0, cpu1, Publishing, Cold
<1>1. TypeOK'
  BY DEF TypeOK, All, Requests, Halves
<1>2. Turn'
  BY DEF TypeOK, Turn, Halves
<1>3. Reading'
  BY DEF TypeOK, Turn, Reading, Halves, Gens
<1>4. Written'
  BY DEF TypeOK, Turn, Reading, Written, Halves, Whole, All, Requests
<1>5. Copied'
  BY DEF TypeOK, Turn, Reading, Written, Copied, Halves, Whole, All
<1> QED BY <1>1, <1>2, <1>3, <1>4, <1>5

LEMMA SetMenuKeeps == ASSUME RomInv, NEW r \in All, SetMenu(r) PROVE RomInv'
<1> USE RomsAssumption, GenAssumption, NextGenDiffers
<1> USE DEF RomInv, SetMenu, words, cpu0, cpu1, Publishing, Cold
<1>1. TypeOK'
  BY DEF TypeOK, All, Requests, Halves
<1>2. Turn'
  BY DEF TypeOK, Turn, Halves
<1>3. Reading'
  BY DEF TypeOK, Turn, Reading, Halves, Gens
<1>4. Written'
  BY DEF TypeOK, Turn, Reading, Written, Halves, Whole, All, Requests
<1>5. Copied'
  BY DEF TypeOK, Turn, Reading, Written, Copied, Halves, Whole, All
<1> QED BY <1>1, <1>2, <1>3, <1>4, <1>5
LEMMA StepKeeps == RomInv /\ [Next]_vars => RomInv'
<1> SUFFICES ASSUME RomInv, [Next]_vars PROVE RomInv'
  OBVIOUS
<1>1. ASSUME UNCHANGED vars PROVE RomInv'
  BY <1>1 DEF RomInv, TypeOK, Turn, Reading, Written, Copied, Publishing, Cold,
              vars, words, cpu0, cpu1
<1>2. ASSUME PollStep PROVE RomInv'
  BY <1>2, PollAckKeeps, CopyOutKeeps, StoreModeKeeps, StoreGenKeeps, QueueKeeps DEF PollStep
<1>3. ASSUME Frame PROVE RomInv'
  BY <1>3, ReadGenKeeps, ReadModeKeeps, CopyInKeeps, AckKeeps DEF Frame
<1>4. ASSUME NEW r \in All, Apply(r) \/ SetMenu(r) PROVE RomInv'
  BY <1>4, ApplyKeeps, SetMenuKeeps
<1> QED BY <1>1, <1>2, <1>3, <1>4, PollKeeps DEF Next

\* The invariant holds of every reachable state.
THEOREM Invariance == Spec => []RomInv
BY InitInvariant, StepKeeps, PTL DEF Spec

\* Every word and local keeps its type: the generation stays in its word.
THEOREM TypeCorrect == Spec => []TypeOK
<1>1. RomInv => TypeOK
  BY DEF RomInv
<1> QED BY <1>1, Invariance, PTL

\* CPU1 never paints with a mixture of two ROMs: the shared buffer is not
\* written between publication and acknowledgement, nor in the cold start.
THEOREM NeverTornAlways == Spec => []NeverTorn
<1>1. RomInv => NeverTorn
  BY DEF RomInv, Copied, NeverTorn
<1> QED BY <1>1, Invariance, PTL

\* A status with nothing pending means CPU1 draws the last accepted request.
THEOREM Honest == Spec => []StatusHonest
<1>1. RomInv => StatusHonest
  <2> SUFFICES ASSUME RomInv, pc0 = "idle", ~pending, act.gen = pub.gen
               PROVE  drawn = Whole(asked.rom) /\ act.custom = asked.custom
    BY DEF StatusHonest
  <2>1. ack = gen /\ act.custom = pub.custom
    BY DEF RomInv, Turn
  <2>2. asked.rom = pub.rom /\ asked.custom = pub.custom
    BY DEF RomInv, Written
  <2>3. pc1 \notin Halves
    BY <2>1, GenAssumption DEF RomInv, Reading, Halves
  <2>4. drawn = Whole(pub.rom)
    BY <2>1, <2>3 DEF RomInv, Copied
  <2> QED BY <2>1, <2>2, <2>4
<1> QED BY <1>1, Invariance, PTL
-----------------------------------------------------------------------------
(* The firmware switch.  Its Boolean flags need no type: they are used as  *)
(* formulas only.                                                          *)
RebootTypeOK ==
  /\ job \in {"none", "switch", "golden"}
  /\ step \in {"loop", "start", "drain", "claim", "hold", "recheck", "disk", "sync", "commit",
               "register", "cpu1", "reset", "rebooted", "recover", "release"}
  /\ did \subseteq {"dma", "res", "iso", "request", "register", "cpu1"}
  /\ machine \in {"apple", "onee", "foreign", "off"}
  /\ dma \in {"none", "update", "other"}
  /\ booter \in {"firmware", "golden"} /\ worker \in {"runs", "held"}

\* Whatever is taken is noted, also when taking it was seen to fail.
Noted ==
  /\ dma = "update" => "dma" \in did
  /\ res => "res" \in did
  /\ isolated => "iso" \in did
  /\ worker = "held" => "cpu1" \in did
  /\ booter = "golden" => "register" \in did
  /\ wished => "request" \in did \/ stale

\* What the failure path has already given back.
GivenBack ==
  /\ step = "release" => worker = "runs" /\ booter = "firmware" /\ (wished => stale)
  /\ step = "loop" /\ ~fault => did = {} /\ ~active

\* How far the work has come, by its next step.
Halted == {"recheck", "disk", "sync", "commit", "register", "cpu1", "reset", "rebooted"}
Done ==
  /\ step \in Halted => \/ machine = "apple" /\ res
                        \/ machine = "onee" /\ paused
                        \/ machine = "off" /\ isolated
  /\ step \in Halted \cup {"hold"} => dma = "update"
  /\ step \in Halted \ {"recheck"} => ~command
  /\ step \in Halted \ {"recheck", "disk"} => ~track
  /\ step \in Halted \ {"recheck", "disk", "sync"} => ~image
  /\ step \in {"cpu1", "reset", "rebooted"} => booter = "golden"
  /\ step \in {"reset", "rebooted"} => worker = "held"

RebootInv == RebootTypeOK /\ Noted /\ GivenBack /\ Done

LEMMA RebootInitial == Reboot!Init => RebootInv
BY DEF Reboot!Init, RebootInv, RebootTypeOK, Noted, GivenBack, Done, Halted

LEMMA RebootStep == ASSUME RebootInv, [Reboot!Next]_rebootVars PROVE RebootInv'
<1> USE DEF RebootInv, Halted, Reboot!bus, Reboot!media, Reboot!boot, Reboot!status
<1>1. CASE Reboot!Executes
  <2>1. RebootTypeOK'
    BY <1>1 DEF Reboot!Executes, Reboot!Running, RebootTypeOK
  <2>2. Noted'
    BY <1>1 DEF Reboot!Executes, Reboot!Running, RebootTypeOK, Noted, GivenBack
  <2>3. GivenBack'
    BY <1>1 DEF Reboot!Executes, Reboot!Running, RebootTypeOK, Noted, GivenBack
  <2>4. Done'
    BY <1>1 DEF Reboot!Executes, Reboot!Running, RebootTypeOK, Done
  <2> QED BY <2>1, <2>2, <2>3, <2>4
<1>2. CASE Reboot!WritesDisk
  <2>1. RebootTypeOK'
    BY <1>2 DEF Reboot!WritesDisk, Reboot!Running, RebootTypeOK
  <2>2. Noted'
    BY <1>2 DEF Reboot!WritesDisk, Reboot!Running, RebootTypeOK, Noted, GivenBack
  <2>3. GivenBack'
    BY <1>2 DEF Reboot!WritesDisk, Reboot!Running, RebootTypeOK, Noted, GivenBack
  <2>4. Done'
    BY <1>2 DEF Reboot!WritesDisk, Reboot!Running, RebootTypeOK, Done
  <2> QED BY <2>1, <2>2, <2>3, <2>4
<1>3. CASE Reboot!PowerOn
  <2>1. RebootTypeOK'
    BY <1>3 DEF Reboot!PowerOn, RebootTypeOK
  <2>2. Noted'
    BY <1>3 DEF Reboot!PowerOn, RebootTypeOK, Noted, GivenBack
  <2>3. GivenBack'
    BY <1>3 DEF Reboot!PowerOn, RebootTypeOK, Noted, GivenBack
  <2>4. Done'
    BY <1>3 DEF Reboot!PowerOn, RebootTypeOK, Done
  <2> QED BY <2>1, <2>2, <2>3, <2>4
<1>4. CASE Reboot!Serve
  <2>1. RebootTypeOK'
    BY <1>4 DEF Reboot!Serve, RebootTypeOK
  <2>2. Noted'
    BY <1>4 DEF Reboot!Serve, RebootTypeOK, Noted, GivenBack
  <2>3. GivenBack'
    BY <1>4 DEF Reboot!Serve, RebootTypeOK, Noted, GivenBack
  <2>4. Done'
    BY <1>4 DEF Reboot!Serve, RebootTypeOK, Done
  <2> QED BY <2>1, <2>2, <2>3, <2>4
<1>5. CASE Reboot!Start
  <2>1. RebootTypeOK'
    BY <1>5 DEF Reboot!Start, RebootTypeOK
  <2>2. Noted'
    BY <1>5 DEF Reboot!Start, RebootTypeOK, Noted, GivenBack
  <2>3. GivenBack'
    BY <1>5 DEF Reboot!Start, RebootTypeOK, Noted, GivenBack
  <2>4. Done'
    BY <1>5 DEF Reboot!Start, RebootTypeOK, Done
  <2> QED BY <2>1, <2>2, <2>3, <2>4
<1>6. CASE Reboot!Drain
  <2>1. RebootTypeOK'
    BY <1>6 DEF Reboot!Drain, RebootTypeOK
  <2>2. Noted'
    BY <1>6 DEF Reboot!Drain, RebootTypeOK, Noted, GivenBack
  <2>3. GivenBack'
    BY <1>6 DEF Reboot!Drain, RebootTypeOK, Noted, GivenBack
  <2>4. Done'
    BY <1>6 DEF Reboot!Drain, RebootTypeOK, Done
  <2> QED BY <2>1, <2>2, <2>3, <2>4
<1>7. CASE Reboot!Claim
  <2>1. RebootTypeOK'
    BY <1>7 DEF Reboot!Claim, RebootTypeOK
  <2>2. Noted'
    BY <1>7 DEF Reboot!Claim, RebootTypeOK, Noted, GivenBack
  <2>3. GivenBack'
    BY <1>7 DEF Reboot!Claim, RebootTypeOK, Noted, GivenBack
  <2>4. Done'
    BY <1>7 DEF Reboot!Claim, RebootTypeOK, Done
  <2> QED BY <2>1, <2>2, <2>3, <2>4
<1>8. CASE Reboot!HoldReset
  <2>1. RebootTypeOK'
    BY <1>8 DEF Reboot!HoldReset, RebootTypeOK
  <2>2. Noted'
    BY <1>8 DEF Reboot!HoldReset, RebootTypeOK, Noted, GivenBack
  <2>3. GivenBack'
    BY <1>8 DEF Reboot!HoldReset, RebootTypeOK, Noted, GivenBack
  <2>4. Done'
    BY <1>8 DEF Reboot!HoldReset, RebootTypeOK, Done
  <2> QED BY <2>1, <2>2, <2>3, <2>4
<1>9. CASE Reboot!HoldQuiet
  <2>1. RebootTypeOK'
    BY <1>9 DEF Reboot!HoldQuiet, RebootTypeOK
  <2>2. Noted'
    BY <1>9 DEF Reboot!HoldQuiet, RebootTypeOK, Noted, GivenBack
  <2>3. GivenBack'
    BY <1>9 DEF Reboot!HoldQuiet, RebootTypeOK, Noted, GivenBack
  <2>4. Done'
    BY <1>9 DEF Reboot!HoldQuiet, RebootTypeOK, Done
  <2> QED BY <2>1, <2>2, <2>3, <2>4
<1>10. CASE Reboot!HoldRefused
  <2>1. RebootTypeOK'
    BY <1>10 DEF Reboot!HoldRefused, RebootTypeOK
  <2>2. Noted'
    BY <1>10 DEF Reboot!HoldRefused, RebootTypeOK, Noted, GivenBack
  <2>3. GivenBack'
    BY <1>10 DEF Reboot!HoldRefused, RebootTypeOK, Noted, GivenBack
  <2>4. Done'
    BY <1>10 DEF Reboot!HoldRefused, RebootTypeOK, Done
  <2> QED BY <2>1, <2>2, <2>3, <2>4
<1>11. CASE Reboot!HoldPaused
  <2>1. RebootTypeOK'
    BY <1>11 DEF Reboot!HoldPaused, RebootTypeOK
  <2>2. Noted'
    BY <1>11 DEF Reboot!HoldPaused, RebootTypeOK, Noted, GivenBack
  <2>3. GivenBack'
    BY <1>11 DEF Reboot!HoldPaused, RebootTypeOK, Noted, GivenBack
  <2>4. Done'
    BY <1>11 DEF Reboot!HoldPaused, RebootTypeOK, Done
  <2> QED BY <2>1, <2>2, <2>3, <2>4
<1>12. CASE Reboot!Recheck
  <2>1. RebootTypeOK'
    BY <1>12 DEF Reboot!Recheck, RebootTypeOK
  <2>2. Noted'
    BY <1>12 DEF Reboot!Recheck, RebootTypeOK, Noted, GivenBack
  <2>3. GivenBack'
    BY <1>12 DEF Reboot!Recheck, RebootTypeOK, Noted, GivenBack
  <2>4. Done'
    BY <1>12 DEF Reboot!Recheck, RebootTypeOK, Done
  <2> QED BY <2>1, <2>2, <2>3, <2>4
<1>13. CASE Reboot!FlushDisk
  <2>1. RebootTypeOK'
    BY <1>13 DEF Reboot!FlushDisk, RebootTypeOK
  <2>2. Noted'
    BY <1>13 DEF Reboot!FlushDisk, RebootTypeOK, Noted, GivenBack
  <2>3. GivenBack'
    BY <1>13 DEF Reboot!FlushDisk, RebootTypeOK, Noted, GivenBack
  <2>4. Done'
    BY <1>13 DEF Reboot!FlushDisk, RebootTypeOK, Done
  <2> QED BY <2>1, <2>2, <2>3, <2>4
<1>14. CASE Reboot!SyncSd
  <2>1. RebootTypeOK'
    BY <1>14 DEF Reboot!SyncSd, RebootTypeOK
  <2>2. Noted'
    BY <1>14 DEF Reboot!SyncSd, RebootTypeOK, Noted, GivenBack
  <2>3. GivenBack'
    BY <1>14 DEF Reboot!SyncSd, RebootTypeOK, Noted, GivenBack
  <2>4. Done'
    BY <1>14 DEF Reboot!SyncSd, RebootTypeOK, Done
  <2> QED BY <2>1, <2>2, <2>3, <2>4
<1>15. CASE Reboot!Commit
  <2>1. RebootTypeOK'
    BY <1>15 DEF Reboot!Commit, RebootTypeOK
  <2>2. Noted'
    <3>1. CASE did' = did \cup {"request"}
      BY <1>15, <3>1 DEF Reboot!Commit, Noted
    <3>2. CASE UNCHANGED <<did, wished>>
      BY <1>15, <3>2 DEF Reboot!Commit, Noted
    <3> QED BY <1>15, <3>1, <3>2 DEF Reboot!Commit
  <2>3. GivenBack'
    BY <1>15 DEF Reboot!Commit, RebootTypeOK, Noted, GivenBack
  <2>4. Done'
    BY <1>15 DEF Reboot!Commit, RebootTypeOK, Done
  <2> QED BY <2>1, <2>2, <2>3, <2>4
<1>16. CASE Reboot!Preselect
  <2>1. RebootTypeOK'
    BY <1>16 DEF Reboot!Preselect, RebootTypeOK
  <2>2. Noted'
    BY <1>16 DEF Reboot!Preselect, RebootTypeOK, Noted, GivenBack
  <2>3. GivenBack'
    BY <1>16 DEF Reboot!Preselect, RebootTypeOK, Noted, GivenBack
  <2>4. Done'
    BY <1>16 DEF Reboot!Preselect, RebootTypeOK, Done
  <2> QED BY <2>1, <2>2, <2>3, <2>4
<1>17. CASE Reboot!HoldCpu1
  <2>1. RebootTypeOK'
    BY <1>17 DEF Reboot!HoldCpu1, RebootTypeOK
  <2>2. Noted'
    BY <1>17 DEF Reboot!HoldCpu1, RebootTypeOK, Noted, GivenBack
  <2>3. GivenBack'
    BY <1>17 DEF Reboot!HoldCpu1, RebootTypeOK, Noted, GivenBack
  <2>4. Done'
    BY <1>17 DEF Reboot!HoldCpu1, RebootTypeOK, Done
  <2> QED BY <2>1, <2>2, <2>3, <2>4
<1>18. CASE Reboot!Recover
  <2>1. RebootTypeOK'
    BY <1>18 DEF Reboot!Recover, Reboot!Unask, RebootTypeOK
  <2>2. Noted'
    BY <1>18 DEF Reboot!Recover, Reboot!Unask, RebootTypeOK, Noted, GivenBack
  <2>3. GivenBack'
    BY <1>18 DEF Reboot!Recover, Reboot!Unask, RebootTypeOK, Noted, GivenBack
  <2>4. Done'
    BY <1>18 DEF Reboot!Recover, Reboot!Unask, RebootTypeOK, Done
  <2> QED BY <2>1, <2>2, <2>3, <2>4
<1>19. CASE Reboot!Release
  <2>1. RebootTypeOK'
    BY <1>19 DEF Reboot!Release, RebootTypeOK
  <2>2. Noted'
    BY <1>19 DEF Reboot!Release, RebootTypeOK, Noted, GivenBack
  <2>3. GivenBack'
    BY <1>19 DEF Reboot!Release, RebootTypeOK, Noted, GivenBack
  <2>4. Done'
    BY <1>19 DEF Reboot!Release, RebootTypeOK, Done
  <2> QED BY <2>1, <2>2, <2>3, <2>4
<1>20. CASE Reboot!Reset
  <2>1. RebootTypeOK'
    BY <1>20 DEF Reboot!Reset, RebootTypeOK
  <2>2. Noted'
    BY <1>20 DEF Reboot!Reset, RebootTypeOK, Noted, GivenBack
  <2>3. GivenBack'
    BY <1>20 DEF Reboot!Reset, RebootTypeOK, Noted, GivenBack
  <2>4. Done'
    BY <1>20 DEF Reboot!Reset, RebootTypeOK, Done
  <2> QED BY <2>1, <2>2, <2>3, <2>4
<1>21. ASSUME NEW j \in {"switch", "golden"}, Reboot!Request(j) PROVE RebootInv'
  <2>1. RebootTypeOK'
    BY <1>21 DEF Reboot!Request, RebootTypeOK
  <2>2. Noted'
    BY <1>21 DEF Reboot!Request, RebootTypeOK, Noted, GivenBack
  <2>3. GivenBack'
    BY <1>21 DEF Reboot!Request, RebootTypeOK, Noted, GivenBack
  <2>4. Done'
    BY <1>21 DEF Reboot!Request, RebootTypeOK, Done
  <2> QED BY <2>1, <2>2, <2>3, <2>4
<1>22. CASE UNCHANGED rebootVars
  <2>1. RebootTypeOK'
    BY <1>22 DEF rebootVars, RebootTypeOK
  <2>2. Noted'
    BY <1>22 DEF rebootVars, RebootTypeOK, Noted, GivenBack
  <2>3. GivenBack'
    BY <1>22 DEF rebootVars, RebootTypeOK, Noted, GivenBack
  <2>4. Done'
    BY <1>22 DEF rebootVars, RebootTypeOK, Done
  <2> QED BY <2>1, <2>2, <2>3, <2>4
<1> QED BY <1>1, <1>2, <1>3, <1>4, <1>5, <1>6, <1>7, <1>8, <1>9, <1>10, <1>11, <1>12, <1>13,
    <1>14, <1>15, <1>16, <1>17, <1>18, <1>19, <1>20, <1>21, <1>22 DEF Reboot!Next,
    Reboot!Steps

\* main.c:2423: a switch that is given up leaves nothing held.
THEOREM HoldsGivenBack == Reboot!Spec => []HoldsReturned
<1>1. Reboot!Init => RebootInv
  BY RebootInitial
<1>2. RebootInv /\ [Reboot!Next]_Reboot!vars => RebootInv'
  BY RebootStep DEF rebootVars, Reboot!vars
<1>3. RebootInv => HoldsReturned
  BY DEF RebootInv, Noted, GivenBack, RebootTypeOK, HoldsReturned, Reboot!HoldsReturned
<1> QED BY <1>1, <1>2, <1>3, PTL DEF Reboot!Spec

\* main.c:2458: at the reset nothing is half done or unsaved, and Golden comes next.
THEOREM NothingLostAtReset == Reboot!Spec => []ResetLosesNothing
<1>1. Reboot!Init => RebootInv
  BY RebootInitial
<1>2. RebootInv /\ [Reboot!Next]_Reboot!vars => RebootInv'
  BY RebootStep DEF rebootVars, Reboot!vars
<1>3. RebootInv => ResetLosesNothing
  BY DEF RebootInv, Done, Halted, RebootTypeOK, ResetLosesNothing,
         Reboot!ResetLosesNothing, Reboot!Running
<1> QED BY <1>1, <1>2, <1>3, PTL DEF Reboot!Spec
-----------------------------------------------------------------------------
(* The HTTP client                                                         *)

\* Who has the Ethernet chip.  A request has it from its claim to its end; after
\* that only one whose layout could not be restored, and that is the updater's.
Ether ==
  /\ wanted \in BOOLEAN /\ ftpSaved \in BOOLEAN
  /\ chip \in {"normal", "update"}
  /\ owns => ~slot /\ ~ftp
  /\ ftp => ~slot
  /\ ~owns => slot = wanted
  /\ owns => saved = wanted
  /\ owns => Net!Active \/ restorePending
  /\ Net!Active => (owns <=> hs # "prepare")
  /\ rxRestore => owns /\ owner = "update"
  /\ chip = "update" => rxRestore
  /\ restorePending => rxRestore /\ ~Net!Active
  /\ owner = "update" => uOwned
  /\ ftp => ~Net!Active

\* While a USB host waits for the card or has it, nothing starts.
Card ==
  /\ usb # "none" => storageBusy /\ ns # "active"
  /\ usb = "lent" => ~open /\ ~part /\ ~uFile /\ ~Net!Active

\* Where the units of a body are: unread ones in the ring, and for a download the
\* others in its file.
Body ==
  /\ got \in Nat /\ ring \in Nat /\ written \in Nat
  /\ console => owner = "console"
  /\ owner = "net" /\ ~consumed => ring = got
  /\ owner = "download" => ds = "writing" /\ code = "ok" /\ request # "start"
  /\ owner = "download" /\ ~closed => written + ring = got
  /\ owner = "download" /\ closed => hs = "done" /\ written = got /\ (known => got = Size)

NetInv == Ether /\ Card /\ Body

LEMMA NetInitial == Net!Init => NetInv
<1> SUFFICES ASSUME Net!Init PROVE NetInv
  OBVIOUS
<1>1. Ether
  BY DEF Net!Init, Ether, Net!Active
<1>2. Card
  BY DEF Net!Init, Card
<1>3. Body
  BY DEF Net!Init, Body
<1> QED BY <1>1, <1>2, <1>3 DEF NetInv

LEMMA EtherKept ==
  ASSUME Ether, [Net!Next]_netVars
  PROVE  Ether'
<1> USE DEF Ether, Net!Active, Net!http, Net!ether, Net!net, Net!file, Net!update, Net!lent,
    Net!rest
<1>1. CASE Net!Claim
  BY <1>1 DEF Net!Claim
<1>2. CASE Net!ClaimFails
  BY <1>2 DEF Net!ClaimFails
<1>3. CASE Net!Open
  BY <1>3 DEF Net!Open
<1>4. CASE Net!OpenFails
  BY <1>4 DEF Net!OpenFails
<1>5. CASE Net!Connected
  BY <1>5 DEF Net!Connected
<1>6. CASE Net!Redirect
  BY <1>6 DEF Net!Redirect
<1>7. CASE Net!Headers
  BY <1>7 DEF Net!Headers
<1>8. CASE Net!Receive
  BY <1>8 DEF Net!Receive
<1>9. ASSUME NEW ok \in BOOLEAN, Net!Complete(ok)
      PROVE  Ether'
  BY <1>9 DEF Net!Complete, Net!Finish, Net!Release
<1>10. ASSUME NEW ok \in BOOLEAN, Net!Fails(ok)
      PROVE  Ether'
  BY <1>10 DEF Net!Fails, Net!Finish, Net!Release
<1>11. CASE Net!NetPollStarts
  BY <1>11 DEF Net!NetPollStarts, Net!StartFor, Net!CanStart
<1>12. CASE Net!NetPollRefused
  BY <1>12 DEF Net!NetPollRefused, Net!Cancel, Net!Release
<1>13. CASE Net!NetPollCancels
  BY <1>13 DEF Net!NetPollCancels, Net!Cancel, Net!Release
<1>14. CASE Net!NetPollHandsOff
  BY <1>14 DEF Net!NetPollHandsOff, Net!NetHeld, Net!NetActive, Net!Begin
<1>15. CASE Net!NetPollNoFile
  BY <1>15 DEF Net!NetPollNoFile, Net!NetHeld, Net!NetActive, Net!Release
<1>16. CASE Net!NetPollPage
  BY <1>16 DEF Net!NetPollPage, Net!NetHeld, Net!NetActive
<1>17. CASE Net!NetPollDone
  BY <1>17 DEF Net!NetPollDone, Net!NetHeld, Net!NetActive
<1>18. ASSUME NEW c \in BOOLEAN, NEW u \in BOOLEAN, Net!NetPollLost(c, u)
      PROVE  Ether'
  BY <1>18 DEF Net!NetPollLost, Net!NetActive, Net!DownloadFails, Net!Clean, Net!Cancel,
      Net!Release
<1>19. CASE Net!NetPollDownload
  BY <1>19 DEF Net!NetPollDownload, Net!DownloadPoll, Net!DownloadFails, Net!Clean,
      Net!Cancel, Net!Release, Net!Write, Net!Commit, Net!IsWhole, Net!NetActive
<1>20. CASE Net!UpdateOpens
  BY <1>20 DEF Net!UpdateOpens, Net!MayUpdate, Net!Served, Net!DownloadActive
<1>21. CASE Net!UpdateRequests
  BY <1>21 DEF Net!UpdateRequests, Net!MayUpdate, Net!Served, Net!DownloadActive,
      Net!CanStart, Net!StartFor
<1>22. CASE Net!UpdateReads
  BY <1>22 DEF Net!UpdateReads, Net!MayUpdate
<1>23. CASE Net!UpdateReceived
  BY <1>23 DEF Net!UpdateReceived, Net!MayUpdate, Net!Cancel, Net!Release
<1>24. CASE Net!UpdateStages
  BY <1>24 DEF Net!UpdateStages, Net!MayUpdate
<1>25. ASSUME NEW ok \in BOOLEAN, NEW r \in BOOLEAN, Net!UpdateRetries(ok, r)
      PROVE  Ether'
  BY <1>25 DEF Net!UpdateRetries, Net!UpdateClean, Net!Cancel, Net!Release
<1>26. ASSUME NEW ok \in BOOLEAN, NEW r \in BOOLEAN, Net!UpdateFails(ok, r)
      PROVE  Ether'
  BY <1>26 DEF Net!UpdateFails, Net!UpdateClean, Net!Cancel, Net!Release
<1>27. CASE Net!ConsoleStart
  BY <1>27 DEF Net!ConsoleStart, Net!CanStart, Net!StartFor
<1>28. CASE Net!ConsoleCancel
  BY <1>28 DEF Net!ConsoleCancel, Net!Cancel, Net!Release
<1>29. CASE Net!ConsolePoll
  BY <1>29 DEF Net!ConsolePoll
<1>30. CASE Net!NetRead
  BY <1>30 DEF Net!NetRead, Net!Served
<1>31. CASE Net!UsbUnmount
  BY <1>31 DEF Net!UsbUnmount
<1>32. CASE Net!FtpStart
  BY <1>32 DEF Net!FtpStart, Net!SlotPolicy, Net!UpdateActive, Net!DownloadActive
<1>33. CASE Net!FtpStop
  BY <1>33 DEF Net!FtpStop, Net!SlotPolicy
<1>34. ASSUME NEW b \in BOOLEAN, Net!Restore(b)
      PROVE  Ether'
  BY <1>34 DEF Net!Restore, Net!Release
<1>35. ASSUME NEW b \in BOOLEAN, Net!NetStart(b)
      PROVE  Ether'
  BY <1>35 DEF Net!NetStart, Net!Served, Net!DownloadActive
<1>36. ASSUME NEW b \in BOOLEAN, Net!UpdateStart(b)
      PROVE  Ether'
  BY <1>36 DEF Net!UpdateStart, Net!UpdateActive
<1>37. ASSUME NEW b \in BOOLEAN, Net!SetSlot(b)
      PROVE  Ether'
  BY <1>37 DEF Net!SetSlot, Net!SlotPolicy
<1>38. ASSUME NEW c \in BOOLEAN, NEW u \in BOOLEAN, Net!NetCancel(c, u)
      PROVE  Ether'
  BY <1>38 DEF Net!NetCancel, Net!Served, Net!Clean, Net!Cancel, Net!Release
<1>39. ASSUME NEW ok \in BOOLEAN, NEW c \in BOOLEAN, NEW u \in BOOLEAN, Net!UsbMounts(ok, c, u)
      PROVE  Ether'
  BY <1>39 DEF Net!UsbMounts, Net!UsbMount, Net!Finish, Net!Cancel, Net!Release,
      Net!LendsTo, Net!UpdateActive
<1>40. ASSUME NEW ok \in BOOLEAN, NEW c \in BOOLEAN, NEW u \in BOOLEAN, Net!UsbRetries(ok, c, u)
      PROVE  Ether'
  BY <1>40 DEF Net!UsbRetries, Net!UsbMount, Net!Finish, Net!Cancel, Net!Release,
      Net!LendsTo, Net!UpdateActive
<1>41. CASE UNCHANGED netVars
  BY <1>41 DEF netVars
<1> QED BY <1>1, <1>2, <1>3, <1>4, <1>5, <1>6, <1>7, <1>8, <1>9, <1>10, <1>11, <1>12, <1>13,
    <1>14, <1>15, <1>16, <1>17, <1>18, <1>19, <1>20, <1>21, <1>22, <1>23, <1>24, <1>25,
    <1>26, <1>27, <1>28, <1>29, <1>30, <1>31, <1>32, <1>33, <1>34, <1>35, <1>36, <1>37,
    <1>38, <1>39, <1>40, <1>41 DEF Net!Next, Net!Step, Net!NetPoll, Net!UpdatePoll

LEMMA CardKept ==
  ASSUME Card, [Net!Next]_netVars
  PROVE  Card'
<1> USE DEF Card, Net!Active, Net!http, Net!ether, Net!net, Net!file, Net!update, Net!lent,
    Net!rest
<1>1. CASE Net!Claim
  BY <1>1 DEF Net!Claim
<1>2. CASE Net!ClaimFails
  BY <1>2 DEF Net!ClaimFails
<1>3. CASE Net!Open
  BY <1>3 DEF Net!Open
<1>4. CASE Net!OpenFails
  BY <1>4 DEF Net!OpenFails
<1>5. CASE Net!Connected
  BY <1>5 DEF Net!Connected
<1>6. CASE Net!Redirect
  BY <1>6 DEF Net!Redirect
<1>7. CASE Net!Headers
  BY <1>7 DEF Net!Headers
<1>8. CASE Net!Receive
  BY <1>8 DEF Net!Receive
<1>9. ASSUME NEW ok \in BOOLEAN, Net!Complete(ok)
      PROVE  Card'
  BY <1>9 DEF Net!Complete, Net!Finish, Net!Release
<1>10. ASSUME NEW ok \in BOOLEAN, Net!Fails(ok)
      PROVE  Card'
  BY <1>10 DEF Net!Fails, Net!Finish, Net!Release
<1>11. CASE Net!NetPollStarts
  BY <1>11 DEF Net!NetPollStarts, Net!StartFor, Net!CanStart
<1>12. CASE Net!NetPollRefused
  BY <1>12 DEF Net!NetPollRefused, Net!Cancel, Net!Release
<1>13. CASE Net!NetPollCancels
  BY <1>13 DEF Net!NetPollCancels, Net!Cancel, Net!Release
<1>14. CASE Net!NetPollHandsOff
  BY <1>14 DEF Net!NetPollHandsOff, Net!NetHeld, Net!NetActive, Net!Begin
<1>15. CASE Net!NetPollNoFile
  BY <1>15 DEF Net!NetPollNoFile, Net!NetHeld, Net!NetActive, Net!Release
<1>16. CASE Net!NetPollPage
  BY <1>16 DEF Net!NetPollPage, Net!NetHeld, Net!NetActive
<1>17. CASE Net!NetPollDone
  BY <1>17 DEF Net!NetPollDone, Net!NetHeld, Net!NetActive
<1>18. ASSUME NEW c \in BOOLEAN, NEW u \in BOOLEAN, Net!NetPollLost(c, u)
      PROVE  Card'
  BY <1>18 DEF Net!NetPollLost, Net!NetActive, Net!DownloadFails, Net!Clean, Net!Cancel,
      Net!Release
<1>19. CASE Net!NetPollDownload
  BY <1>19 DEF Net!NetPollDownload, Net!DownloadPoll, Net!DownloadFails, Net!Clean,
      Net!Cancel, Net!Release, Net!Write, Net!Commit, Net!IsWhole, Net!NetActive
<1>20. CASE Net!UpdateOpens
  BY <1>20 DEF Net!UpdateOpens, Net!MayUpdate, Net!Served, Net!DownloadActive
<1>21. CASE Net!UpdateRequests
  BY <1>21 DEF Net!UpdateRequests, Net!MayUpdate, Net!Served, Net!DownloadActive,
      Net!CanStart, Net!StartFor
<1>22. CASE Net!UpdateReads
  BY <1>22 DEF Net!UpdateReads, Net!MayUpdate
<1>23. CASE Net!UpdateReceived
  BY <1>23 DEF Net!UpdateReceived, Net!MayUpdate, Net!Cancel, Net!Release
<1>24. CASE Net!UpdateStages
  BY <1>24 DEF Net!UpdateStages, Net!MayUpdate
<1>25. ASSUME NEW ok \in BOOLEAN, NEW r \in BOOLEAN, Net!UpdateRetries(ok, r)
      PROVE  Card'
  BY <1>25 DEF Net!UpdateRetries, Net!UpdateClean, Net!Cancel, Net!Release
<1>26. ASSUME NEW ok \in BOOLEAN, NEW r \in BOOLEAN, Net!UpdateFails(ok, r)
      PROVE  Card'
  BY <1>26 DEF Net!UpdateFails, Net!UpdateClean, Net!Cancel, Net!Release
<1>27. CASE Net!ConsoleStart
  BY <1>27 DEF Net!ConsoleStart, Net!CanStart, Net!StartFor
<1>28. CASE Net!ConsoleCancel
  BY <1>28 DEF Net!ConsoleCancel, Net!Cancel, Net!Release
<1>29. CASE Net!ConsolePoll
  BY <1>29 DEF Net!ConsolePoll
<1>30. CASE Net!NetRead
  BY <1>30 DEF Net!NetRead, Net!Served
<1>31. CASE Net!UsbUnmount
  BY <1>31 DEF Net!UsbUnmount
<1>32. CASE Net!FtpStart
  BY <1>32 DEF Net!FtpStart, Net!SlotPolicy, Net!UpdateActive, Net!DownloadActive
<1>33. CASE Net!FtpStop
  BY <1>33 DEF Net!FtpStop, Net!SlotPolicy
<1>34. ASSUME NEW b \in BOOLEAN, Net!Restore(b)
      PROVE  Card'
  BY <1>34 DEF Net!Restore, Net!Release
<1>35. ASSUME NEW b \in BOOLEAN, Net!NetStart(b)
      PROVE  Card'
  BY <1>35 DEF Net!NetStart, Net!Served, Net!DownloadActive
<1>36. ASSUME NEW b \in BOOLEAN, Net!UpdateStart(b)
      PROVE  Card'
  BY <1>36 DEF Net!UpdateStart, Net!UpdateActive
<1>37. ASSUME NEW b \in BOOLEAN, Net!SetSlot(b)
      PROVE  Card'
  BY <1>37 DEF Net!SetSlot, Net!SlotPolicy
<1>38. ASSUME NEW c \in BOOLEAN, NEW u \in BOOLEAN, Net!NetCancel(c, u)
      PROVE  Card'
  BY <1>38 DEF Net!NetCancel, Net!Served, Net!Clean, Net!Cancel, Net!Release
<1>39. ASSUME NEW ok \in BOOLEAN, NEW c \in BOOLEAN, NEW u \in BOOLEAN, Net!UsbMounts(ok, c, u)
      PROVE  Card'
  BY <1>39 DEF Net!UsbMounts, Net!UsbMount, Net!Finish, Net!Cancel, Net!Release,
      Net!LendsTo, Net!UpdateActive
<1>40. ASSUME NEW ok \in BOOLEAN, NEW c \in BOOLEAN, NEW u \in BOOLEAN, Net!UsbRetries(ok, c, u)
      PROVE  Card'
  BY <1>40 DEF Net!UsbRetries, Net!UsbMount, Net!Finish, Net!Cancel, Net!Release,
      Net!LendsTo, Net!UpdateActive
<1>41. CASE UNCHANGED netVars
  BY <1>41 DEF netVars
<1> QED BY <1>1, <1>2, <1>3, <1>4, <1>5, <1>6, <1>7, <1>8, <1>9, <1>10, <1>11, <1>12, <1>13,
    <1>14, <1>15, <1>16, <1>17, <1>18, <1>19, <1>20, <1>21, <1>22, <1>23, <1>24, <1>25,
    <1>26, <1>27, <1>28, <1>29, <1>30, <1>31, <1>32, <1>33, <1>34, <1>35, <1>36, <1>37,
    <1>38, <1>39, <1>40, <1>41 DEF Net!Next, Net!Step, Net!NetPoll, Net!UpdatePoll

LEMMA BodyKept ==
  ASSUME Ether, Body, [Net!Next]_netVars
  PROVE  Body'
<1> USE DEF Ether, Body, Net!Active, Net!http, Net!ether, Net!net, Net!file, Net!update,
    Net!lent, Net!rest
<1>1. CASE Net!Claim
  BY <1>1 DEF Net!Claim
<1>2. CASE Net!ClaimFails
  BY <1>2 DEF Net!ClaimFails
<1>3. CASE Net!Open
  BY <1>3 DEF Net!Open
<1>4. CASE Net!OpenFails
  BY <1>4 DEF Net!OpenFails
<1>5. CASE Net!Connected
  BY <1>5 DEF Net!Connected
<1>6. CASE Net!Redirect
  BY <1>6 DEF Net!Redirect
<1>7. CASE Net!Headers
  BY <1>7 DEF Net!Headers
<1>8. CASE Net!Receive
  BY <1>8 DEF Net!Receive
<1>9. ASSUME NEW ok \in BOOLEAN, Net!Complete(ok)
      PROVE  Body'
  BY <1>9 DEF Net!Complete, Net!Finish, Net!Release
<1>10. ASSUME NEW ok \in BOOLEAN, Net!Fails(ok)
      PROVE  Body'
  BY <1>10 DEF Net!Fails, Net!Finish, Net!Release
<1>11. CASE Net!NetPollStarts
  BY <1>11 DEF Net!NetPollStarts, Net!StartFor, Net!CanStart
<1>12. CASE Net!NetPollRefused
  BY <1>12 DEF Net!NetPollRefused, Net!Cancel, Net!Release
<1>13. CASE Net!NetPollCancels
  BY <1>13 DEF Net!NetPollCancels, Net!Cancel, Net!Release
<1>14. CASE Net!NetPollHandsOff
  BY <1>14 DEF Net!NetPollHandsOff, Net!NetHeld, Net!NetActive, Net!Begin
<1>15. CASE Net!NetPollNoFile
  BY <1>15 DEF Net!NetPollNoFile, Net!NetHeld, Net!NetActive, Net!Release
<1>16. CASE Net!NetPollPage
  BY <1>16 DEF Net!NetPollPage, Net!NetHeld, Net!NetActive
<1>17. CASE Net!NetPollDone
  BY <1>17 DEF Net!NetPollDone, Net!NetHeld, Net!NetActive
<1>18. ASSUME NEW c \in BOOLEAN, NEW u \in BOOLEAN, Net!NetPollLost(c, u)
      PROVE  Body'
  BY <1>18 DEF Net!NetPollLost, Net!NetActive, Net!DownloadFails, Net!Clean, Net!Cancel,
      Net!Release
<1>19. CASE Net!NetPollDownload
  BY <1>19 DEF Net!NetPollDownload, Net!DownloadPoll, Net!DownloadFails, Net!Clean,
      Net!Cancel, Net!Release, Net!Write, Net!Commit, Net!IsWhole, Net!NetActive
<1>20. CASE Net!UpdateOpens
  BY <1>20 DEF Net!UpdateOpens, Net!MayUpdate, Net!Served, Net!DownloadActive
<1>21. CASE Net!UpdateRequests
  BY <1>21 DEF Net!UpdateRequests, Net!MayUpdate, Net!Served, Net!DownloadActive,
      Net!CanStart, Net!StartFor
<1>22. CASE Net!UpdateReads
  BY <1>22 DEF Net!UpdateReads, Net!MayUpdate
<1>23. CASE Net!UpdateReceived
  BY <1>23 DEF Net!UpdateReceived, Net!MayUpdate, Net!Cancel, Net!Release
<1>24. CASE Net!UpdateStages
  BY <1>24 DEF Net!UpdateStages, Net!MayUpdate
<1>25. ASSUME NEW ok \in BOOLEAN, NEW r \in BOOLEAN, Net!UpdateRetries(ok, r)
      PROVE  Body'
  BY <1>25 DEF Net!UpdateRetries, Net!UpdateClean, Net!Cancel, Net!Release
<1>26. ASSUME NEW ok \in BOOLEAN, NEW r \in BOOLEAN, Net!UpdateFails(ok, r)
      PROVE  Body'
  BY <1>26 DEF Net!UpdateFails, Net!UpdateClean, Net!Cancel, Net!Release
<1>27. CASE Net!ConsoleStart
  BY <1>27 DEF Net!ConsoleStart, Net!CanStart, Net!StartFor
<1>28. CASE Net!ConsoleCancel
  BY <1>28 DEF Net!ConsoleCancel, Net!Cancel, Net!Release
<1>29. CASE Net!ConsolePoll
  BY <1>29 DEF Net!ConsolePoll
<1>30. CASE Net!NetRead
  BY <1>30 DEF Net!NetRead, Net!Served
<1>31. CASE Net!UsbUnmount
  BY <1>31 DEF Net!UsbUnmount
<1>32. CASE Net!FtpStart
  BY <1>32 DEF Net!FtpStart, Net!SlotPolicy, Net!UpdateActive, Net!DownloadActive
<1>33. CASE Net!FtpStop
  BY <1>33 DEF Net!FtpStop, Net!SlotPolicy
<1>34. ASSUME NEW b \in BOOLEAN, Net!Restore(b)
      PROVE  Body'
  BY <1>34 DEF Net!Restore, Net!Release
<1>35. ASSUME NEW b \in BOOLEAN, Net!NetStart(b)
      PROVE  Body'
  BY <1>35 DEF Net!NetStart, Net!Served, Net!DownloadActive
<1>36. ASSUME NEW b \in BOOLEAN, Net!UpdateStart(b)
      PROVE  Body'
  BY <1>36 DEF Net!UpdateStart, Net!UpdateActive
<1>37. ASSUME NEW b \in BOOLEAN, Net!SetSlot(b)
      PROVE  Body'
  BY <1>37 DEF Net!SetSlot, Net!SlotPolicy
<1>38. ASSUME NEW c \in BOOLEAN, NEW u \in BOOLEAN, Net!NetCancel(c, u)
      PROVE  Body'
  BY <1>38 DEF Net!NetCancel, Net!Served, Net!Clean, Net!Cancel, Net!Release
<1>39. ASSUME NEW ok \in BOOLEAN, NEW c \in BOOLEAN, NEW u \in BOOLEAN, Net!UsbMounts(ok, c, u)
      PROVE  Body'
  BY <1>39 DEF Net!UsbMounts, Net!UsbMount, Net!Finish, Net!Cancel, Net!Release,
      Net!LendsTo, Net!UpdateActive
<1>40. ASSUME NEW ok \in BOOLEAN, NEW c \in BOOLEAN, NEW u \in BOOLEAN, Net!UsbRetries(ok, c, u)
      PROVE  Body'
  BY <1>40 DEF Net!UsbRetries, Net!UsbMount, Net!Finish, Net!Cancel, Net!Release,
      Net!LendsTo, Net!UpdateActive
<1>41. CASE UNCHANGED netVars
  BY <1>41 DEF netVars
<1> QED BY <1>1, <1>2, <1>3, <1>4, <1>5, <1>6, <1>7, <1>8, <1>9, <1>10, <1>11, <1>12, <1>13,
    <1>14, <1>15, <1>16, <1>17, <1>18, <1>19, <1>20, <1>21, <1>22, <1>23, <1>24, <1>25,
    <1>26, <1>27, <1>28, <1>29, <1>30, <1>31, <1>32, <1>33, <1>34, <1>35, <1>36, <1>37,
    <1>38, <1>39, <1>40, <1>41 DEF Net!Next, Net!Step, Net!NetPoll, Net!UpdatePoll

LEMMA NetStep == NetInv /\ [Net!Next]_Net!hvars => NetInv'
BY EtherKept, CardKept, BodyKept
   DEF NetInv, netVars, Net!hvars, Net!http, Net!ether, Net!net, Net!file, Net!update, Net!lent

\* One request, an FTP client or the Apple has the Ethernet chip (http_service.c:437).
THEOREM EthernetSafe == Net!Spec => []EthernetHasOneUser
<1>1. NetInv => EthernetHasOneUser
  BY DEF NetInv, Ether, EthernetHasOneUser, Net!EthernetHasOneUser
<1> QED BY <1>1, NetInitial, NetStep, PTL DEF Net!Spec

\* main.c:1742: while a USB host has the card, no request is active and no file of
\* a download or of the updater is open or half written.
THEOREM CardSafe == Net!Spec => []CardLentAlone
<1>1. NetInv => CardLentAlone
  BY DEF NetInv, Card, CardLentAlone, Net!CardLentAlone
<1> QED BY <1>1, NetInitial, NetStep, PTL DEF Net!Spec

\* Only NetStart, which removes it, and a commit of a whole body change the file
\* under the final name.
LEMMA CommitsWhole ==
  ASSUME NetInv, [Net!Next]_Net!hvars, final' # final, final' # Net!NoFile
  PROVE  final' = got /\ code = "ok" /\ hs = "done" /\ (known => got = Size)
<1> USE DEF Net!file, Net!Cancel, Net!Release
<1>1. CASE Net!NetPollDownload
  BY <1>1 DEF NetInv, Body, Net!NetPollDownload, Net!DownloadPoll, Net!DownloadFails, Net!Write,
              Net!Commit, Net!IsWhole
<1>2. ASSUME NEW ok \in BOOLEAN, Net!Complete(ok)
      PROVE  FALSE
  BY <1>2 DEF Net!Complete
<1>3. ASSUME NEW ok \in BOOLEAN, Net!Fails(ok)
      PROVE  FALSE
  BY <1>3 DEF Net!Fails
<1>4. ASSUME NEW c \in BOOLEAN, NEW u \in BOOLEAN, Net!NetPollLost(c, u)
      PROVE  FALSE
  BY <1>4 DEF Net!NetPollLost, Net!DownloadFails, Net!Clean
<1>5. ASSUME NEW ok \in BOOLEAN, NEW r \in BOOLEAN, Net!UpdateRetries(ok, r)
      PROVE  FALSE
  BY <1>5 DEF Net!UpdateRetries, Net!UpdateClean
<1>6. ASSUME NEW ok \in BOOLEAN, NEW r \in BOOLEAN, Net!UpdateFails(ok, r)
      PROVE  FALSE
  BY <1>6 DEF Net!UpdateFails, Net!UpdateClean
<1>7. ASSUME NEW b \in BOOLEAN, Net!Restore(b)
      PROVE  FALSE
  BY <1>7 DEF Net!Restore
<1>8. ASSUME NEW b \in BOOLEAN, Net!NetStart(b)
      PROVE  FALSE
  BY <1>8 DEF Net!NetStart
<1>9. ASSUME NEW b \in BOOLEAN, Net!UpdateStart(b)
      PROVE  FALSE
  BY <1>9 DEF Net!UpdateStart
<1>10. ASSUME NEW b \in BOOLEAN, Net!SetSlot(b)
      PROVE  FALSE
  BY <1>10 DEF Net!SetSlot, Net!SlotPolicy
<1>11. ASSUME NEW c \in BOOLEAN, NEW u \in BOOLEAN, Net!NetCancel(c, u)
      PROVE  FALSE
  BY <1>11 DEF Net!NetCancel, Net!Clean
<1>12. ASSUME NEW ok \in BOOLEAN, NEW c \in BOOLEAN, NEW u \in BOOLEAN, Net!UsbMounts(ok, c, u)
      PROVE  FALSE
  BY <1>12 DEF Net!UsbMounts, Net!UsbMount
<1>13. ASSUME NEW ok \in BOOLEAN, NEW c \in BOOLEAN, NEW u \in BOOLEAN, Net!UsbRetries(ok, c, u)
      PROVE  FALSE
  BY <1>13 DEF Net!UsbRetries, Net!UsbMount
<1>14. CASE Net!Claim \/ Net!ClaimFails \/ Net!Open \/ Net!OpenFails \/ Net!Connected \/
    Net!Redirect
  BY <1>14 DEF Net!Claim, Net!ClaimFails, Net!Open, Net!OpenFails, Net!Connected,
      Net!Redirect
<1>15. CASE Net!Headers \/ Net!Receive \/ Net!NetPollStarts \/ Net!NetPollRefused \/
    Net!NetPollCancels \/ Net!NetPollHandsOff
  BY <1>15 DEF Net!Headers, Net!Receive, Net!NetPollStarts, Net!NetPollRefused,
      Net!NetPollCancels, Net!NetPollHandsOff, Net!Begin
<1>16. CASE Net!NetPollNoFile \/ Net!NetPollPage \/ Net!NetPollDone \/ Net!UpdateOpens \/
    Net!UpdateRequests \/ Net!UpdateReads
  BY <1>16 DEF Net!NetPollNoFile, Net!NetPollPage, Net!NetPollDone, Net!UpdateOpens,
      Net!UpdateRequests, Net!UpdateReads
<1>17. CASE Net!UpdateReceived \/ Net!UpdateStages \/ Net!ConsoleStart \/ Net!ConsoleCancel
    \/ Net!ConsolePoll \/ Net!NetRead
  BY <1>17 DEF Net!UpdateReceived, Net!UpdateStages, Net!ConsoleStart, Net!ConsoleCancel,
      Net!ConsolePoll, Net!NetRead
<1>18. CASE Net!UsbUnmount \/ Net!FtpStart \/ Net!FtpStop
  BY <1>18 DEF Net!UsbUnmount, Net!FtpStart, Net!SlotPolicy, Net!FtpStop, Net!SlotPolicy
<1>19. CASE UNCHANGED Net!hvars
  BY <1>19 DEF Net!hvars
<1> QED BY <1>1, <1>2, <1>3, <1>4, <1>5, <1>6, <1>7, <1>8, <1>9, <1>10, <1>11, <1>12, <1>13,
    <1>14, <1>15, <1>16, <1>17, <1>18, <1>19 DEF Net!Next, Net!Step, Net!NetPoll,
    Net!UpdatePoll
\* http_download.c:135: what gets its final name is the whole body of a 2xx response.
THEOREM DownloadsWhole == Net!Spec => DownloadIsWhole
<1>1. NetInv /\ [Net!Next]_Net!hvars
        => [final' # final /\ final' # Net!NoFile
              => final' = got /\ code = "ok" /\ hs = "done" /\ (known => got = Size)]_Net!hvars
  BY CommitsWhole
<1> QED BY <1>1, NetInitial, NetStep, PTL DEF Net!Spec, DownloadIsWhole, Net!DownloadIsWhole
=============================================================================
