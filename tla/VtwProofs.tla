----------------------------- MODULE VtwProofs -----------------------------
(***************************************************************************)
(* Proofs for the two lives of the private core.  The accelerator: the bus *)
(* engine hands the Apple's bus over by the rules of HandoverGuarded and   *)
(* StockRunFirst, and implements BusMaster.  The ONE//e: the interlock and *)
(* its supervisor keep StopsInTime, ReleasesQuiet, NoSilentRestart and     *)
(* GlitchKeepsChoice.  Each holds of its own component's specification,    *)
(* and both components' steps are those of MCSpec (BothLives).             *)
(***************************************************************************)
EXTENDS MCVtw, SequenceTheorems, TLAPS

-----------------------------------------------------------------------------
(* The bus engine.                                                         *)

\* Which signals each state of the session asserts, and what the Apple has run by
\* itself before the session may take its bus.
Session ==
  /\ session \in {"off", "arm", "grace", "run", "hold", "release"}
  /\ dma <=> session \in {"grace", "run", "hold", "release"}
  /\ drives <=> session = "run"
  /\ count \in Nat /\ ran \in 0 .. Stock
  /\ session = "arm" => count <= ran

Signals == dma \in BOOLEAN /\ drives \in BOOLEAN /\ resp \in BOOLEAN

\* A level of enable or RES# that the session has not seen yet lasts until it has.
Levels ==
  /\ session \in {"arm", "grace", "hold"} => enable
  /\ session = "grace" => res
  /\ session = "run" /\ ~res => ~resOld /\ posted = <<>>
  /\ session = "run" /\ ~enable => ~enOld

\* The pipeline of posted writes runs only in a session.
Pipeline ==
  /\ posted \in Seq(Write) /\ stage \in Write \cup {None}
  /\ cyc \in {"parked", "access", "post", "fetch", "load"}
  /\ cyc # "parked" \/ posted # <<>> => session = "run"
  /\ cyc = "fetch" => posted # <<>>
  /\ cyc \in {"fetch", "load"} => enable /\ res
  /\ cyc \in {"load", "post"} => reg \in Write
  /\ stage # None => want = None /\ Len(posted) <= Depth - Margin

\* One request: the core's, in the engine, on the bus, answered.  A reset or a stop
\* forgets it everywhere at once, and leaves its cycle on the bus an orphan.
OneRequest ==
  /\ want \in Access \cup {None}
  /\ want # None => enable /\ res
  /\ stage # None \/ awake \/ inflight => session = "run" /\ enable /\ res
  /\ inflight <=> pending # None \/ resp
  /\ inflight => want # None
  /\ pending # None => pending = want /\ ~resp
  /\ resp => cyc # "access"
  /\ cyc = "access" => (enable /\ res <=> want # None) /\ (want # None => pending # None)

\* A II+ that stays enabled never enters the release state.
Owned ==
  /\ kept \in BOOLEAN /\ enable \in BOOLEAN /\ iiplus \in BOOLEAN
  /\ kept => enable
  /\ session = "release" => ~(iiplus /\ kept)

BusInv == Session /\ Signals /\ Levels /\ Pipeline /\ OneRequest /\ Owned

USE VtwAssumption

LEMMA SessionKept ==
  ASSUME Session, Levels, [Next]_vars
  PROVE  Session'
<1> USE DEF Session, Levels, inputs, engine, core
<1>1. CASE ResFalls
  BY <1>1 DEF ResFalls, AfterResetFell, CountAfterReset, CancelFetch, CoreOff
<1>2. CASE ResRises
  BY <1>2 DEF ResRises
<1>3. CASE Enable
  BY <1>3 DEF Enable
<1>4. CASE Disable
  BY <1>4 DEF Disable, AfterDisable, CancelFetch, CoreOff
<1>5. CASE DriveOff
  BY <1>5 DEF DriveOff, Drive, NoCycle, Strobe
<1>6. CASE DriveArm
  BY <1>6 DEF DriveArm, Drive, NoCycle, Strobe
<1>7. CASE DriveGrace
  BY <1>7 DEF DriveGrace, Drive, NoCycle, Strobe
<1>8. CASE DriveStop
  BY <1>8 DEF DriveStop, Drive, Strobe
<1>9. CASE DriveRun
  BY <1>9 DEF DriveRun, Drive, Strobe, MustWait
<1>10. CASE DriveHold
  BY <1>10 DEF DriveHold, Drive, NoCycle, Strobe
<1>11. CASE DriveRelease
  BY <1>11 DEF DriveRelease, Drive, NoCycle, Strobe
<1>12. CASE DataEn
  BY <1>12 DEF DataEn, Strobe
<1>13. CASE Fetch
  BY <1>13 DEF Fetch
<1>14. CASE Load
  BY <1>14 DEF Load
<1>15. ASSUME NEW w \in Write, CorePost(w)
      PROVE  Session'
  BY <1>15 DEF CorePost, CoreRuns, PostFull, Pushed
<1>16. ASSUME NEW r \in Access, CoreAsk(r)
      PROVE  Session'
  BY <1>16 DEF CoreAsk, CoreRuns
<1>17. CASE Push
  BY <1>17 DEF Push, Pushed
<1>18. CASE Request
  BY <1>18 DEF Request, ReqReady
<1>19. CASE TakeAnswer
  BY <1>19 DEF TakeAnswer
<1>20. CASE UNCHANGED vars
  BY <1>20 DEF vars
<1> QED BY <1>1, <1>2, <1>3, <1>4, <1>5, <1>6, <1>7, <1>8, <1>9, <1>10, <1>11, <1>12, <1>13,
    <1>14, <1>15, <1>16, <1>17, <1>18, <1>19, <1>20 DEF Next, Inputs, DriveEn, Core

LEMMA SignalsKept ==
  ASSUME Signals, [Next]_vars
  PROVE  Signals'
<1> USE DEF Signals, inputs, engine, core
<1>1. CASE ResFalls
  BY <1>1 DEF ResFalls, AfterResetFell, CountAfterReset, CancelFetch, CoreOff
<1>2. CASE ResRises
  BY <1>2 DEF ResRises
<1>3. CASE Enable
  BY <1>3 DEF Enable
<1>4. CASE Disable
  BY <1>4 DEF Disable, AfterDisable, CancelFetch, CoreOff
<1>5. CASE DriveOff
  BY <1>5 DEF DriveOff, Drive, NoCycle, Strobe
<1>6. CASE DriveArm
  BY <1>6 DEF DriveArm, Drive, NoCycle, Strobe
<1>7. CASE DriveGrace
  BY <1>7 DEF DriveGrace, Drive, NoCycle, Strobe
<1>8. CASE DriveStop
  BY <1>8 DEF DriveStop, Drive, Strobe
<1>9. CASE DriveRun
  BY <1>9 DEF DriveRun, Drive, Strobe, MustWait
<1>10. CASE DriveHold
  BY <1>10 DEF DriveHold, Drive, NoCycle, Strobe
<1>11. CASE DriveRelease
  BY <1>11 DEF DriveRelease, Drive, NoCycle, Strobe
<1>12. CASE DataEn
  BY <1>12 DEF DataEn, Strobe
<1>13. CASE Fetch
  BY <1>13 DEF Fetch
<1>14. CASE Load
  BY <1>14 DEF Load
<1>15. ASSUME NEW w \in Write, CorePost(w)
      PROVE  Signals'
  BY <1>15 DEF CorePost, CoreRuns, PostFull, Pushed
<1>16. ASSUME NEW r \in Access, CoreAsk(r)
      PROVE  Signals'
  BY <1>16 DEF CoreAsk, CoreRuns
<1>17. CASE Push
  BY <1>17 DEF Push, Pushed
<1>18. CASE Request
  BY <1>18 DEF Request, ReqReady
<1>19. CASE TakeAnswer
  BY <1>19 DEF TakeAnswer
<1>20. CASE UNCHANGED vars
  BY <1>20 DEF vars
<1> QED BY <1>1, <1>2, <1>3, <1>4, <1>5, <1>6, <1>7, <1>8, <1>9, <1>10, <1>11, <1>12, <1>13,
    <1>14, <1>15, <1>16, <1>17, <1>18, <1>19, <1>20 DEF Next, Inputs, DriveEn, Core

LEMMA LevelsKept ==
  ASSUME Session, Levels, Pipeline, OneRequest, [Next]_vars
  PROVE  Levels'
<1> USE DEF Session, Levels, Pipeline, OneRequest, inputs, engine, core
<1>1. CASE ResFalls
  BY <1>1 DEF ResFalls, AfterResetFell, CountAfterReset, CancelFetch, CoreOff
<1>2. CASE ResRises
  BY <1>2 DEF ResRises
<1>3. CASE Enable
  BY <1>3 DEF Enable
<1>4. CASE Disable
  BY <1>4 DEF Disable, AfterDisable, CancelFetch, CoreOff
<1>5. CASE DriveOff
  BY <1>5 DEF DriveOff, Drive, NoCycle, Strobe
<1>6. CASE DriveArm
  BY <1>6 DEF DriveArm, Drive, NoCycle, Strobe
<1>7. CASE DriveGrace
  BY <1>7 DEF DriveGrace, Drive, NoCycle, Strobe
<1>8. CASE DriveStop
  BY <1>8 DEF DriveStop, Drive, Strobe
<1>9. CASE DriveRun
  BY <1>9 DEF DriveRun, Drive, Strobe, MustWait
<1>10. CASE DriveHold
  BY <1>10 DEF DriveHold, Drive, NoCycle, Strobe
<1>11. CASE DriveRelease
  BY <1>11 DEF DriveRelease, Drive, NoCycle, Strobe
<1>12. CASE DataEn
  BY <1>12 DEF DataEn, Strobe
<1>13. CASE Fetch
  BY <1>13 DEF Fetch
<1>14. CASE Load
  BY <1>14 DEF Load
<1>15. ASSUME NEW w \in Write, CorePost(w)
      PROVE  Levels'
  BY <1>15 DEF CorePost, CoreRuns, PostFull, Pushed
<1>16. ASSUME NEW r \in Access, CoreAsk(r)
      PROVE  Levels'
  BY <1>16 DEF CoreAsk, CoreRuns
<1>17. CASE Push
  BY <1>17 DEF Push, Pushed
<1>18. CASE Request
  BY <1>18 DEF Request, ReqReady
<1>19. CASE TakeAnswer
  BY <1>19 DEF TakeAnswer
<1>20. CASE UNCHANGED vars
  BY <1>20 DEF vars
<1> QED BY <1>1, <1>2, <1>3, <1>4, <1>5, <1>6, <1>7, <1>8, <1>9, <1>10, <1>11, <1>12, <1>13,
    <1>14, <1>15, <1>16, <1>17, <1>18, <1>19, <1>20 DEF Next, Inputs, DriveEn, Core

LEMMA PipelineKept ==
  ASSUME Session, Levels, Pipeline, OneRequest, [Next]_vars
  PROVE  Pipeline'
<1> USE DEF Session, Levels, Pipeline, OneRequest, inputs, engine, core
<1>1. CASE ResFalls
  <2>1. CASE session = "run"
    <3>1. /\ posted' = <<>> /\ stage' = None /\ session' = "run"
          /\ cyc' \in {"parked", "access", "post"}
          /\ cyc' = "post" => reg' \in Write
      BY <1>1, <2>1 DEF ResFalls, AfterResetFell, CancelFetch, CoreOff
    <3>2. posted' \in Seq(Write)
      BY <3>1
    <3> QED BY <3>1, <3>2
  <2>2. CASE session # "run"
    BY <1>1, <2>2 DEF ResFalls, AfterResetFell, CancelFetch, CoreOff
  <2> QED BY <2>1, <2>2
<1>2. CASE ResRises
  BY <1>2 DEF ResRises
<1>3. CASE Enable
  BY <1>3 DEF Enable
<1>4. CASE Disable
  BY <1>4 DEF Disable, AfterDisable, CancelFetch, CoreOff
<1>5. CASE DriveOff
  BY <1>5 DEF DriveOff, Drive, NoCycle, Strobe
<1>6. CASE DriveArm
  BY <1>6 DEF DriveArm, Drive, NoCycle, Strobe
<1>7. CASE DriveGrace
  BY <1>7 DEF DriveGrace, Drive, NoCycle, Strobe
<1>8. CASE DriveStop
  BY <1>8 DEF DriveStop, Drive, Strobe
<1>9. CASE DriveRun
  BY <1>9 DEF DriveRun, Drive, Strobe, MustWait
<1>10. CASE DriveHold
  BY <1>10 DEF DriveHold, Drive, NoCycle, Strobe
<1>11. CASE DriveRelease
  BY <1>11 DEF DriveRelease, Drive, NoCycle, Strobe
<1>12. CASE DataEn
  BY <1>12 DEF DataEn, Strobe
<1>13. CASE Fetch
  BY <1>13 DEF Fetch
<1>14. CASE Load
  BY <1>14 DEF Load
<1>15. ASSUME NEW w \in Write, CorePost(w)
      PROVE  Pipeline'
  BY <1>15 DEF CorePost, CoreRuns, PostFull, Pushed
<1>16. ASSUME NEW r \in Access, CoreAsk(r)
      PROVE  Pipeline'
  BY <1>16 DEF CoreAsk, CoreRuns
<1>17. CASE Push
  BY <1>17 DEF Push, Pushed
<1>18. CASE Request
  BY <1>18 DEF Request, ReqReady
<1>19. CASE TakeAnswer
  BY <1>19 DEF TakeAnswer
<1>20. CASE UNCHANGED vars
  BY <1>20 DEF vars
<1> QED BY <1>1, <1>2, <1>3, <1>4, <1>5, <1>6, <1>7, <1>8, <1>9, <1>10, <1>11, <1>12, <1>13,
    <1>14, <1>15, <1>16, <1>17, <1>18, <1>19, <1>20 DEF Next, Inputs, DriveEn, Core

LEMMA OneRequestKept ==
  ASSUME Session, Levels, Pipeline, OneRequest, [Next]_vars
  PROVE  OneRequest'
<1> USE DEF Session, Levels, Pipeline, OneRequest, inputs, engine, core
<1>1. CASE ResFalls
  BY <1>1 DEF ResFalls, AfterResetFell, CountAfterReset, CancelFetch, CoreOff
<1>2. CASE ResRises
  BY <1>2 DEF ResRises
<1>3. CASE Enable
  BY <1>3 DEF Enable
<1>4. CASE Disable
  BY <1>4 DEF Disable, AfterDisable, CancelFetch, CoreOff
<1>5. CASE DriveOff
  BY <1>5 DEF DriveOff, Drive, NoCycle, Strobe
<1>6. CASE DriveArm
  BY <1>6 DEF DriveArm, Drive, NoCycle, Strobe
<1>7. CASE DriveGrace
  BY <1>7 DEF DriveGrace, Drive, NoCycle, Strobe
<1>8. CASE DriveStop
  BY <1>8 DEF DriveStop, Drive, Strobe
<1>9. CASE DriveRun
  BY <1>9 DEF DriveRun, Drive, Strobe, MustWait
<1>10. CASE DriveHold
  BY <1>10 DEF DriveHold, Drive, NoCycle, Strobe
<1>11. CASE DriveRelease
  BY <1>11 DEF DriveRelease, Drive, NoCycle, Strobe
<1>12. CASE DataEn
  BY <1>12 DEF DataEn, Strobe
<1>13. CASE Fetch
  BY <1>13 DEF Fetch
<1>14. CASE Load
  BY <1>14 DEF Load
<1>15. ASSUME NEW w \in Write, CorePost(w)
      PROVE  OneRequest'
  BY <1>15 DEF CorePost, CoreRuns, PostFull, Pushed
<1>16. ASSUME NEW r \in Access, CoreAsk(r)
      PROVE  OneRequest'
  BY <1>16 DEF CoreAsk, CoreRuns
<1>17. CASE Push
  BY <1>17 DEF Push, Pushed
<1>18. CASE Request
  BY <1>18 DEF Request, ReqReady
<1>19. CASE TakeAnswer
  BY <1>19 DEF TakeAnswer
<1>20. CASE UNCHANGED vars
  BY <1>20 DEF vars
<1> QED BY <1>1, <1>2, <1>3, <1>4, <1>5, <1>6, <1>7, <1>8, <1>9, <1>10, <1>11, <1>12, <1>13,
    <1>14, <1>15, <1>16, <1>17, <1>18, <1>19, <1>20 DEF Next, Inputs, DriveEn, Core

LEMMA OwnedKept ==
  ASSUME Session, Owned, [Next]_vars
  PROVE  Owned'
<1> USE DEF Session, Owned, inputs, engine, core
<1>1. CASE ResFalls
  BY <1>1 DEF ResFalls, AfterResetFell, CountAfterReset, CancelFetch, CoreOff
<1>2. CASE ResRises
  BY <1>2 DEF ResRises
<1>3. CASE Enable
  BY <1>3 DEF Enable
<1>4. CASE Disable
  BY <1>4 DEF Disable, AfterDisable, CancelFetch, CoreOff
<1>5. CASE DriveOff
  BY <1>5 DEF DriveOff, Drive, NoCycle, Strobe
<1>6. CASE DriveArm
  BY <1>6 DEF DriveArm, Drive, NoCycle, Strobe
<1>7. CASE DriveGrace
  BY <1>7 DEF DriveGrace, Drive, NoCycle, Strobe
<1>8. CASE DriveStop
  BY <1>8 DEF DriveStop, Drive, Strobe
<1>9. CASE DriveRun
  BY <1>9 DEF DriveRun, Drive, Strobe, MustWait
<1>10. CASE DriveHold
  BY <1>10 DEF DriveHold, Drive, NoCycle, Strobe
<1>11. CASE DriveRelease
  BY <1>11 DEF DriveRelease, Drive, NoCycle, Strobe
<1>12. CASE DataEn
  BY <1>12 DEF DataEn, Strobe
<1>13. CASE Fetch
  BY <1>13 DEF Fetch
<1>14. CASE Load
  BY <1>14 DEF Load
<1>15. ASSUME NEW w \in Write, CorePost(w)
      PROVE  Owned'
  BY <1>15 DEF CorePost, CoreRuns, PostFull, Pushed
<1>16. ASSUME NEW r \in Access, CoreAsk(r)
      PROVE  Owned'
  BY <1>16 DEF CoreAsk, CoreRuns
<1>17. CASE Push
  BY <1>17 DEF Push, Pushed
<1>18. CASE Request
  BY <1>18 DEF Request, ReqReady
<1>19. CASE TakeAnswer
  BY <1>19 DEF TakeAnswer
<1>20. CASE UNCHANGED vars
  BY <1>20 DEF vars
<1> QED BY <1>1, <1>2, <1>3, <1>4, <1>5, <1>6, <1>7, <1>8, <1>9, <1>10, <1>11, <1>12, <1>13,
    <1>14, <1>15, <1>16, <1>17, <1>18, <1>19, <1>20 DEF Next, Inputs, DriveEn, Core

LEMMA BusInitial == Init => BusInv
<1>1. Init => Session /\ Levels /\ OneRequest
  BY DEF Init, Session, Levels, OneRequest
<1>2. Init => Signals
  BY DEF Init, Signals
<1>3. <<>> \in Seq(Write)
  OBVIOUS
<1>4. Init => Pipeline
  BY <1>3 DEF Init, Pipeline
<1>5. Init => Owned
  BY DEF Init, Owned
<1> QED BY <1>1, <1>2, <1>4, <1>5 DEF BusInv

LEMMA BusStep == BusInv /\ [Next]_vars => BusInv'
BY SessionKept, SignalsKept, LevelsKept, PipelineKept, OneRequestKept, OwnedKept DEF BusInv

LEMMA OneSignalAtATime ==
  ASSUME Session, Signals, [Next]_vars
  PROVE  dma' = dma \/ drives' = drives
<1> USE DEF Session, Signals, inputs, engine, core
<1>1. CASE ResFalls
  BY <1>1 DEF ResFalls, AfterResetFell, CountAfterReset, CancelFetch, CoreOff
<1>2. CASE ResRises
  BY <1>2 DEF ResRises
<1>3. CASE Enable
  BY <1>3 DEF Enable
<1>4. CASE Disable
  BY <1>4 DEF Disable, AfterDisable, CancelFetch, CoreOff
<1>5. CASE DriveOff
  BY <1>5 DEF DriveOff, Drive, NoCycle, Strobe
<1>6. CASE DriveArm
  BY <1>6 DEF DriveArm, Drive, NoCycle, Strobe
<1>7. CASE DriveGrace
  BY <1>7 DEF DriveGrace, Drive, NoCycle, Strobe
<1>8. CASE DriveStop
  BY <1>8 DEF DriveStop, Drive, Strobe
<1>9. CASE DriveRun
  BY <1>9 DEF DriveRun, Drive, Strobe, MustWait
<1>10. CASE DriveHold
  BY <1>10 DEF DriveHold, Drive, NoCycle, Strobe
<1>11. CASE DriveRelease
  BY <1>11 DEF DriveRelease, Drive, NoCycle, Strobe
<1>12. CASE DataEn
  BY <1>12 DEF DataEn, Strobe
<1>13. CASE Fetch
  BY <1>13 DEF Fetch
<1>14. CASE Load
  BY <1>14 DEF Load
<1>15. ASSUME NEW w \in Write, CorePost(w)
      PROVE  dma' = dma \/ drives' = drives
  BY <1>15 DEF CorePost, CoreRuns, PostFull, Pushed
<1>16. ASSUME NEW r \in Access, CoreAsk(r)
      PROVE  dma' = dma \/ drives' = drives
  BY <1>16 DEF CoreAsk, CoreRuns
<1>17. CASE Push
  BY <1>17 DEF Push, Pushed
<1>18. CASE Request
  BY <1>18 DEF Request, ReqReady
<1>19. CASE TakeAnswer
  BY <1>19 DEF TakeAnswer
<1>20. CASE UNCHANGED vars
  BY <1>20 DEF vars
<1> QED BY <1>1, <1>2, <1>3, <1>4, <1>5, <1>6, <1>7, <1>8, <1>9, <1>10, <1>11, <1>12, <1>13,
    <1>14, <1>15, <1>16, <1>17, <1>18, <1>19, <1>20 DEF Next, Inputs, DriveEn, Core

LEMMA AtTheDrivePoint ==
  ASSUME Session, Signals, dma' # dma \/ drives' # drives, [Next]_vars
  PROVE  DriveEn
<1> USE DEF Session, Signals, DriveEn, inputs, engine, core
<1>1. CASE ResFalls
  BY <1>1 DEF ResFalls, AfterResetFell, CountAfterReset, CancelFetch, CoreOff
<1>2. CASE ResRises
  BY <1>2 DEF ResRises
<1>3. CASE Enable
  BY <1>3 DEF Enable
<1>4. CASE Disable
  BY <1>4 DEF Disable, AfterDisable, CancelFetch, CoreOff
<1>5. CASE DriveOff
  BY <1>5 DEF DriveOff, Drive, NoCycle, Strobe
<1>6. CASE DriveArm
  BY <1>6 DEF DriveArm, Drive, NoCycle, Strobe
<1>7. CASE DriveGrace
  BY <1>7 DEF DriveGrace, Drive, NoCycle, Strobe
<1>8. CASE DriveStop
  BY <1>8 DEF DriveStop, Drive, Strobe
<1>9. CASE DriveRun
  BY <1>9 DEF DriveRun, Drive, Strobe, MustWait
<1>10. CASE DriveHold
  BY <1>10 DEF DriveHold, Drive, NoCycle, Strobe
<1>11. CASE DriveRelease
  BY <1>11 DEF DriveRelease, Drive, NoCycle, Strobe
<1>12. CASE DataEn
  BY <1>12 DEF DataEn, Strobe
<1>13. CASE Fetch
  BY <1>13 DEF Fetch
<1>14. CASE Load
  BY <1>14 DEF Load
<1>15. ASSUME NEW w \in Write, CorePost(w)
      PROVE  DriveEn
  BY <1>15 DEF CorePost, CoreRuns, PostFull, Pushed
<1>16. ASSUME NEW r \in Access, CoreAsk(r)
      PROVE  DriveEn
  BY <1>16 DEF CoreAsk, CoreRuns
<1>17. CASE Push
  BY <1>17 DEF Push, Pushed
<1>18. CASE Request
  BY <1>18 DEF Request, ReqReady
<1>19. CASE TakeAnswer
  BY <1>19 DEF TakeAnswer
<1>20. CASE UNCHANGED vars
  BY <1>20 DEF vars
<1> QED BY <1>1, <1>2, <1>3, <1>4, <1>5, <1>6, <1>7, <1>8, <1>9, <1>10, <1>11, <1>12, <1>13,
    <1>14, <1>15, <1>16, <1>17, <1>18, <1>19, <1>20 DEF Next, Inputs, DriveEn, Core

LEMMA BackByRelease ==
  ASSUME Session, Signals, dma, ~dma', [Next]_vars
  PROVE  session = "release"
<1> USE DEF Session, Signals, inputs, engine, core
<1>1. CASE ResFalls
  BY <1>1 DEF ResFalls, AfterResetFell, CountAfterReset, CancelFetch, CoreOff
<1>2. CASE ResRises
  BY <1>2 DEF ResRises
<1>3. CASE Enable
  BY <1>3 DEF Enable
<1>4. CASE Disable
  BY <1>4 DEF Disable, AfterDisable, CancelFetch, CoreOff
<1>5. CASE DriveOff
  BY <1>5 DEF DriveOff, Drive, NoCycle, Strobe
<1>6. CASE DriveArm
  BY <1>6 DEF DriveArm, Drive, NoCycle, Strobe
<1>7. CASE DriveGrace
  BY <1>7 DEF DriveGrace, Drive, NoCycle, Strobe
<1>8. CASE DriveStop
  BY <1>8 DEF DriveStop, Drive, Strobe
<1>9. CASE DriveRun
  BY <1>9 DEF DriveRun, Drive, Strobe, MustWait
<1>10. CASE DriveHold
  BY <1>10 DEF DriveHold, Drive, NoCycle, Strobe
<1>11. CASE DriveRelease
  BY <1>11 DEF DriveRelease, Drive, NoCycle, Strobe
<1>12. CASE DataEn
  BY <1>12 DEF DataEn, Strobe
<1>13. CASE Fetch
  BY <1>13 DEF Fetch
<1>14. CASE Load
  BY <1>14 DEF Load
<1>15. ASSUME NEW w \in Write, CorePost(w)
      PROVE  session = "release"
  BY <1>15 DEF CorePost, CoreRuns, PostFull, Pushed
<1>16. ASSUME NEW r \in Access, CoreAsk(r)
      PROVE  session = "release"
  BY <1>16 DEF CoreAsk, CoreRuns
<1>17. CASE Push
  BY <1>17 DEF Push, Pushed
<1>18. CASE Request
  BY <1>18 DEF Request, ReqReady
<1>19. CASE TakeAnswer
  BY <1>19 DEF TakeAnswer
<1>20. CASE UNCHANGED vars
  BY <1>20 DEF vars
<1> QED BY <1>1, <1>2, <1>3, <1>4, <1>5, <1>6, <1>7, <1>8, <1>9, <1>10, <1>11, <1>12, <1>13,
    <1>14, <1>15, <1>16, <1>17, <1>18, <1>19, <1>20 DEF Next, Inputs, DriveEn, Core

LEMMA RanBefore ==
  ASSUME Session, ~dma, dma', [Next]_vars
  PROVE  ran = Stock
<1> USE DEF Session, inputs, engine, core
<1>1. CASE ResFalls
  BY <1>1 DEF ResFalls, AfterResetFell, CountAfterReset, CancelFetch, CoreOff
<1>2. CASE ResRises
  BY <1>2 DEF ResRises
<1>3. CASE Enable
  BY <1>3 DEF Enable
<1>4. CASE Disable
  BY <1>4 DEF Disable, AfterDisable, CancelFetch, CoreOff
<1>5. CASE DriveOff
  BY <1>5 DEF DriveOff, Drive, NoCycle, Strobe
<1>6. CASE DriveArm
  <2>1. CASE res /\ count = Stock
    BY <1>6, <2>1 DEF DriveArm
  <2>2. CASE ~(res /\ count = Stock)
    <3>1. dma' = dma
      BY <1>6, <2>2 DEF DriveArm
    <3> QED BY <3>1
  <2> QED BY <2>1, <2>2
<1>7. CASE DriveGrace
  BY <1>7 DEF DriveGrace, Drive, NoCycle, Strobe
<1>8. CASE DriveStop
  BY <1>8 DEF DriveStop, Drive, Strobe
<1>9. CASE DriveRun
  BY <1>9 DEF DriveRun, Drive, Strobe, MustWait
<1>10. CASE DriveHold
  BY <1>10 DEF DriveHold, Drive, NoCycle, Strobe
<1>11. CASE DriveRelease
  BY <1>11 DEF DriveRelease, Drive, NoCycle, Strobe
<1>12. CASE DataEn
  BY <1>12 DEF DataEn, Strobe
<1>13. CASE Fetch
  BY <1>13 DEF Fetch
<1>14. CASE Load
  BY <1>14 DEF Load
<1>15. ASSUME NEW w \in Write, CorePost(w)
      PROVE  ran = Stock
  BY <1>15 DEF CorePost, CoreRuns, PostFull, Pushed
<1>16. ASSUME NEW r \in Access, CoreAsk(r)
      PROVE  ran = Stock
  BY <1>16 DEF CoreAsk, CoreRuns
<1>17. CASE Push
  BY <1>17 DEF Push, Pushed
<1>18. CASE Request
  BY <1>18 DEF Request, ReqReady
<1>19. CASE TakeAnswer
  BY <1>19 DEF TakeAnswer
<1>20. CASE UNCHANGED vars
  BY <1>20 DEF vars
<1> QED BY <1>1, <1>2, <1>3, <1>4, <1>5, <1>6, <1>7, <1>8, <1>9, <1>10, <1>11, <1>12, <1>13,
    <1>14, <1>15, <1>16, <1>17, <1>18, <1>19, <1>20 DEF Next, Inputs, DriveEn, Core


\* vtw_bus_engine.sv, the ownership of the Apple's bus: one signal at a time, at the
\* drive point, never a driver without /DMA, and on a II+ to the end of the session,
\* whatever resets come (lines 668 and 811).
THEOREM HandoverSafe == Spec => HandoverGuarded
<1>1. BusInv /\ BusInv' /\ [Next]_vars
        => [/\ dma' # dma \/ drives' # drives
                 => DriveEn /\ (dma' = dma \/ drives' = drives)
            /\ drives' => dma'
            /\ iiplus /\ kept /\ dma => dma']_vars
  <2> SUFFICES ASSUME BusInv, BusInv', [Next]_vars
               PROVE  /\ dma' # dma \/ drives' # drives
                           => DriveEn /\ (dma' = dma \/ drives' = drives)
                      /\ drives' => dma'
                      /\ iiplus /\ kept /\ dma => dma'
    OBVIOUS
  <2>1. drives' => dma'
    BY DEF BusInv, Session
  <2>2. dma' = dma \/ drives' = drives
    BY OneSignalAtATime DEF BusInv
  <2>3. dma' # dma \/ drives' # drives => DriveEn
    BY AtTheDrivePoint DEF BusInv
  <2>4. ASSUME iiplus, kept, dma, ~dma'
        PROVE  FALSE
    <3>1. session = "release"
      BY <2>4, BackByRelease DEF BusInv
    <3> QED BY <2>4, <3>1 DEF BusInv, Owned
  <2> QED BY <2>1, <2>2, <2>3, <2>4
<1> QED BY <1>1, BusInitial, BusStep, PTL DEF Spec, HandoverGuarded

\* The Apple's own processor has run its start-up before the bus is taken.
THEOREM StockFirst == Spec => StockRunFirst
<1>1. BusInv /\ [Next]_vars => [dma' /\ ~dma => ran = Stock]_vars
  BY RanBefore DEF BusInv
<1> QED BY <1>1, BusInitial, BusStep, PTL DEF Spec, StockRunFirst

-----------------------------------------------------------------------------
(* The bus engine implements BusMaster, step by step.                      *)

\* A sequence is its head and its tail.
LEMMA HeadJoined ==
  ASSUME NEW S, NEW s \in Seq(S), s # <<>>
  PROVE  <<Head(s)>> \o Tail(s) = s
OBVIOUS

\* What is put in front is the head.
LEMMA FirstOf ==
  ASSUME NEW S, NEW x \in S, NEW s \in Seq(S)
  PROVE  /\ <<x>> \o s # <<>>
         /\ Head(<<x>> \o s) = x
         /\ Tail(<<x>> \o s) = s
OBVIOUS

\* The writes that BusMaster still owes, in their three places, and its cycle.
Loaded == IF cyc = "load" THEN <<reg>> ELSE <<>>
Staged == IF stage = None THEN <<>> ELSE <<stage>>
Todo == IF session = "run" /\ ~enable THEN <<>> ELSE Loaded \o posted \o Staged
OnBus == IF cyc = "post" THEN reg
         ELSE IF cyc # "access" THEN None
         ELSE IF want = None THEN "orphan" ELSE "access"

\* What a step does to the abstract state makes it a step of BusMaster.
LEMMA AbstractPost ==
  ASSUME NEW w \in Write, want = None, Todo' = Append(Todo, w),
         want' = want, OnBus' = OnBus, resp' = resp
  PROVE  Promise!Next
<1>1. Promise!Post(w)
  BY DEF Todo, Loaded, Staged, OnBus, Promise!Post
<1> QED BY <1>1 DEF Promise!Next

LEMMA AbstractAsk ==
  ASSUME NEW r \in Access, want = None, want' = r,
         Todo' = Todo, OnBus' = OnBus, resp' = resp
  PROVE  Promise!Next
<1>1. Promise!Ask(r)
  BY DEF Todo, Loaded, Staged, OnBus, Promise!Ask
<1> QED BY <1>1 DEF Promise!Next

LEMMA AbstractWrite ==
  ASSUME OnBus = None, Todo # <<>>, OnBus' = Head(Todo), Todo' = Tail(Todo),
         want' = want, resp' = resp
  PROVE  Promise!Next
<1>1. Promise!StartWrite
  BY DEF Todo, Loaded, Staged, OnBus, Promise!StartWrite
<1> QED BY <1>1 DEF Promise!Next

LEMMA AbstractAccess ==
  ASSUME OnBus # "access", want # None, ~resp, want \in Barriers => Todo = <<>>,
         OnBus' = "access", Todo' = Todo, want' = want, resp' = resp
  PROVE  Promise!Next
<1>1. Promise!StartAccess \/ Promise!EndAndStart
  BY DEF Todo, Loaded, Staged, OnBus, Promise!StartAccess, Promise!EndAndStart
<1> QED BY <1>1 DEF Promise!Next

LEMMA AbstractEnd ==
  ASSUME OnBus # None, OnBus' = None, resp' = (resp \/ OnBus = "access"),
         Todo' = Todo, want' = want
  PROVE  Promise!Next
<1>1. Promise!End
  BY DEF Todo, Loaded, Staged, OnBus, Promise!End
<1> QED BY <1>1 DEF Promise!Next

LEMMA AbstractTake ==
  ASSUME resp, want' = None, resp' = FALSE, Todo' = Todo, OnBus' = OnBus
  PROVE  Promise!Next
<1>1. Promise!Take
  BY DEF Todo, Loaded, Staged, OnBus, Promise!Take
<1> QED BY <1>1 DEF Promise!Next

LEMMA AbstractCut ==
  ASSUME Todo' = <<>>, want' = None, resp' = FALSE,
         OnBus' = IF OnBus = "access" THEN "orphan" ELSE OnBus
  PROVE  Promise!Next
<1>1. Promise!Cut
  BY DEF Todo, Loaded, Staged, OnBus, Promise!Cut
<1> QED BY <1>1 DEF Promise!Next

LEMMA AbstractStutter ==
  ASSUME Todo' = Todo, want' = want, OnBus' = OnBus, resp' = resp
  PROVE  UNCHANGED Promise!vars
BY DEF Todo, Loaded, Staged, OnBus, Promise!vars

\* Outside a session, and in one that has been stopped, BusMaster owes nothing.
LEMMA NothingOwed ==
  ASSUME BusInv, session # "run" \/ ~enable \/ ~res
  PROVE  Todo = <<>> /\ ~resp /\ (want = None \/ (enable /\ res))
<1>1. stage = None /\ cyc # "load" /\ (want = None \/ (enable /\ res))
  BY DEF BusInv, OneRequest, Pipeline
<1>4. ~resp
  <2>1. ~inflight
    BY DEF BusInv, OneRequest
  <2> QED BY <2>1 DEF BusInv, OneRequest
<1>2. session # "run" \/ ~res => posted = <<>>
  BY DEF BusInv, Levels, Pipeline
<1>3. <<>> \o <<>> \o <<>> = <<>>
  OBVIOUS
<1> QED BY <1>1, <1>2, <1>3, <1>4 DEF Todo, Loaded, Staged

LEMMA NothingOwedNext ==
  ASSUME BusInv', (session # "run" \/ ~enable \/ ~res)'
  PROVE  Todo' = <<>> /\ ~resp' /\ (want = None \/ (enable /\ res))'
<1>1. stage' = None /\ cyc' # "load" /\ (want = None \/ (enable /\ res))'
  BY DEF BusInv, OneRequest, Pipeline
<1>4. ~resp'
  <2>1. ~inflight'
    BY DEF BusInv, OneRequest
  <2> QED BY <2>1 DEF BusInv, OneRequest
<1>2. session' # "run" \/ ~res' => posted' = <<>>
  BY DEF BusInv, Levels, Pipeline
<1>3. <<>> \o <<>> \o <<>> = <<>>
  OBVIOUS
<1> QED BY <1>1, <1>2, <1>3, <1>4 DEF Todo, Loaded, Staged

\* The three places of a write in a session that runs.
LEMMA Owed ==
  ASSUME BusInv, enable
  PROVE  /\ Loaded \in Seq(Write) /\ Staged \in Seq(Write) /\ posted \in Seq(Write)
         /\ Todo = Loaded \o (posted \o Staged)
         /\ Todo \in Seq(Write)
<1>1. Loaded \in Seq(Write) /\ Staged \in Seq(Write) /\ posted \in Seq(Write)
  <2>1. cyc = "load" => reg \in Write
    BY DEF BusInv, Pipeline
  <2>2. stage # None => stage \in Write
    BY DEF BusInv, Pipeline
  <2>3. posted \in Seq(Write)
    BY DEF BusInv, Pipeline
  <2>4. Loaded \in Seq(Write)
    BY <2>1 DEF Loaded
  <2>5. Staged \in Seq(Write)
    BY <2>2 DEF Staged
  <2> QED BY <2>3, <2>4, <2>5
<1>2. Todo = Loaded \o posted \o Staged
  BY DEF Todo
<1> QED BY <1>1, <1>2, ConcatAssociative, ConcatProperties

\* The cycle on the bus is the one the invariant allows.
LEMMA OnBusIs ==
  ASSUME BusInv
  PROVE  /\ cyc = "post" => OnBus = reg /\ reg \in Write /\ OnBus # "access" /\ OnBus # None
         /\ cyc = "access" /\ session = "run" /\ enable /\ res => OnBus = "access"
         /\ cyc = "access" /\ ~(enable /\ res) => OnBus = "orphan"
         /\ cyc \notin {"post", "access"} => OnBus = None
         /\ "access" # None /\ "orphan" # None
BY VtwAssumption DEF BusInv, OnBus, Pipeline, OneRequest

\* A push takes the stage's write to the end of the queue, which has room for it.
LEMMA PushedWhole ==
  ASSUME BusInv
  PROVE  Pushed = posted \o Staged
<1>1. posted \in Seq(Write)
  BY DEF BusInv, Pipeline
<1>2. CASE stage = None
  BY <1>1, <1>2 DEF Pushed, Staged
<1>3. CASE stage # None
  <2>1. stage \in Write /\ Len(posted) < Depth
    BY <1>1, <1>3, VtwAssumption DEF BusInv, Pipeline
  <2> QED BY <1>1, <1>3, <2>1, AppendIsConcat DEF Pushed, Staged
<1> QED BY <1>2, <1>3

LEMMA PromiseStep ==
  ASSUME BusInv, BusInv', [Next]_vars
  PROVE  Promise!Next \/ UNCHANGED Promise!vars
<1> USE DEF inputs, engine, core
<1> DEFINE Stutter == Todo' = Todo /\ want' = want /\ OnBus' = OnBus /\ resp' = resp
<1>0. Stutter => UNCHANGED Promise!vars
  BY AbstractStutter
<1>1. CASE ResFalls \/ Disable
  <2>1. Todo' = <<>> /\ want' = None
    <3>1. ~enable' \/ ~res'
      BY <1>1 DEF ResFalls, Disable
    <3> QED BY <3>1, NothingOwedNext
  <2>2. resp' = FALSE
    BY <1>1 DEF ResFalls, Disable, CoreOff
  <2>3. OnBus' = IF OnBus = "access" THEN "orphan" ELSE OnBus
    <3>1. (cyc' = cyc /\ reg' = reg) \/ (cyc \in {"fetch", "load"} /\ cyc' = "parked")
      <4>1. CancelFetch
        BY <1>1 DEF ResFalls, Disable
      <4> QED BY <4>1 DEF CancelFetch
    <3>2. CASE cyc' = cyc /\ reg' = reg
      BY <2>1, <3>2, OnBusIs DEF OnBus
    <3>3. CASE cyc \in {"fetch", "load"} /\ cyc' = "parked"
      BY <3>3, OnBusIs DEF OnBus
    <3> QED BY <3>1, <3>2, <3>3
  <2> QED BY <2>1, <2>2, <2>3, AbstractCut
<1>2. CASE ResRises
  BY <1>0, <1>2 DEF ResRises, Todo, Loaded, Staged, OnBus
<1>3. CASE Enable
  <2>1. session # "run"
    BY <1>3 DEF Enable, BusInv, Levels
  <2>2. Todo' = Todo
    BY <1>3, <2>1 DEF Enable, Todo, Loaded, Staged
  <2> QED BY <1>0, <1>3, <2>2 DEF Enable, OnBus
<1>4. CASE DriveOff \/ DriveArm \/ DriveGrace \/ DriveHold \/ DriveRelease
  <2>1. /\ session # "run" /\ cyc' = "parked"
        /\ UNCHANGED <<posted, resp, want, stage, enable, res>>
    BY <1>4 DEF DriveOff, DriveArm, DriveGrace, DriveHold, DriveRelease, Drive, NoCycle
  <2>2. cyc = "parked" /\ posted = <<>> /\ stage = None
    BY <2>1 DEF BusInv, Pipeline, OneRequest
  <2>3. Todo = <<>>
    BY <2>1, NothingOwed
  <2>4. Todo' = <<>>
    BY <2>1, <2>2 DEF Todo, Loaded, Staged
  <2> QED BY <1>0, <2>1, <2>2, <2>3, <2>4 DEF OnBus
<1>5. CASE DriveStop
  <2>1. /\ session = "run" /\ (~enable \/ ~res) /\ cyc' = "parked"
        /\ UNCHANGED <<resp, want, enable, res>>
    BY <1>5 DEF DriveStop, Drive
  <2>2. Todo = <<>> /\ Todo' = <<>> /\ want = None /\ want' = None /\ ~resp
    BY <2>1, NothingOwed, NothingOwedNext
  <2>3. OnBus' = None
    BY <2>1 DEF OnBus
  <2>4. CASE OnBus = None
    BY <1>0, <2>1, <2>2, <2>3, <2>4
  <2>5. CASE OnBus # None
    <3>1. OnBus # "access"
      BY <2>2, <2>1, OnBusIs
    <3>2. resp' = (resp \/ OnBus = "access")
      BY <2>1, <2>2, <3>1 DEF BusInv, Signals
    <3> QED BY <2>1, <2>2, <2>3, <2>5, <3>2, AbstractEnd
  <2> QED BY <2>4, <2>5
<1>6. CASE DriveRun
  <2>1. /\ session = "run" /\ enable /\ res /\ cyc \in {"parked", "access", "post"}
        /\ session' = "run" /\ UNCHANGED <<enable, res, posted, want, stage>>
        /\ resp' = (resp \/ cyc = "access")
        /\ cyc' \in {"parked", "access", "fetch"}
    BY <1>6 DEF DriveRun, Drive, Strobe, BusInv, Pipeline
  <2>2. Todo' = Todo
    BY <2>1 DEF Todo, Loaded, Staged
  <2>3. CASE cyc = "access"
    <3>1. cyc' # "access"
      BY <1>6, <2>3 DEF DriveRun
    <3>2. OnBus = "access" /\ OnBus' = None /\ OnBus # None
      BY <2>1, <2>3, <3>1, OnBusIs DEF OnBus
    <3>3. resp' = (resp \/ OnBus = "access")
      BY <2>1, <2>3, <3>2 DEF BusInv, Signals
    <3> QED BY <2>1, <2>2, <3>2, <3>3, AbstractEnd
  <2>4. CASE cyc # "access" /\ cyc' = "access"
    <3>1. pending # None /\ (pending \in Barriers => posted = <<>>)
      BY <1>6, <2>4 DEF DriveRun, MustWait
    <3>2. want = pending /\ ~resp /\ want # None
      BY <3>1 DEF BusInv, OneRequest
    <3>3. want \in Barriers => Todo = <<>>
      <4>1. stage = None /\ cyc # "load"
        BY <2>1, <3>2 DEF BusInv, Pipeline
      <4>2. <<>> \o <<>> \o <<>> = <<>>
        OBVIOUS
      <4> QED BY <3>1, <3>2, <4>1, <4>2 DEF Todo, Loaded, Staged
    <3>4. OnBus # "access" /\ OnBus' = "access"
      BY <2>1, <2>4, <3>2, OnBusIs DEF OnBus
    <3>5. resp' = resp
      BY <2>1, <2>4 DEF BusInv, Signals
    <3> QED BY <2>1, <2>2, <3>2, <3>3, <3>4, <3>5, AbstractAccess
  <2>5. CASE cyc # "access" /\ cyc' # "access"
    <3>1. resp' = resp
      BY <2>1, <2>5 DEF BusInv, Signals
    <3>2. OnBus' = None
      BY <2>1, <2>5 DEF OnBus
    <3>3. CASE cyc = "post"
      <4>1. OnBus # None /\ OnBus # "access"
        BY <3>3, OnBusIs
      <4>2. resp' = (resp \/ OnBus = "access")
        BY <3>1, <4>1 DEF BusInv, Signals
      <4> QED BY <2>1, <2>2, <3>2, <4>1, <4>2, AbstractEnd
    <3>4. CASE cyc # "post"
      <4>1. OnBus = None
        BY <2>5, <3>4 DEF OnBus
      <4> QED BY <1>0, <2>1, <2>2, <3>1, <3>2, <4>1
    <3> QED BY <3>3, <3>4
  <2> QED BY <2>3, <2>4, <2>5
<1>7. CASE DataEn
  <2>1. /\ cyc \in {"parked", "access", "post"}
        /\ UNCHANGED <<session, enable, res, posted, want, stage>>
    BY <1>7 DEF DataEn, Strobe, BusInv, Pipeline
  <2>2. (cyc' = cyc /\ reg' = reg) \/ cyc' = "parked"
    BY <1>7 DEF DataEn
  <2>3. Todo' = Todo
    BY <2>1, <2>2 DEF Todo, Loaded, Staged
  <2>4. CASE session = "run" /\ cyc = "post"
    <3>1. cyc' = "parked" /\ resp' = resp
      BY <1>7, <2>4 DEF DataEn
    <3>2. OnBus # None /\ OnBus # "access" /\ OnBus' = None
      BY <2>4, <3>1, OnBusIs DEF OnBus
    <3>3. resp' = (resp \/ OnBus = "access")
      BY <3>1, <3>2 DEF BusInv, Signals
    <3> QED BY <2>1, <2>3, <3>2, <3>3, AbstractEnd
  <2>5. CASE session = "run" /\ cyc = "access" /\ res /\ enable
    <3>1. cyc' = "parked" /\ resp' = TRUE
      BY <1>7, <2>5 DEF DataEn
    <3>2. OnBus = "access" /\ OnBus # None /\ OnBus' = None
      BY <2>5, <3>1, OnBusIs DEF OnBus
    <3>3. resp' = (resp \/ OnBus = "access")
      BY <3>1, <3>2
    <3> QED BY <2>1, <2>3, <3>2, <3>3, AbstractEnd
  <2>6. CASE ~(session = "run" /\ (cyc = "post" \/ (cyc = "access" /\ res /\ enable)))
    <3>1. resp' = resp /\ cyc' = cyc /\ reg' = reg
      BY <1>7, <2>6 DEF DataEn
    <3>2. OnBus' = OnBus
      BY <2>1, <3>1 DEF OnBus
    <3> QED BY <1>0, <2>1, <2>3, <3>1, <3>2
  <2> QED BY <2>4, <2>5, <2>6
<1>8. CASE Fetch
  <2>1. /\ cyc = "fetch" /\ cyc' = "load" /\ reg' = Head(posted) /\ posted' = Tail(posted)
        /\ UNCHANGED <<session, enable, res, want, stage, resp>>
    BY <1>8 DEF Fetch
  <2>2. enable /\ posted # <<>> /\ posted \in Seq(Write)
    BY <2>1 DEF BusInv, Pipeline
  <2>3. Loaded = <<>> /\ Loaded' = <<Head(posted)>> /\ Staged' = Staged
    BY <2>1 DEF Loaded, Staged
  <2>4. Todo' = Loaded' \o posted' \o Staged'
    BY <2>1, <2>2 DEF Todo
  <2>5. Loaded' \o posted' = posted
    BY <2>1, <2>2, <2>3, HeadJoined
  <2>6. Todo = posted \o Staged
    BY <2>2, <2>3 DEF Todo
  <2>7. OnBus' = OnBus
    BY <2>1 DEF OnBus
  <2> QED BY <1>0, <2>1, <2>3, <2>4, <2>5, <2>6, <2>7
<1>9. CASE Load
  <2>1. /\ cyc = "load" /\ cyc' = "post"
        /\ UNCHANGED <<session, enable, res, want, stage, resp, posted, reg>>
    BY <1>9 DEF Load
  <2>2. enable /\ reg \in Write
    BY <2>1 DEF BusInv, Pipeline
  <2>3. Loaded = <<reg>> /\ Loaded' = <<>> /\ Staged' = Staged
    BY <2>1 DEF Loaded, Staged
  <2>4. Todo = <<reg>> \o (posted \o Staged) /\ posted \o Staged \in Seq(Write)
    BY <2>2, <2>3, Owed, ConcatProperties
  <2>5. Todo' = posted \o Staged
    BY <2>1, <2>2, <2>3 DEF Todo, BusInv, Pipeline
  <2>6. Todo # <<>> /\ Head(Todo) = reg /\ Tail(Todo) = Todo'
    BY <2>2, <2>4, <2>5, FirstOf
  <2>7. OnBus = None /\ OnBus' = reg
    BY <2>1 DEF OnBus
  <2> QED BY <2>1, <2>6, <2>7, AbstractWrite
<1>10. ASSUME NEW w \in Write, CorePost(w)
       PROVE  Promise!Next
  <2>1. /\ CoreRuns /\ awake /\ want = None /\ stage' = w /\ posted' = Pushed
        /\ UNCHANGED <<session, enable, res, want, resp, cyc, reg>>
    BY <1>10 DEF CorePost
  <2>2. enable /\ w # None
    BY <2>1, VtwAssumption DEF CoreRuns
  <2>3. Loaded' = Loaded /\ Staged' = <<w>> /\ posted' = posted \o Staged
    BY <2>1, <2>2, PushedWhole DEF Loaded, Staged
  <2>4. Todo' = Loaded \o (posted \o Staged) \o <<w>>
    BY <2>1, <2>2, <2>3 DEF Todo
  <2>5. Todo = Loaded \o (posted \o Staged) /\ Todo \in Seq(Write)
    BY <2>2, Owed
  <2>6. Todo' = Append(Todo, w)
    BY <2>4, <2>5, AppendIsConcat
  <2>7. OnBus' = OnBus
    BY <2>1 DEF OnBus
  <2> QED BY <2>1, <2>6, <2>7, AbstractPost
<1>11. ASSUME NEW r \in Access, CoreAsk(r)
       PROVE  Promise!Next
  <2>1. /\ enable /\ res /\ want = None /\ want' = r
        /\ UNCHANGED <<session, enable, res, stage, posted, resp, cyc, reg>>
    BY <1>11 DEF CoreAsk, CoreRuns
  <2>2. Todo' = Todo
    BY <2>1 DEF Todo, Loaded, Staged
  <2>3. cyc # "access"
    BY <2>1 DEF BusInv, OneRequest
  <2>4. OnBus' = OnBus
    BY <2>1, <2>3 DEF OnBus
  <2> QED BY <2>1, <2>2, <2>4, AbstractAsk
<1>12. CASE Push
  <2>1. /\ stage # None /\ stage' = None /\ posted' = Pushed
        /\ UNCHANGED <<session, enable, res, want, resp, cyc, reg>>
    BY <1>12 DEF Push
  <2>2. enable
    BY <2>1 DEF BusInv, OneRequest
  <2>3. Loaded' = Loaded /\ Staged' = <<>> /\ posted' = posted \o Staged
    BY <2>1, PushedWhole DEF Loaded, Staged
  <2>4. Todo' = Loaded \o (posted \o Staged) \o <<>>
    BY <2>1, <2>2, <2>3 DEF Todo
  <2>5. Todo = Loaded \o (posted \o Staged) /\ Todo \in Seq(Write)
    BY <2>2, Owed
  <2>6. Todo' = Todo
    BY <2>4, <2>5, ConcatEmptySeq
  <2>7. OnBus' = OnBus
    BY <2>1 DEF OnBus
  <2> QED BY <1>0, <2>1, <2>6, <2>7
<1>13. CASE Request
  BY <1>0, <1>13 DEF Request, Todo, Loaded, Staged, OnBus
<1>14. CASE TakeAnswer
  <2>1. /\ resp /\ resp' = FALSE /\ want' = None
        /\ UNCHANGED <<session, enable, res, stage, posted, cyc, reg>>
    BY <1>14 DEF TakeAnswer
  <2>2. cyc # "access"
    BY <2>1 DEF BusInv, OneRequest
  <2>3. Todo' = Todo /\ OnBus' = OnBus
    BY <2>1, <2>2 DEF Todo, Loaded, Staged, OnBus
  <2> QED BY <2>1, <2>3, AbstractTake
<1>15. CASE UNCHANGED vars
  BY <1>0, <1>15 DEF vars, Todo, Loaded, Staged, OnBus
<1> QED BY <1>1, <1>2, <1>3, <1>4, <1>5, <1>6, <1>7, <1>8, <1>9, <1>10, <1>11, <1>12, <1>13,
           <1>14, <1>15 DEF Next, Inputs, DriveEn, Core

\* Through takeover, handback, resets, missed strobes and a full queue, the writes and
\* accesses of the core go out as BusMaster promises, for every depth of the queue.
THEOREM Implements == Spec => ImplementsBusMaster
<1>1. Init => Promise!Init
  BY DEF Init, Promise!Init
<1>2. BusInv /\ BusInv' /\ [Next]_vars => [Promise!Next]_Promise!vars
  BY PromiseStep
<1> QED BY <1>1, <1>2, BusInitial, BusStep, PTL DEF Spec, ImplementsBusMaster, Promise!Spec

-----------------------------------------------------------------------------
(* The ONE//e.                                                             *)

\* What the flops remember of a change of the pin: the capture flop outlives the
\* synchronizer, so its own two flops are set when the change is sampled.
Captured ==
  /\ sync.meta # sync.level => caught
  /\ Onee!Sampled => kill.meta
  /\ lateness \in 0 .. 2
  /\ lateness = 1 => kill.meta
  /\ lateness = 2 => kill.level

\* The card lets go of the bus only after quiet: without the lockout it is quiet,
\* and a request that slipped in with the lockout is held by the next clock.
Held ==
  /\ ~lockout => Onee!IsQuiet
  /\ lockout /\ (request \/ selected) /\ ~hold => Onee!IsQuiet \/ Onee!Killed

\* Who wants the mode.  A restore is pending only while nothing is requested.
Wanted ==
  /\ write \in {"none", "on", "off"}
  /\ write = "on" => manual /\ consent
  /\ request => manual \/ write = "off"
  /\ manual => confirm = 0
  /\ request => consent \/ write = "off"
  /\ restore => ~manual /\ ~request /\ confirm = 0 /\ consent

\* How many polls in a row have seen a hazard, and the bus moved before each.
Counted ==
  /\ streak \in Nat /\ confirm \in 0 .. Confirm /\ waits \in Nat
  /\ restore => waits < Grace
  /\ step # "poll" /\ confirm # 0 => streak + 1 >= confirm
  /\ step # "poll" /\ restore => streak >= waits
  /\ step = "poll" /\ seen.hazard /\ confirm # 0 => streak >= confirm
  /\ step = "poll" /\ seen.hazard /\ restore => streak >= waits + 1

OneeInv == Captured /\ Held /\ Wanted /\ Counted

USE OneeAssumption

LEMMA CapturedKept ==
  ASSUME Captured, [Onee!Next]_aloneVars
  PROVE  Captured'
<1> USE DEF Captured, Onee!Sampled, Onee!IsQuiet, Onee!Killed, Onee!LockoutClear,
    Onee!gvars, Onee!service, Onee!core, Onee!menu, Onee!observers, Onee!CanStep
<1>1. CASE Onee!Bus
  BY <1>1 DEF Onee!Bus, Onee!PinMoves, Onee!PinPulses
<1>2. CASE Onee!Tick
  <2>1. /\ sync' = [meta |-> pin, level |-> sync.meta, previous |-> sync.level]
        /\ kill' = [meta |-> caught, level |-> kill.meta]
        /\ caught' = (pin # sync.level \/ pin # sync.meta \/ (caught /\ ~Onee!LockoutClear))
        /\ run' = (request /\ ~lockout /\ ~Onee!Killed /\ (run \/ selected))
        /\ lateness' = IF run' /\ caught THEN IF lateness = 3 THEN 3 ELSE lateness + 1 ELSE 0
    BY <1>2 DEF Onee!Tick, Onee!Clock, Onee!Synchronizers, Onee!CaughtNext, Onee!RunNext
  <2>2. (sync.meta # sync.level => caught)'
    BY <2>1
  <2>3. (Onee!Sampled => kill.meta)'
    BY <2>1
  <2>4. CASE run' /\ caught
    <3>1. ~kill.level
      BY <2>1, <2>4
    <3>2. lateness \in 0 .. 1
      BY <3>1
    <3>3. lateness' = lateness + 1
      BY <2>1, <2>4, <3>2
    <3>4. kill'.meta
      BY <2>1, <2>4
    <3>5. lateness = 1 => kill'.level
      BY <2>1
    <3> QED BY <2>2, <2>3, <3>2, <3>3, <3>4, <3>5
  <2>5. CASE ~(run' /\ caught)
    <3>1. lateness' = 0
      BY <2>1, <2>5
    <3> QED BY <2>2, <2>3, <3>1
  <2> QED BY <2>4, <2>5
<1>3. CASE Onee!PollRead
  BY <1>3 DEF Onee!PollRead
<1>4. CASE Onee!Confirming
  BY <1>4 DEF Onee!Confirming, Onee!Polled, Onee!StaleOff, Onee!Suspend, Onee!ToMenu, Onee!Leaves,
      Onee!ForceOff
<1>5. CASE Onee!Unselected
  BY <1>5 DEF Onee!Unselected, Onee!Polled, Onee!StaleOff, Onee!Suspend, Onee!ToMenu, Onee!Leaves
<1>6. CASE Onee!RestoreWaits
  BY <1>6 DEF Onee!RestoreWaits, Onee!Polled, Onee!ToMenu, Onee!Leaves, Onee!Disarm, Onee!ForceOff,
      Onee!StaleOff, Onee!Suspend
<1>7. CASE Onee!RestoreRaises
  BY <1>7 DEF Onee!RestoreRaises, Onee!Polled, Onee!ToMenu, Onee!Leaves
<1>8. CASE Onee!StopForHazard
  BY <1>8 DEF Onee!StopForHazard, Onee!Polled, Onee!Disarm, Onee!ToMenu, Onee!Leaves
<1>9. CASE Onee!NotEffective
  BY <1>9 DEF Onee!NotEffective, Onee!Polled, Onee!Suspend, Onee!ToMenu, Onee!Leaves
<1>10. CASE Onee!BackOff
  BY <1>10 DEF Onee!BackOff, Onee!Effective, Onee!Polled, Onee!ToMenu, Onee!Leaves
<1>11. CASE Onee!CheckRunning
  BY <1>11 DEF Onee!CheckRunning, Onee!Effective, Onee!Polled, Onee!ToMenu, Onee!Leaves, Onee!Suspend
<1>12. CASE Onee!StartCore
  BY <1>12 DEF Onee!StartCore, Onee!Effective, Onee!Polled, Onee!CoreStep, Onee!Suspend
<1>13. CASE Onee!LoadCold
  BY <1>13 DEF Onee!LoadCold, Onee!CoreStep, Onee!Suspend
<1>14. CASE Onee!Release
  BY <1>14 DEF Onee!Release, Onee!CoreStep, Onee!Suspend
<1>15. CASE Onee!AwaitCore
  BY <1>15 DEF Onee!AwaitCore, Onee!Suspend
<1>16. CASE Onee!MenuSkip
  BY <1>16 DEF Onee!MenuSkip
<1>17. CASE Onee!Reload
  BY <1>17 DEF Onee!Reload
<1>18. CASE Onee!TurnOff
  BY <1>18 DEF Onee!TurnOff, Onee!ForceOff, Onee!Disarm
<1>19. CASE Onee!Raise
  BY <1>19 DEF Onee!Raise
<1>20. CASE Onee!RefuseRaise
  BY <1>20 DEF Onee!RefuseRaise, Onee!ForceOff, Onee!Disarm
<1>21. ASSUME NEW ok \in BOOLEAN, Onee!MenuSave(ok)
      PROVE  Captured'
  BY <1>21 DEF Onee!MenuSave
<1>22. ASSUME NEW ok \in BOOLEAN, Onee!OtherEdit(ok)
      PROVE  Captured'
  BY <1>22 DEF Onee!OtherEdit
<1>23. ASSUME NEW ok \in BOOLEAN, Onee!TurnOn(ok)
      PROVE  Captured'
  BY <1>23 DEF Onee!TurnOn
<1>24. CASE Onee!Restart
  BY <1>24 DEF Onee!Restart
<1>25. CASE UNCHANGED aloneVars
  BY <1>25 DEF aloneVars
<1> QED BY <1>1, <1>2, <1>3, <1>4, <1>5, <1>6, <1>7, <1>8, <1>9, <1>10, <1>11, <1>12, <1>13,
    <1>14, <1>15, <1>16, <1>17, <1>18, <1>19, <1>20, <1>21, <1>22, <1>23, <1>24, <1>25 DEF
    Onee!Next, Onee!Poll

LEMMA HeldKept ==
  ASSUME Captured, Held, [Onee!Next]_aloneVars
  PROVE  Held'
<1> USE DEF Captured, Held, Onee!Sampled, Onee!IsQuiet, Onee!Killed, Onee!LockoutClear,
    Onee!gvars, Onee!service, Onee!core, Onee!menu, Onee!observers, Onee!CanStep
<1>1. CASE Onee!Bus
  BY <1>1 DEF Onee!Bus, Onee!PinMoves, Onee!PinPulses
<1>2. CASE Onee!Tick
  BY <1>2 DEF Onee!Tick, Onee!Clock, Onee!Synchronizers, Onee!CaughtNext, Onee!LockoutNext,
      Onee!Selection, Onee!RunNext, Onee!RequestNext
<1>3. CASE Onee!PollRead
  BY <1>3 DEF Onee!PollRead
<1>4. CASE Onee!Confirming
  BY <1>4 DEF Onee!Confirming, Onee!Polled, Onee!StaleOff, Onee!Suspend, Onee!ToMenu, Onee!Leaves,
      Onee!ForceOff
<1>5. CASE Onee!Unselected
  BY <1>5 DEF Onee!Unselected, Onee!Polled, Onee!StaleOff, Onee!Suspend, Onee!ToMenu, Onee!Leaves
<1>6. CASE Onee!RestoreWaits
  BY <1>6 DEF Onee!RestoreWaits, Onee!Polled, Onee!ToMenu, Onee!Leaves, Onee!Disarm, Onee!ForceOff,
      Onee!StaleOff, Onee!Suspend
<1>7. CASE Onee!RestoreRaises
  BY <1>7 DEF Onee!RestoreRaises, Onee!Polled, Onee!ToMenu, Onee!Leaves
<1>8. CASE Onee!StopForHazard
  BY <1>8 DEF Onee!StopForHazard, Onee!Polled, Onee!Disarm, Onee!ToMenu, Onee!Leaves
<1>9. CASE Onee!NotEffective
  BY <1>9 DEF Onee!NotEffective, Onee!Polled, Onee!Suspend, Onee!ToMenu, Onee!Leaves
<1>10. CASE Onee!BackOff
  BY <1>10 DEF Onee!BackOff, Onee!Effective, Onee!Polled, Onee!ToMenu, Onee!Leaves
<1>11. CASE Onee!CheckRunning
  BY <1>11 DEF Onee!CheckRunning, Onee!Effective, Onee!Polled, Onee!ToMenu, Onee!Leaves, Onee!Suspend
<1>12. CASE Onee!StartCore
  BY <1>12 DEF Onee!StartCore, Onee!Effective, Onee!Polled, Onee!CoreStep, Onee!Suspend
<1>13. CASE Onee!LoadCold
  BY <1>13 DEF Onee!LoadCold, Onee!CoreStep, Onee!Suspend
<1>14. CASE Onee!Release
  BY <1>14 DEF Onee!Release, Onee!CoreStep, Onee!Suspend
<1>15. CASE Onee!AwaitCore
  BY <1>15 DEF Onee!AwaitCore, Onee!Suspend
<1>16. CASE Onee!MenuSkip
  BY <1>16 DEF Onee!MenuSkip
<1>17. CASE Onee!Reload
  BY <1>17 DEF Onee!Reload
<1>18. CASE Onee!TurnOff
  BY <1>18 DEF Onee!TurnOff, Onee!ForceOff, Onee!Disarm
<1>19. CASE Onee!Raise
  BY <1>19 DEF Onee!Raise
<1>20. CASE Onee!RefuseRaise
  BY <1>20 DEF Onee!RefuseRaise, Onee!ForceOff, Onee!Disarm
<1>21. ASSUME NEW ok \in BOOLEAN, Onee!MenuSave(ok)
      PROVE  Held'
  BY <1>21 DEF Onee!MenuSave
<1>22. ASSUME NEW ok \in BOOLEAN, Onee!OtherEdit(ok)
      PROVE  Held'
  BY <1>22 DEF Onee!OtherEdit
<1>23. ASSUME NEW ok \in BOOLEAN, Onee!TurnOn(ok)
      PROVE  Held'
  BY <1>23 DEF Onee!TurnOn
<1>24. CASE Onee!Restart
  BY <1>24 DEF Onee!Restart
<1>25. CASE UNCHANGED aloneVars
  BY <1>25 DEF aloneVars
<1> QED BY <1>1, <1>2, <1>3, <1>4, <1>5, <1>6, <1>7, <1>8, <1>9, <1>10, <1>11, <1>12, <1>13,
    <1>14, <1>15, <1>16, <1>17, <1>18, <1>19, <1>20, <1>21, <1>22, <1>23, <1>24, <1>25 DEF
    Onee!Next, Onee!Poll

LEMMA WantedKept ==
  ASSUME Wanted, [Onee!Next]_aloneVars
  PROVE  Wanted'
<1> USE DEF Wanted, Onee!gvars, Onee!service, Onee!core, Onee!menu, Onee!observers,
    Onee!CanStep
<1>1. CASE Onee!Bus
  BY <1>1 DEF Onee!Bus, Onee!PinMoves, Onee!PinPulses
<1>2. CASE Onee!Tick
  BY <1>2 DEF Onee!Tick, Onee!Clock, Onee!Synchronizers, Onee!CaughtNext, Onee!LockoutNext,
      Onee!Selection, Onee!RunNext, Onee!RequestNext
<1>3. CASE Onee!PollRead
  BY <1>3 DEF Onee!PollRead
<1>4. CASE Onee!Confirming
  BY <1>4 DEF Onee!Confirming, Onee!Polled, Onee!StaleOff, Onee!Suspend, Onee!ToMenu, Onee!Leaves,
      Onee!ForceOff
<1>5. CASE Onee!Unselected
  BY <1>5 DEF Onee!Unselected, Onee!Polled, Onee!StaleOff, Onee!Suspend, Onee!ToMenu, Onee!Leaves
<1>6. CASE Onee!RestoreWaits
  BY <1>6 DEF Onee!RestoreWaits, Onee!Polled, Onee!ToMenu, Onee!Leaves, Onee!Disarm, Onee!ForceOff,
      Onee!StaleOff, Onee!Suspend
<1>7. CASE Onee!RestoreRaises
  BY <1>7 DEF Onee!RestoreRaises, Onee!Polled, Onee!ToMenu, Onee!Leaves
<1>8. CASE Onee!StopForHazard
  BY <1>8 DEF Onee!StopForHazard, Onee!Polled, Onee!Disarm, Onee!ToMenu, Onee!Leaves
<1>9. CASE Onee!NotEffective
  BY <1>9 DEF Onee!NotEffective, Onee!Polled, Onee!Suspend, Onee!ToMenu, Onee!Leaves
<1>10. CASE Onee!BackOff
  BY <1>10 DEF Onee!BackOff, Onee!Effective, Onee!Polled, Onee!ToMenu, Onee!Leaves
<1>11. CASE Onee!CheckRunning
  BY <1>11 DEF Onee!CheckRunning, Onee!Effective, Onee!Polled, Onee!ToMenu, Onee!Leaves, Onee!Suspend
<1>12. CASE Onee!StartCore
  BY <1>12 DEF Onee!StartCore, Onee!Effective, Onee!Polled, Onee!CoreStep, Onee!Suspend
<1>13. CASE Onee!LoadCold
  BY <1>13 DEF Onee!LoadCold, Onee!CoreStep, Onee!Suspend
<1>14. CASE Onee!Release
  BY <1>14 DEF Onee!Release, Onee!CoreStep, Onee!Suspend
<1>15. CASE Onee!AwaitCore
  BY <1>15 DEF Onee!AwaitCore, Onee!Suspend
<1>16. CASE Onee!MenuSkip
  BY <1>16 DEF Onee!MenuSkip
<1>17. CASE Onee!Reload
  BY <1>17 DEF Onee!Reload
<1>18. CASE Onee!TurnOff
  BY <1>18 DEF Onee!TurnOff, Onee!ForceOff, Onee!Disarm
<1>19. CASE Onee!Raise
  BY <1>19 DEF Onee!Raise
<1>20. CASE Onee!RefuseRaise
  BY <1>20 DEF Onee!RefuseRaise, Onee!ForceOff, Onee!Disarm
<1>21. ASSUME NEW ok \in BOOLEAN, Onee!MenuSave(ok)
      PROVE  Wanted'
  BY <1>21 DEF Onee!MenuSave
<1>22. ASSUME NEW ok \in BOOLEAN, Onee!OtherEdit(ok)
      PROVE  Wanted'
  BY <1>22 DEF Onee!OtherEdit
<1>23. ASSUME NEW ok \in BOOLEAN, Onee!TurnOn(ok)
      PROVE  Wanted'
  BY <1>23 DEF Onee!TurnOn
<1>24. CASE Onee!Restart
  BY <1>24 DEF Onee!Restart
<1>25. CASE UNCHANGED aloneVars
  BY <1>25 DEF aloneVars
<1> QED BY <1>1, <1>2, <1>3, <1>4, <1>5, <1>6, <1>7, <1>8, <1>9, <1>10, <1>11, <1>12, <1>13,
    <1>14, <1>15, <1>16, <1>17, <1>18, <1>19, <1>20, <1>21, <1>22, <1>23, <1>24, <1>25 DEF
    Onee!Next, Onee!Poll

LEMMA CountedKept ==
  ASSUME Wanted, Counted, [Onee!Next]_aloneVars
  PROVE  Counted'
<1> USE DEF Wanted, Counted, Onee!MaxStreak, Onee!Status, Onee!Settled, Onee!Nothing,
    Onee!gvars, Onee!service, Onee!core, Onee!menu, Onee!observers, Onee!CanStep
<1>1. CASE Onee!Bus
  BY <1>1 DEF Onee!Bus, Onee!PinMoves, Onee!PinPulses
<1>2. CASE Onee!Tick
  BY <1>2 DEF Onee!Tick, Onee!Clock, Onee!Synchronizers, Onee!CaughtNext, Onee!LockoutNext,
      Onee!Selection, Onee!RunNext, Onee!RequestNext
<1>3. CASE Onee!PollRead
  BY <1>3 DEF Onee!PollRead
<1>4. CASE Onee!Confirming
  BY <1>4 DEF Onee!Confirming, Onee!Polled, Onee!StaleOff, Onee!Suspend, Onee!ToMenu, Onee!Leaves,
      Onee!ForceOff
<1>5. CASE Onee!Unselected
  BY <1>5 DEF Onee!Unselected, Onee!Polled, Onee!StaleOff, Onee!Suspend, Onee!ToMenu, Onee!Leaves
<1>6. CASE Onee!RestoreWaits
  <2>1. CASE seen.hazard /\ waits + 1 = Grace
    BY <1>6, <2>1 DEF Onee!RestoreWaits, Onee!Polled, Onee!ToMenu, Onee!Leaves, Onee!Disarm, Onee!ForceOff
  <2>2. CASE seen.hazard /\ waits + 1 # Grace
    BY <1>6, <2>2 DEF Onee!RestoreWaits, Onee!Polled, Onee!ToMenu, Onee!Leaves
  <2>3. CASE ~seen.hazard
    BY <1>6, <2>3 DEF Onee!RestoreWaits, Onee!Polled, Onee!ToMenu, Onee!Leaves
  <2> QED BY <2>1, <2>2, <2>3
<1>7. CASE Onee!RestoreRaises
  BY <1>7 DEF Onee!RestoreRaises, Onee!Polled, Onee!ToMenu, Onee!Leaves
<1>8. CASE Onee!StopForHazard
  BY <1>8 DEF Onee!StopForHazard, Onee!Polled, Onee!Disarm, Onee!ToMenu, Onee!Leaves
<1>9. CASE Onee!NotEffective
  BY <1>9 DEF Onee!NotEffective, Onee!Polled, Onee!Suspend, Onee!ToMenu, Onee!Leaves
<1>10. CASE Onee!BackOff
  BY <1>10 DEF Onee!BackOff, Onee!Effective, Onee!Polled, Onee!ToMenu, Onee!Leaves
<1>11. CASE Onee!CheckRunning
  BY <1>11 DEF Onee!CheckRunning, Onee!Effective, Onee!Polled, Onee!ToMenu, Onee!Leaves, Onee!Suspend
<1>12. CASE Onee!StartCore
  BY <1>12 DEF Onee!StartCore, Onee!Effective, Onee!Polled, Onee!CoreStep, Onee!Suspend
<1>13. CASE Onee!LoadCold
  BY <1>13 DEF Onee!LoadCold, Onee!CoreStep, Onee!Suspend
<1>14. CASE Onee!Release
  BY <1>14 DEF Onee!Release, Onee!CoreStep, Onee!Suspend
<1>15. CASE Onee!AwaitCore
  BY <1>15 DEF Onee!AwaitCore, Onee!Suspend
<1>16. CASE Onee!MenuSkip
  BY <1>16 DEF Onee!MenuSkip
<1>17. CASE Onee!Reload
  BY <1>17 DEF Onee!Reload
<1>18. CASE Onee!TurnOff
  BY <1>18 DEF Onee!TurnOff, Onee!ForceOff, Onee!Disarm
<1>19. CASE Onee!Raise
  BY <1>19 DEF Onee!Raise
<1>20. CASE Onee!RefuseRaise
  BY <1>20 DEF Onee!RefuseRaise, Onee!ForceOff, Onee!Disarm
<1>21. ASSUME NEW ok \in BOOLEAN, Onee!MenuSave(ok)
      PROVE  Counted'
  BY <1>21 DEF Onee!MenuSave
<1>22. ASSUME NEW ok \in BOOLEAN, Onee!OtherEdit(ok)
      PROVE  Counted'
  BY <1>22 DEF Onee!OtherEdit
<1>23. ASSUME NEW ok \in BOOLEAN, Onee!TurnOn(ok)
      PROVE  Counted'
  BY <1>23 DEF Onee!TurnOn
<1>24. CASE Onee!Restart
  BY <1>24 DEF Onee!Restart
<1>25. CASE UNCHANGED aloneVars
  BY <1>25 DEF aloneVars
<1> QED BY <1>1, <1>2, <1>3, <1>4, <1>5, <1>6, <1>7, <1>8, <1>9, <1>10, <1>11, <1>12, <1>13,
    <1>14, <1>15, <1>16, <1>17, <1>18, <1>19, <1>20, <1>21, <1>22, <1>23, <1>24, <1>25 DEF
    Onee!Next, Onee!Poll

LEMMA OneeInitial == Onee!Init => OneeInv
BY DEF Onee!Init, Onee!GuardInit, Onee!Fresh, Onee!Nothing, Onee!Sampled, Onee!IsQuiet,
       Onee!Killed, OneeInv, Captured, Held, Wanted, Counted

LEMMA OneeStep == OneeInv /\ [Onee!Next]_Onee!ovars => OneeInv'
BY CapturedKept, HeldKept, WantedKept, CountedKept
   DEF OneeInv, aloneVars, Onee!ovars, Onee!gvars, Onee!svars

\* The interlock, onee_mode_safety_guard.sv: however the pin, the requests of the
\* supervisor and the restarts interleave, run outlives a change by two clocks at most.
THEOREM StopsSoon == Onee!Spec => []StopsInTime
<1>1. OneeInv => StopsInTime
  BY DEF OneeInv, Captured, StopsInTime, Onee!StopsInTime
<1> QED BY <1>1, OneeInitial, OneeStep, PTL DEF Onee!Spec

\* The outputs of the card come back to the Apple's bus only after quiet, whoever
\* stopped the mode.
THEOREM QuietFirst == Onee!Spec => ReleasesQuiet
<1>1. OneeInv /\ [Onee!Next]_Onee!ovars
        => [Onee!Tick /\ Onee!Isolated /\ ~Onee!Isolated' => Onee!IsQuiet]_Onee!ovars
  BY DEF OneeInv, Held, Onee!Isolated, Onee!Tick, Onee!Clock, Onee!LockoutNext,
         Onee!LockoutClear
<1> QED BY <1>1, OneeInitial, OneeStep, PTL DEF Onee!Spec, ReleasesQuiet, Onee!ReleasesQuiet

\* Only a clock of the guard raises the request or the run.
LEMMA RisesByClock ==
  ASSUME [Onee!Next]_aloneVars, (~request /\ request') \/ (~run /\ run')
  PROVE  Onee!Tick
<1> USE DEF Onee!gvars, Onee!service, Onee!core, Onee!menu, Onee!observers, Onee!CanStep
<1>1. CASE Onee!Bus
  BY <1>1 DEF Onee!Bus, Onee!PinMoves, Onee!PinPulses
<1>2. CASE Onee!Tick
  BY <1>2 DEF Onee!Tick, Onee!Clock, Onee!Synchronizers, Onee!CaughtNext, Onee!LockoutNext,
      Onee!Selection, Onee!RunNext, Onee!RequestNext
<1>3. CASE Onee!PollRead
  BY <1>3 DEF Onee!PollRead
<1>4. CASE Onee!Confirming
  BY <1>4 DEF Onee!Confirming, Onee!Polled, Onee!StaleOff, Onee!Suspend, Onee!ToMenu, Onee!Leaves,
      Onee!ForceOff
<1>5. CASE Onee!Unselected
  BY <1>5 DEF Onee!Unselected, Onee!Polled, Onee!StaleOff, Onee!Suspend, Onee!ToMenu, Onee!Leaves
<1>6. CASE Onee!RestoreWaits
  BY <1>6 DEF Onee!RestoreWaits, Onee!Polled, Onee!ToMenu, Onee!Leaves, Onee!Disarm, Onee!ForceOff,
      Onee!StaleOff, Onee!Suspend
<1>7. CASE Onee!RestoreRaises
  BY <1>7 DEF Onee!RestoreRaises, Onee!Polled, Onee!ToMenu, Onee!Leaves
<1>8. CASE Onee!StopForHazard
  BY <1>8 DEF Onee!StopForHazard, Onee!Polled, Onee!Disarm, Onee!ToMenu, Onee!Leaves
<1>9. CASE Onee!NotEffective
  BY <1>9 DEF Onee!NotEffective, Onee!Polled, Onee!Suspend, Onee!ToMenu, Onee!Leaves
<1>10. CASE Onee!BackOff
  BY <1>10 DEF Onee!BackOff, Onee!Effective, Onee!Polled, Onee!ToMenu, Onee!Leaves
<1>11. CASE Onee!CheckRunning
  BY <1>11 DEF Onee!CheckRunning, Onee!Effective, Onee!Polled, Onee!ToMenu, Onee!Leaves, Onee!Suspend
<1>12. CASE Onee!StartCore
  BY <1>12 DEF Onee!StartCore, Onee!Effective, Onee!Polled, Onee!CoreStep, Onee!Suspend
<1>13. CASE Onee!LoadCold
  BY <1>13 DEF Onee!LoadCold, Onee!CoreStep, Onee!Suspend
<1>14. CASE Onee!Release
  BY <1>14 DEF Onee!Release, Onee!CoreStep, Onee!Suspend
<1>15. CASE Onee!AwaitCore
  BY <1>15 DEF Onee!AwaitCore, Onee!Suspend
<1>16. CASE Onee!MenuSkip
  BY <1>16 DEF Onee!MenuSkip
<1>17. CASE Onee!Reload
  BY <1>17 DEF Onee!Reload
<1>18. CASE Onee!TurnOff
  BY <1>18 DEF Onee!TurnOff, Onee!ForceOff, Onee!Disarm
<1>19. CASE Onee!Raise
  BY <1>19 DEF Onee!Raise
<1>20. CASE Onee!RefuseRaise
  BY <1>20 DEF Onee!RefuseRaise, Onee!ForceOff, Onee!Disarm
<1>21. ASSUME NEW ok \in BOOLEAN, Onee!MenuSave(ok)
      PROVE  Onee!Tick
  BY <1>21 DEF Onee!MenuSave
<1>22. ASSUME NEW ok \in BOOLEAN, Onee!OtherEdit(ok)
      PROVE  Onee!Tick
  BY <1>22 DEF Onee!OtherEdit
<1>23. ASSUME NEW ok \in BOOLEAN, Onee!TurnOn(ok)
      PROVE  Onee!Tick
  BY <1>23 DEF Onee!TurnOn
<1>24. CASE Onee!Restart
  BY <1>24 DEF Onee!Restart
<1>25. CASE UNCHANGED aloneVars
  BY <1>25 DEF aloneVars
<1> QED BY <1>1, <1>2, <1>3, <1>4, <1>5, <1>6, <1>7, <1>8, <1>9, <1>10, <1>11, <1>12, <1>13,
    <1>14, <1>15, <1>16, <1>17, <1>18, <1>19, <1>20, <1>21, <1>22, <1>23, <1>24, <1>25 DEF
    Onee!Next, Onee!Poll


\* onee_service.c:576, "the operator must select the item again".
THEOREM NoRestart == Onee!Spec => NoSilentRestart
<1>1. ASSUME OneeInv, [Onee!Next]_Onee!ovars, (~request /\ request') \/ (~run /\ run')
      PROVE  consent \/ write = "off"
  <2>1. Onee!Tick
    BY <1>1, RisesByClock DEF aloneVars, Onee!ovars, Onee!gvars, Onee!svars
  <2> QED BY <1>1, <2>1 DEF OneeInv, Wanted, Onee!Tick, Onee!Clock, Onee!RunNext,
                            Onee!RequestNext
<1>2. OneeInv /\ [Onee!Next]_Onee!ovars
        => [(~request /\ request') \/ (~run /\ run') => consent \/ write = "off"]_Onee!ovars
  BY <1>1
<1> QED BY <1>2, OneeInitial, OneeStep, PTL DEF Onee!Spec, NoSilentRestart, Onee!NoSilentRestart

\* A poll that makes OFF durable is the last of a counted row of hazards.
LEMMA OffIsCounted ==
  ASSUME OneeInv, [Onee!Next]_aloneVars,
         step = "poll", update # "off", update' = "off"
  PROVE  streak >= (IF restore THEN Grace ELSE Confirm)
<1> USE DEF OneeInv, Wanted, Counted, Onee!gvars, Onee!service, Onee!core, Onee!menu,
    Onee!observers, Onee!CanStep
<1>1. CASE Onee!Bus
  BY <1>1 DEF Onee!Bus, Onee!PinMoves, Onee!PinPulses
<1>2. CASE Onee!Tick
  BY <1>2 DEF Onee!Tick, Onee!Clock, Onee!Synchronizers, Onee!CaughtNext, Onee!LockoutNext,
      Onee!Selection, Onee!RunNext, Onee!RequestNext
<1>3. CASE Onee!PollRead
  BY <1>3 DEF Onee!PollRead
<1>4. CASE Onee!Confirming
  BY <1>4 DEF Onee!Confirming, Onee!Polled, Onee!StaleOff, Onee!Suspend, Onee!ToMenu, Onee!Leaves,
      Onee!ForceOff
<1>5. CASE Onee!Unselected
  BY <1>5 DEF Onee!Unselected, Onee!Polled, Onee!StaleOff, Onee!Suspend, Onee!ToMenu, Onee!Leaves
<1>6. CASE Onee!RestoreWaits
  BY <1>6 DEF Onee!RestoreWaits, Onee!Polled, Onee!ToMenu, Onee!Leaves, Onee!Disarm, Onee!ForceOff,
      Onee!StaleOff, Onee!Suspend
<1>7. CASE Onee!RestoreRaises
  BY <1>7 DEF Onee!RestoreRaises, Onee!Polled, Onee!ToMenu, Onee!Leaves
<1>8. CASE Onee!StopForHazard
  BY <1>8 DEF Onee!StopForHazard, Onee!Polled, Onee!Disarm, Onee!ToMenu, Onee!Leaves
<1>9. CASE Onee!NotEffective
  BY <1>9 DEF Onee!NotEffective, Onee!Polled, Onee!Suspend, Onee!ToMenu, Onee!Leaves
<1>10. CASE Onee!BackOff
  BY <1>10 DEF Onee!BackOff, Onee!Effective, Onee!Polled, Onee!ToMenu, Onee!Leaves
<1>11. CASE Onee!CheckRunning
  BY <1>11 DEF Onee!CheckRunning, Onee!Effective, Onee!Polled, Onee!ToMenu, Onee!Leaves, Onee!Suspend
<1>12. CASE Onee!StartCore
  BY <1>12 DEF Onee!StartCore, Onee!Effective, Onee!Polled, Onee!CoreStep, Onee!Suspend
<1>13. CASE Onee!LoadCold
  BY <1>13 DEF Onee!LoadCold, Onee!CoreStep, Onee!Suspend
<1>14. CASE Onee!Release
  BY <1>14 DEF Onee!Release, Onee!CoreStep, Onee!Suspend
<1>15. CASE Onee!AwaitCore
  BY <1>15 DEF Onee!AwaitCore, Onee!Suspend
<1>16. CASE Onee!MenuSkip
  BY <1>16 DEF Onee!MenuSkip
<1>17. CASE Onee!Reload
  BY <1>17 DEF Onee!Reload
<1>18. CASE Onee!TurnOff
  BY <1>18 DEF Onee!TurnOff, Onee!ForceOff, Onee!Disarm
<1>19. CASE Onee!Raise
  BY <1>19 DEF Onee!Raise
<1>20. CASE Onee!RefuseRaise
  BY <1>20 DEF Onee!RefuseRaise, Onee!ForceOff, Onee!Disarm
<1>21. ASSUME NEW ok \in BOOLEAN, Onee!MenuSave(ok)
      PROVE  streak >= (IF restore THEN Grace ELSE Confirm)
  BY <1>21 DEF Onee!MenuSave
<1>22. ASSUME NEW ok \in BOOLEAN, Onee!OtherEdit(ok)
      PROVE  streak >= (IF restore THEN Grace ELSE Confirm)
  BY <1>22 DEF Onee!OtherEdit
<1>23. ASSUME NEW ok \in BOOLEAN, Onee!TurnOn(ok)
      PROVE  streak >= (IF restore THEN Grace ELSE Confirm)
  BY <1>23 DEF Onee!TurnOn
<1>24. CASE Onee!Restart
  BY <1>24 DEF Onee!Restart
<1>25. CASE UNCHANGED aloneVars
  BY <1>25 DEF aloneVars
<1> QED BY <1>1, <1>2, <1>3, <1>4, <1>5, <1>6, <1>7, <1>8, <1>9, <1>10, <1>11, <1>12, <1>13,
    <1>14, <1>15, <1>16, <1>17, <1>18, <1>19, <1>20, <1>21, <1>22, <1>23, <1>24, <1>25 DEF
    Onee!Next, Onee!Poll


\* onee_service.c:12, the safety stop becomes "a durable OFF" only for a hazard that lasts.
THEOREM GlitchKept == Onee!Spec => GlitchKeepsChoice
<1>1. OneeInv /\ [Onee!Next]_Onee!ovars
        => [step = "poll" /\ update # "off" /\ update' = "off"
              => streak >= (IF restore THEN Grace ELSE Confirm)]_Onee!ovars
  BY OffIsCounted DEF aloneVars, Onee!ovars, Onee!gvars, Onee!svars
<1> QED BY <1>1, OneeInitial, OneeStep, PTL DEF Onee!Spec, GlitchKeepsChoice,
          Onee!GlitchKeepsChoice

\* A behaviour of the combined model is one of each component, in which the other's
\* variables rest: what is proved of the components holds of it.
THEOREM BothLives ==
  MCSpec => /\ Spec
            /\ Onee!Init /\ [][Onee!Next]_Onee!ovars
<1>1. MCInit => Init /\ Onee!Init
  BY DEF MCInit
<1>2. [MCNext]_allVars => [Next]_vars /\ [Onee!Next]_Onee!ovars
  BY DEF MCNext, allVars, aloneVars, Onee!ovars, Onee!gvars, Onee!svars
<1> QED BY <1>1, <1>2, PTL DEF MCSpec, Spec
=============================================================================
