------------------------ MODULE ThcController_proofs ------------------------
(***************************************************************************)
(* Proofs about ThcController, for every choice of its constants.          *)
(*                                                                         *)
(* Each property is proved from the type invariant; the bound on the time  *)
(* an arc may stay out needs the strengthening WatchInv, which relates the *)
(* time the arc has really been out (dark) to the time stamp the handlers  *)
(* take of its loss (lostAge), before and after the handler of a pass.     *)
(***************************************************************************)
EXTENDS ThcController, TLAPS

\* Ageing keeps a time stamp between zero and the limit, and does not outrun the clock.
LEMMA OlderType ==
  ASSUME NEW limit \in Nat, NEW a \in 0..limit, NEW d \in Nat
  PROVE  /\ Older(a, d, limit) \in 0..limit
         /\ Older(a, d, limit) <= a + d
         /\ Older(a, d, limit) < limit => Older(a, d, limit) = a + d
BY DEF Older

\* The flags of a direction are flags, and report the target only for no direction.
LEMMA MotionFlagsType ==
  ASSUME NEW d \in {-1, 0, 1}
  PROVE  /\ MotionFlags(d) \in SUBSET Flags
         /\ "AT_TARGET" \in MotionFlags(d) => d = 0
<1>1. CASE d = 1  BY <1>1 DEF MotionFlags, Flags
<1>2. CASE d = -1 BY <1>2 DEF MotionFlags, Flags
<1>3. CASE d = 0  BY <1>3 DEF MotionFlags, Flags
<1> QED BY <1>1, <1>2, <1>3

\* The mean of a completed sample is a voltage.
LEMMA MeanType ==
  ASSUME NEW s \in Nat, NEW n \in Nat \ {0} PROVE s \div n \in Nat
OBVIOUS

\* update() leaves a state, a direction and flags of their types, whatever the override.
LEMMA UpdatesType ==
  ASSUME TypeOK, NEW s \in States, NEW d \in {-1, 0, 1}, NEW f \in SUBSET Flags, Updates(s, d, f)
  PROVE  /\ pc = "thc" /\ pc' = "poll" /\ state' = s /\ dir' \in {-1, 0, 1}
         /\ bitflags' \in SUBSET Flags
         /\ UNCHANGED <<ovr, torchAge, voltage, speedVars, smart, dark>>
         /\ dir' # 0 => d # 0 \/ (ovr # 0 /\ s # "ERROR")
         /\ ("AT_TARGET" \in f => d = 0) => ("AT_TARGET" \in bitflags' => dir' = 0)
<1>1. ovr \in {-1, 0, 1} BY DEF TypeOK
<1>2. MotionFlags(ovr) \in SUBSET Flags /\ ("AT_TARGET" \in MotionFlags(ovr) => ovr = 0)
  BY <1>1, MotionFlagsType
<1>3. CASE ovr # 0 /\ s # "ERROR"
  <2>1. dir' = ovr /\ bitflags' = MotionFlags(ovr) BY <1>3 DEF Updates
  <2>2. dir' # 0 BY <1>3, <2>1
  <2> QED BY <1>1, <1>2, <1>3, <2>1, <2>2 DEF Updates
<1>4. CASE ~(ovr # 0 /\ s # "ERROR")
  <2>1. dir' = d /\ bitflags' = f BY <1>4 DEF Updates
  <2> QED BY <1>1, <1>2, <2>1 DEF Updates
<1> QED BY <1>3, <1>4

-----------------------------------------------------------------------------
\* Type correctness.

LEMMA TypeInit == Init => TypeOK
<1> SUFFICES ASSUME Init PROVE TypeOK OBVIOUS
<1>1. history \in [1..HistorySize -> Nat] /\ maxPulses \in Nat \ {0} /\ calcAge \in 0..CalcInterval
  BY ConstantAssumption DEF Init
<1>2. /\ torchAge \in 0..OkDelay /\ sampleAge \in 0..SampleDelay /\ count \in 0..SampleSize
      /\ sum \in Nat /\ dir \in {-1, 0, 1} /\ ovr \in {-1, 0, 1} /\ dark \in 0..(MaxDark + 1)
  BY ConstantAssumption DEF Init, MaxDark
<1>3. /\ lostAge \in {NotLost} \cup 0..(LostDelay + 1) /\ nominal \in Nat /\ voltage \in Nat
      /\ state \in States /\ error \in {"NONE", "LOST_ARC"} /\ bitflags \in SUBSET Flags
      /\ pc \in {"voltage", "speed", "thc", "poll"}
  BY ConstantAssumption DEF Init, States
<1>4. smart \in BOOLEAN /\ captured \in BOOLEAN /\ sampling \in BOOLEAN BY DEF Init
<1> QED BY <1>1, <1>2, <1>3, <1>4 DEF TypeOK

LEMMA TypeBeginPass == TypeOK /\ BeginPass => TypeOK'
<1> SUFFICES ASSUME TypeOK, BeginPass PROVE TypeOK' OBVIOUS
<1>1. PICK d \in 0..MaxPass :
        /\ \E v \in IF d = 0 THEN {voltage} ELSE Volts :
             /\ IF d = 0 THEN UNCHANGED <<voltage, sampleVars>> ELSE ReadVoltage(v, d)
             /\ dark' = IF Burning /\ v < LostVolts /\ voltage < LostVolts
                        THEN Older(dark, d, MaxDark + 1) ELSE 0
        /\ torchAge' = Older(torchAge, d, OkDelay)
        /\ lostAge' = IF lostAge = NotLost THEN NotLost ELSE Older(lostAge, d, LostDelay + 1)
        /\ calcAge' = Older(calcAge, d, CalcInterval)
  BY DEF BeginPass
<1>2. PICK v \in IF d = 0 THEN {voltage} ELSE Volts :
        /\ IF d = 0 THEN UNCHANGED <<voltage, sampleVars>> ELSE ReadVoltage(v, d)
        /\ dark' = IF Burning /\ v < LostVolts /\ voltage < LostVolts
                   THEN Older(dark, d, MaxDark + 1) ELSE 0
  BY <1>1
<1>3. d \in Nat /\ MaxDark + 1 \in Nat BY ConstantAssumption DEF MaxDark
<1>4. torchAge' \in 0..OkDelay /\ calcAge' \in 0..CalcInterval
  BY <1>1, <1>3, OlderType, ConstantAssumption DEF TypeOK
<1>5. lostAge' \in {NotLost} \cup 0..(LostDelay + 1)
  <2>1. CASE lostAge = NotLost BY <1>1, <2>1
  <2>2. CASE lostAge # NotLost BY <1>1, <1>3, <2>2, ConstantAssumption DEF TypeOK, Older
  <2> QED BY <2>1, <2>2
<1>6. dark' \in 0..(MaxDark + 1)
  <2>1. dark' \in {0, Older(dark, d, MaxDark + 1)} BY <1>2
  <2>2. Older(dark, d, MaxDark + 1) \in 0..(MaxDark + 1)
    <3>1. dark \in 0..(MaxDark + 1) BY DEF TypeOK
    <3> QED BY <1>3, <3>1, OlderType
  <2> QED BY <1>3, <2>1, <2>2
<1>7. /\ voltage' \in Nat /\ sampling' \in BOOLEAN /\ count' \in 0..SampleSize /\ sum' \in Nat
      /\ sampleAge' \in 0..SampleDelay
  <2>1. CASE d = 0 BY <1>2, <2>1 DEF TypeOK, sampleVars
  <2>2. CASE d # 0
    <3>1. v \in Nat /\ ReadVoltage(v, d) BY <1>2, <2>2, ConstantAssumption
    <3>2. sampleAge' \in 0..SampleDelay
      BY <3>1, <1>3, OlderType, ConstantAssumption DEF ReadVoltage, TypeOK
    <3> QED BY <3>1, <3>2, ConstantAssumption DEF ReadVoltage, TypeOK, Collects
  <2> QED BY <2>1, <2>2
<1> QED BY <1>4, <1>5, <1>6, <1>7 DEF BeginPass, TypeOK, smartVars

LEMMA TypeUpdateSpeed == TypeOK /\ UpdateSpeed => TypeOK'
<1> SUFFICES ASSUME TypeOK, UpdateSpeed PROVE TypeOK' OBVIOUS
<1>1. history' \in [1..HistorySize -> Nat] /\ maxPulses' \in Nat \ {0} /\ calcAge' \in 0..CalcInterval
  <2>1. CASE calcAge < CalcInterval BY <2>1 DEF UpdateSpeed, TypeOK, speedVars
  <2>2. CASE ~(calcAge < CalcInterval)
    <3>1. PICK speed \in Pulses :
            /\ history' = Append(Tail(history), speed)
            /\ maxPulses' = IF speed > maxPulses THEN speed ELSE maxPulses
            /\ calcAge' = 0
      BY <2>2 DEF UpdateSpeed
    <3>2. history' \in [1..HistorySize -> Nat]
      <4>1. history \in Seq(Nat) /\ Len(history) = HistorySize
        BY ConstantAssumption DEF TypeOK
      <4>2. Tail(history) \in Seq(Nat) /\ Len(Tail(history)) = HistorySize - 1
        BY <4>1, ConstantAssumption
      <4>3. history' \in Seq(Nat) /\ Len(history') = HistorySize
        BY <3>1, <4>2, ConstantAssumption
      <4> QED BY <4>3
    <3> QED BY <3>1, <3>2, ConstantAssumption DEF TypeOK
  <2> QED BY <2>1, <2>2
<1> QED BY <1>1 DEF UpdateSpeed, TypeOK, sampleVars, smartVars

-----------------------------------------------------------------------------
\* The inductive invariant.

\* Between two handlers, and between the readings and the handler of a pass: how long the arc
\* has been out, against the time stamp of its loss.
Rested == pc \in {"voltage", "poll"}
WatchInv ==
  /\ ~ArcOut => dark = 0
  /\ Burning /\ lostAge \in 0..LostDelay => dark <= lostAge + MaxPass
  /\ Burning /\ Rested /\ ArcOut /\ lostAge = NotLost => state = "ARC_OK" /\ dark = 0
  /\ Burning /\ Rested /\ lostAge = LostDelay + 1 => state = "ARC_OK" /\ dark <= MaxDark
  /\ Burning /\ ~Rested /\ ArcOut /\ lostAge = NotLost
       => dark <= MaxPass /\ (state = "FROZEN" => dark = 0)
  /\ Burning /\ ~Rested /\ ArcOut /\ lostAge = LostDelay + 1 /\ state = "FROZEN"
       => dark <= MaxDark

Safe == MovesOnlyUnderControl /\ ErrorConsistent /\ AtTargetStopped
IInv == TypeOK /\ Safe /\ WatchInv

\* At the start of a pass the clock advances both times alike.
LEMMA WatchBeginPass == IInv /\ BeginPass => WatchInv'
<1> SUFFICES ASSUME IInv, BeginPass PROVE WatchInv' OBVIOUS
<1> USE ConstantAssumption
<1>1. PICK d \in 0..MaxPass, v \in Nat :
        /\ voltage' = v
        /\ dark' = IF Burning /\ v < LostVolts /\ voltage < LostVolts
                   THEN Older(dark, d, MaxDark + 1) ELSE 0
        /\ lostAge' = IF lostAge = NotLost THEN NotLost ELSE Older(lostAge, d, LostDelay + 1)
  BY DEF BeginPass, ReadVoltage, IInv, TypeOK
<1>2. /\ UNCHANGED state /\ pc = "voltage" /\ pc' = "speed" BY DEF BeginPass
<1>3. d \in Nat /\ d <= MaxPass /\ dark \in Nat /\ voltage \in Nat /\ LostVolts \in Nat
  BY DEF IInv, TypeOK
<1>4. lostAge = NotLost \/ lostAge \in 0..(LostDelay + 1) BY DEF IInv, TypeOK
<1>5. dark' = 0 \/ (Burning /\ ArcOut /\ ArcOut' /\ dark' \in Nat /\ dark' <= dark + d)
  BY <1>1, <1>3 DEF ArcOut, Older, MaxDark
<1>6. ~ArcOut' => dark' = 0 BY <1>1, <1>3 DEF ArcOut
<1>7. CASE dark' = 0 BY <1>1, <1>2, <1>3, <1>4, <1>7 DEF WatchInv, Rested, Older, MaxDark, NotLost
<1>8. CASE Burning /\ ArcOut /\ dark' \in Nat /\ dark' <= dark + d
  <2>1. CASE lostAge = NotLost
    <3>1. state = "ARC_OK" /\ dark = 0 BY <1>2, <1>8, <2>1 DEF IInv, WatchInv, Rested
    <3>2. lostAge' = NotLost BY <1>1, <2>1
    <3> QED BY <1>2, <1>3, <1>6, <1>8, <3>1, <3>2 DEF WatchInv, Rested, NotLost
  <2>2. CASE lostAge \in 0..LostDelay
    <3>1. dark <= lostAge + MaxPass BY <1>8, <2>2 DEF IInv, WatchInv
    <3>2. lostAge' = IF lostAge + d < LostDelay + 1 THEN lostAge + d ELSE LostDelay + 1
      BY <1>1, <2>2 DEF Older, NotLost
    <3> QED BY <1>2, <1>3, <1>6, <1>8, <2>2, <3>1, <3>2 DEF WatchInv, Rested, NotLost, MaxDark
  <2>3. CASE lostAge = LostDelay + 1
    <3>1. state = "ARC_OK" BY <1>2, <1>8, <2>3 DEF IInv, WatchInv, Rested
    <3>2. lostAge' = LostDelay + 1 BY <1>1, <1>3, <2>3 DEF Older, NotLost
    <3> QED BY <1>2, <1>3, <1>6, <3>1, <3>2 DEF WatchInv, Rested, NotLost
  <2> QED BY <1>4, <2>1, <2>2, <2>3
<1> QED BY <1>5, <1>7, <1>8

\* What a handler has to show besides its call of Updates().
LEMMA HandlerKeeps ==
  ASSUME IInv, NEW s \in States, NEW d \in {-1, 0, 1}, NEW f \in SUBSET Flags, Updates(s, d, f),
         error' \in {"NONE", "LOST_ARC"}, lostAge' \in {NotLost} \cup 0..(LostDelay + 1),
         captured' \in BOOLEAN, nominal' \in Nat,
         sampling' \in BOOLEAN, count' \in 0..SampleSize, sum' \in Nat, sampleAge' \in 0..SampleDelay,
         d # 0 => s \in {"ARC_OK", "FROZEN"} \/ ovr # 0,
         "AT_TARGET" \in f => d = 0,
         s = "ERROR" => error' # "NONE",
         s \in {"ENABLED", "TORCH_ON", "ARC_OK", "FROZEN"} => error' = "NONE",
         WatchInv'
  PROVE  IInv'
<1>1. /\ pc' = "poll" /\ state' = s /\ dir' \in {-1, 0, 1} /\ bitflags' \in SUBSET Flags
      /\ UNCHANGED <<ovr, torchAge, voltage, speedVars, smart, dark>>
      /\ dir' # 0 => d # 0 \/ (ovr # 0 /\ s # "ERROR")
      /\ "AT_TARGET" \in bitflags' => dir' = 0
  BY UpdatesType DEF IInv
<1>2. TypeOK' BY <1>1 DEF IInv, TypeOK, speedVars
<1>3. MovesOnlyUnderControl' BY <1>1 DEF MovesOnlyUnderControl, Burning
<1>4. ErrorConsistent' BY <1>1 DEF ErrorConsistent
<1>5. AtTargetStopped' BY <1>1 DEF AtTargetStopped
<1> QED BY <1>2, <1>3, <1>4, <1>5 DEF IInv, Safe

\* Outside a cut there is nothing to watch.
LEMMA NotBurning ==
  ASSUME IInv, ~Burning', voltage' = voltage, dark' = dark
  PROVE  WatchInv'
BY DEF IInv, WatchInv, ArcOut, Burning

LEMMA QuietHandlers ==
  ASSUME IInv, HandleIdle \/ HandleEnabled \/ HandleError \/ AwaitArc
  PROVE  IInv'
<1>1. PICK s \in {"IDLE", "ENABLED", "ERROR", "TORCH_ON"}, d \in {dir, 0},
           f \in {{}, {"ACTIVE"}, bitflags} :
        /\ state = s /\ Updates(s, d, f) /\ (s = "ERROR" => d = 0)
        /\ (f = bitflags => d = dir \/ f = {})
        /\ UNCHANGED <<error, lostAge, sampleVars, captured, nominal>>
  BY DEF HandleIdle, HandleEnabled, HandleError, AwaitArc
<1>2. s \in States /\ d \in {-1, 0, 1} /\ f \in SUBSET Flags
  BY DEF IInv, TypeOK, States, Flags
<1>3. /\ error' \in {"NONE", "LOST_ARC"} /\ lostAge' \in {NotLost} \cup 0..(LostDelay + 1)
      /\ captured' \in BOOLEAN /\ nominal' \in Nat
      /\ sampling' \in BOOLEAN /\ count' \in 0..SampleSize /\ sum' \in Nat
      /\ sampleAge' \in 0..SampleDelay
  BY <1>1 DEF IInv, TypeOK, sampleVars
<1>4. d # 0 => s \in {"ARC_OK", "FROZEN"} \/ ovr # 0
  BY <1>1 DEF IInv, Safe, MovesOnlyUnderControl, Burning
<1>5. "AT_TARGET" \in f => d = 0
  BY <1>1 DEF IInv, Safe, AtTargetStopped
<1>6. /\ s = "ERROR" => error' # "NONE"
      /\ s \in {"ENABLED", "TORCH_ON", "ARC_OK", "FROZEN"} => error' = "NONE"
  BY <1>1 DEF IInv, Safe, ErrorConsistent
<1>7. state' = s /\ voltage' = voltage /\ dark' = dark
  BY <1>1, <1>2, UpdatesType DEF IInv
<1>8. WatchInv' BY <1>7, NotBurning DEF Burning
<1> QED BY <1>1, <1>2, <1>3, <1>4, <1>5, <1>6, <1>8, HandlerKeeps

LEMMA ArcHandler == ASSUME IInv, ArcEstablished PROVE IInv'
<1>1. Updates("ARC_OK", dir, bitflags) /\ state = "TORCH_ON" /\ ArcStands BY DEF ArcEstablished
<1>2. "ARC_OK" \in States /\ dir \in {-1, 0, 1} /\ bitflags \in SUBSET Flags
  BY DEF IInv, TypeOK, States
<1>3. /\ error' \in {"NONE", "LOST_ARC"} /\ lostAge' \in {NotLost} \cup 0..(LostDelay + 1)
      /\ captured' \in BOOLEAN /\ nominal' \in Nat
      /\ sampling' \in BOOLEAN /\ count' \in 0..SampleSize /\ sum' \in Nat
      /\ sampleAge' \in 0..SampleDelay
  <2>1. CASE smart
    <3>1. 0 \in 0..SampleSize /\ 0 \in 0..SampleDelay /\ 0 \in Nat BY ConstantAssumption
    <3>2. /\ UNCHANGED <<error, lostAge, nominal>>
          /\ sampling' = TRUE /\ count' = 0 /\ sum' = 0 /\ sampleAge' = 0 /\ captured' = FALSE
      BY <2>1 DEF ArcEstablished
    <3> QED BY <3>1, <3>2 DEF IInv, TypeOK
  <2>2. CASE ~smart BY <2>2 DEF ArcEstablished, IInv, TypeOK, sampleVars
  <2> QED BY <2>1, <2>2
<1>4. error' = "NONE" BY <1>1 DEF ArcEstablished, IInv, Safe, ErrorConsistent
<1>5. "AT_TARGET" \in bitflags => dir = 0 BY DEF IInv, Safe, AtTargetStopped
<1>6. state' = "ARC_OK" /\ voltage' = voltage /\ dark' = dark /\ pc' = "poll"
  BY <1>1, <1>2, UpdatesType DEF IInv
<1>7. WatchInv'
  <2>1. ~ArcOut' /\ dark' = 0 /\ voltage' = voltage
    BY <1>1, <1>6, ConstantAssumption DEF IInv, WatchInv, ArcOut, ArcStands, TypeOK
  <2> QED BY <1>6, <2>1, ConstantAssumption DEF WatchInv, Rested, MaxDark
<1> QED BY <1>1, <1>2, <1>3, <1>4, <1>5, <1>7, HandlerKeeps

\* The mean captured is a voltage.
LEMMA CaptureType == ASSUME IInv, Capture PROVE captured' \in BOOLEAN /\ nominal' \in Nat
<1>1. CASE Captures
  <2>1. sum \in Nat /\ count \in Nat \ {0}
    BY <1>1, ConstantAssumption DEF Captures, IInv, TypeOK
  <2> QED BY <1>1, <2>1, MeanType DEF Capture
<1>2. CASE ~Captures BY <1>2 DEF Capture, IInv, TypeOK
<1> QED BY <1>1, <1>2

\* A handler that watches the arc and does not give it up keeps the two times together.
LEMMA WatchKeeps ==
  ASSUME IInv, Burning, pc = "thc", ~LossRaised, WatchArc, pc' = "poll",
         voltage' = voltage, dark' = dark
  PROVE  WatchInv' /\ lostAge' \in {NotLost} \cup 0..(LostDelay + 1)
<1> USE ConstantAssumption
<1>1. /\ dark \in Nat /\ lostAge \in {NotLost} \cup 0..(LostDelay + 1)
      /\ voltage \in Nat /\ (~ArcOut => dark = 0) /\ ArcOut' = ArcOut
  BY DEF IInv, TypeOK, WatchInv, ArcOut
<1>2. CASE ~ArcOut
  <2>1. lostAge' = NotLost /\ dark' = 0 BY <1>1, <1>2 DEF WatchArc
  <2> QED BY <1>1, <1>2, <2>1 DEF WatchInv, NotLost, Rested
<1>3. CASE ArcOut /\ lostAge = NotLost
  <2>1. lostAge' = 0 BY <1>3 DEF WatchArc
  <2>2. dark <= MaxPass BY <1>3 DEF IInv, WatchInv, Rested
  <2> QED BY <1>1, <1>3, <2>1, <2>2 DEF WatchInv, NotLost, Rested
<1>4. CASE ArcOut /\ lostAge # NotLost
  <2>1. lostAge' = lostAge /\ lostAge \in 0..LostDelay
    BY <1>1, <1>4 DEF WatchArc, LossRaised, NotLost
  <2>2. dark <= lostAge + MaxPass BY <2>1 DEF IInv, WatchInv
  <2> QED BY <1>1, <1>4, <2>1, <2>2 DEF WatchInv, NotLost, Rested
<1> QED BY <1>2, <1>3, <1>4

LEMMA FreezeHandler == ASSUME IInv, Freeze PROVE IInv'
<1>1. /\ Updates("FROZEN", dir, bitflags) /\ Capture /\ WatchArc /\ ~LossRaised /\ state = "ARC_OK"
      /\ pc = "thc" /\ Burning
  BY DEF Freeze, Updates, Burning
<1>2. "FROZEN" \in States /\ dir \in {-1, 0, 1} /\ bitflags \in SUBSET Flags
  BY DEF IInv, TypeOK, States
<1>3. state' = "FROZEN" /\ voltage' = voltage /\ dark' = dark /\ pc' = "poll"
  BY <1>1, <1>2, UpdatesType DEF IInv
<1>4. WatchInv' /\ lostAge' \in {NotLost} \cup 0..(LostDelay + 1) BY <1>1, <1>3, WatchKeeps
<1>5. /\ error' \in {"NONE", "LOST_ARC"} /\ sampling' \in BOOLEAN /\ count' \in 0..SampleSize
      /\ sum' \in Nat /\ sampleAge' \in 0..SampleDelay
  BY DEF Freeze, IInv, TypeOK
<1>6. error' = "NONE" BY <1>1 DEF Freeze, IInv, Safe, ErrorConsistent
<1>7. "AT_TARGET" \in bitflags => dir = 0 BY DEF IInv, Safe, AtTargetStopped
<1> QED BY <1>1, <1>2, <1>4, <1>5, <1>6, <1>7, CaptureType, HandlerKeeps

LEMMA TrackHandler == ASSUME IInv, Track PROVE IInv'
<1> DEFINE d == Correction(nominal')
<1>1. /\ Updates("ARC_OK", d, MotionFlags(d)) /\ Capture /\ WatchArc /\ ~LossRaised
      /\ state = "ARC_OK" /\ pc = "thc" /\ Burning
  BY DEF Track, Updates, Burning
<1>2. d \in {-1, 0, 1} BY DEF Correction
<1>3. "ARC_OK" \in States /\ MotionFlags(d) \in SUBSET Flags /\ ("AT_TARGET" \in MotionFlags(d) => d = 0)
  BY <1>2, MotionFlagsType DEF States
<1> HIDE DEF d
<1>4. state' = "ARC_OK" /\ voltage' = voltage /\ dark' = dark /\ pc' = "poll"
  BY <1>1, <1>2, <1>3, UpdatesType DEF IInv
<1>5. WatchInv' /\ lostAge' \in {NotLost} \cup 0..(LostDelay + 1) BY <1>1, <1>4, WatchKeeps
<1>6. /\ error' \in {"NONE", "LOST_ARC"} /\ sampling' \in BOOLEAN /\ count' \in 0..SampleSize
      /\ sum' \in Nat /\ sampleAge' \in 0..SampleDelay
  BY DEF Track, IInv, TypeOK
<1>7. error' = "NONE" BY <1>1 DEF Track, IInv, Safe, ErrorConsistent
<1> QED BY <1>1, <1>2, <1>3, <1>5, <1>6, <1>7, CaptureType, HandlerKeeps

LEMMA StayFrozenHandler == ASSUME IInv, StayFrozen PROVE IInv'
<1> DEFINE f == {"ACTIVE", "ARC_OK"} \cup IF smart THEN {"SMART_MODE"} ELSE {}
<1>1. /\ Updates("FROZEN", dir, f) /\ WatchArc /\ ~LossRaised /\ state = "FROZEN"
      /\ pc = "thc" /\ Burning
  BY DEF StayFrozen, Updates, Burning
<1>2. "FROZEN" \in States /\ dir \in {-1, 0, 1} /\ f \in SUBSET Flags /\ "AT_TARGET" \notin f
  BY DEF IInv, TypeOK, States, Flags
<1> HIDE DEF f
<1>3. state' = "FROZEN" /\ voltage' = voltage /\ dark' = dark /\ pc' = "poll"
  BY <1>1, <1>2, UpdatesType DEF IInv
<1>4. WatchInv' /\ lostAge' \in {NotLost} \cup 0..(LostDelay + 1) BY <1>1, <1>3, WatchKeeps
<1>5. /\ error' \in {"NONE", "LOST_ARC"} /\ captured' \in BOOLEAN /\ nominal' \in Nat
      /\ sampling' \in BOOLEAN /\ count' \in 0..SampleSize
      /\ sum' \in Nat /\ sampleAge' \in 0..SampleDelay
  BY DEF StayFrozen, IInv, TypeOK, sampleVars
<1>6. error' = "NONE" BY <1>1 DEF StayFrozen, IInv, Safe, ErrorConsistent
<1> QED BY <1>1, <1>2, <1>4, <1>5, <1>6, HandlerKeeps

\* Thawing skips the watch for one pass, which the bound allows for.
LEMMA ThawHandler == ASSUME IInv, Thaw PROVE IInv'
<1>1. Updates("ARC_OK", dir, bitflags) /\ state = "FROZEN" /\ pc = "thc" BY DEF Thaw, Updates
<1>2. "ARC_OK" \in States /\ dir \in {-1, 0, 1} /\ bitflags \in SUBSET Flags
  BY DEF IInv, TypeOK, States
<1>3. /\ error' \in {"NONE", "LOST_ARC"} /\ lostAge' \in {NotLost} \cup 0..(LostDelay + 1)
      /\ captured' \in BOOLEAN /\ nominal' \in Nat
      /\ sampling' \in BOOLEAN /\ count' \in 0..SampleSize /\ sum' \in Nat
      /\ sampleAge' \in 0..SampleDelay
  BY DEF Thaw, IInv, TypeOK, sampleVars
<1>4. error' = "NONE" BY <1>1 DEF Thaw, IInv, Safe, ErrorConsistent
<1>5. "AT_TARGET" \in bitflags => dir = 0 BY DEF IInv, Safe, AtTargetStopped
<1>6. /\ state' = "ARC_OK" /\ voltage' = voltage /\ dark' = dark /\ pc' = "poll"
      /\ lostAge' = lostAge
  BY <1>1, <1>2, UpdatesType DEF IInv, Thaw
<1>7. WatchInv'
  <2>1. dark \in Nat /\ voltage \in Nat BY DEF IInv, TypeOK
  <2> QED BY <1>1, <1>6, <2>1, ConstantAssumption
          DEF IInv, WatchInv, Rested, Burning, ArcOut, MaxDark
<1> QED BY <1>1, <1>2, <1>3, <1>4, <1>5, <1>7, HandlerKeeps

LEMMA LossHandlers == ASSUME IInv, LoseArc \/ LoseFrozenArc PROVE IInv'
<1>1. Updates("ERROR", 0, bitflags) /\ SetError BY DEF LoseArc, LoseFrozenArc, SetError
<1>2. "ERROR" \in States /\ bitflags \in SUBSET Flags BY DEF IInv, TypeOK, States
<1>3. /\ lostAge' \in {NotLost} \cup 0..(LostDelay + 1)
      /\ sampling' \in BOOLEAN /\ count' \in 0..SampleSize /\ sum' \in Nat
      /\ sampleAge' \in 0..SampleDelay /\ error' = "LOST_ARC"
  BY <1>1 DEF SetError, IInv, TypeOK
<1>4. captured' \in BOOLEAN /\ nominal' \in Nat
  BY CaptureType DEF LoseArc, LoseFrozenArc, IInv, TypeOK
<1>5. state' = "ERROR" /\ voltage' = voltage /\ dark' = dark
  BY <1>1, <1>2, UpdatesType DEF IInv
<1>6. WatchInv' BY <1>5, NotBurning DEF Burning
<1> QED BY <1>1, <1>2, <1>3, <1>4, <1>6, HandlerKeeps

LEMMA HandleStep == ASSUME IInv, Handle PROVE IInv'
BY QuietHandlers, ArcHandler, FreezeHandler, TrackHandler, StayFrozenHandler, ThawHandler,
   LossHandlers DEF Handle

-----------------------------------------------------------------------------
\* The readings.

LEMMA BeginPassStep == ASSUME IInv, BeginPass PROVE IInv'
<1>1. TypeOK' BY TypeBeginPass DEF IInv
<1>2. UNCHANGED <<state, error, ovr, bitflags, dir>> BY DEF BeginPass
<1>3. Safe'
  BY <1>2 DEF IInv, Safe, MovesOnlyUnderControl, ErrorConsistent, AtTargetStopped, Burning
<1> QED BY <1>1, <1>3, WatchBeginPass DEF IInv

LEMMA UpdateSpeedStep == ASSUME IInv, UpdateSpeed PROVE IInv'
<1>1. TypeOK' BY TypeUpdateSpeed DEF IInv
<1>2. /\ UNCHANGED <<state, error, ovr, bitflags, dir, voltage, dark, lostAge>>
      /\ pc = "speed" /\ pc' = "thc"
  BY DEF UpdateSpeed
<1>3. Safe'
  BY <1>2 DEF IInv, Safe, MovesOnlyUnderControl, ErrorConsistent, AtTargetStopped, Burning
<1>4. ArcOut' = ArcOut /\ Burning' = Burning /\ ~Rested /\ ~Rested'
  BY <1>2 DEF ArcOut, Burning, Rested
<1>5. WatchInv' BY <1>2, <1>4 DEF IInv, WatchInv
<1> QED BY <1>1, <1>3, <1>5 DEF IInv

-----------------------------------------------------------------------------
\* The commands of the host.

\* A command that leaves the arc watched as it was, or watched no more, keeps WatchInv.
LEMMA WatchPolls ==
  ASSUME IInv, Polls,
         (UNCHANGED <<state, lostAge>>) \/ ~Burning'
  PROVE  WatchInv'
<1>1. pc = "poll" /\ pc' = "voltage" /\ voltage' = voltage /\ dark' = dark BY DEF Polls
<1>2. CASE ~Burning' BY <1>1, <1>2, NotBurning
<1>3. CASE UNCHANGED <<state, lostAge>>
  <2>1. ArcOut' = ArcOut /\ Burning' = Burning /\ Rested /\ Rested'
    BY <1>1, <1>3 DEF ArcOut, Burning, Rested
  <2> QED BY <1>1, <1>3, <2>1 DEF IInv, WatchInv
<1> QED BY <1>2, <1>3

\* Commands that change neither the state nor what the properties of a cut are about.
LEMMA PlainCommands ==
  ASSUME IInv, NoCommand \/ Override \/ OverrideStop \/ SetSmartMode \/ SetNominal
  PROVE  IInv'
<1>1. /\ Polls /\ UNCHANGED <<state, error, torchAge, lostAge, sampleVars, captured>>
      /\ pc' = "voltage" /\ UNCHANGED <<voltage, speedVars, dark>>
  BY DEF NoCommand, Override, OverrideStop, SetSmartMode, SetNominal, Polls, smartVars
<1>2. /\ ovr' \in {-1, 0, 1} /\ dir' \in {-1, 0, 1} /\ smart' \in BOOLEAN /\ nominal' \in Nat
      /\ bitflags' \in SUBSET Flags
      /\ dir' = 0 \/ (dir' = dir /\ (ovr = 0 \/ ovr' # 0))
      /\ "AT_TARGET" \in bitflags' => "AT_TARGET" \in bitflags
  <2>1. CASE NoCommand BY <2>1 DEF NoCommand, IInv, TypeOK, smartVars
  <2>2. CASE Override
    BY <2>2 DEF Override, IInv, TypeOK, smartVars, Flags
  <2>3. CASE OverrideStop BY <2>3 DEF OverrideStop, IInv, TypeOK, smartVars
  <2>4. CASE SetSmartMode BY <2>4 DEF SetSmartMode, IInv, TypeOK
  <2>5. CASE SetNominal BY <2>5, ConstantAssumption DEF SetNominal, IInv, TypeOK
  <2> QED BY <2>1, <2>2, <2>3, <2>4, <2>5
<1>3. TypeOK' BY <1>1, <1>2 DEF IInv, TypeOK, sampleVars, speedVars
<1>4. Safe'
  BY <1>1, <1>2 DEF IInv, Safe, MovesOnlyUnderControl, ErrorConsistent, AtTargetStopped, Burning,
                    TypeOK
<1>5. WatchInv' BY <1>1, WatchPolls
<1> QED BY <1>3, <1>4, <1>5 DEF IInv

\* Commands that change the state: none of them enters a cut.
LEMMA StateCommands ==
  ASSUME IInv, Enable \/ Disable \/ TorchOn \/ TorchOff \/ ClearError
  PROVE  IInv'
<1>1. /\ Polls /\ pc' = "voltage" /\ UNCHANGED <<voltage, speedVars, dark, nominal, smart>>
      /\ UNCHANGED <<count, sum, sampleAge, bitflags>>
  BY DEF Enable, Disable, TorchOn, TorchOff, ClearError, Polls, smartVars, sampleVars
<1>2. /\ state' \in States /\ error' \in {"NONE", "LOST_ARC"} /\ ovr' \in {-1, 0, 1}
      /\ torchAge' \in 0..OkDelay /\ lostAge' \in {NotLost} \cup 0..(LostDelay + 1)
      /\ captured' \in BOOLEAN /\ sampling' \in BOOLEAN /\ dir' \in {-1, 0, 1}
      /\ dir' = 0 \/ (dir' = dir /\ ovr' = ovr /\ (Burning => Burning'))
      /\ (UNCHANGED <<state, lostAge>>) \/ ~Burning'
      /\ ErrorConsistent'
  <2>1. CASE Enable
    BY <2>1 DEF Enable, IInv, TypeOK, States, Safe, ErrorConsistent, Burning, sampleVars, smartVars
  <2>2. CASE Disable
    BY <2>2 DEF Disable, IInv, TypeOK, States, ErrorConsistent, Burning, smartVars
  <2>3. CASE TorchOn
    <3>1. 0 \in 0..OkDelay BY ConstantAssumption
    <3> QED BY <2>3, <3>1
            DEF TorchOn, IInv, TypeOK, States, Safe, ErrorConsistent, Burning, sampleVars
  <2>4. CASE TorchOff
    BY <2>4 DEF TorchOff, IInv, TypeOK, States, Safe, ErrorConsistent, Burning, smartVars
  <2>5. CASE ClearError
    BY <2>5 DEF ClearError, IInv, TypeOK, States, Safe, ErrorConsistent, Burning, sampleVars,
                smartVars
  <2> QED BY <2>1, <2>2, <2>3, <2>4, <2>5
<1>3. TypeOK' BY <1>1, <1>2 DEF IInv, TypeOK, speedVars
<1>4. Safe' BY <1>1, <1>2 DEF IInv, Safe, MovesOnlyUnderControl, AtTargetStopped
<1>5. WatchInv' BY <1>1, <1>2, WatchPolls
<1> QED BY <1>3, <1>4, <1>5 DEF IInv

-----------------------------------------------------------------------------
\* The theorems.

LEMMA IInvInit == Init => IInv
<1> SUFFICES ASSUME Init PROVE IInv OBVIOUS
<1>1. Safe
  BY DEF Init, Safe, MovesOnlyUnderControl, ErrorConsistent, AtTargetStopped
<1>2. WatchInv BY DEF Init, WatchInv, Burning
<1> QED BY <1>1, <1>2, TypeInit DEF IInv

LEMMA IInvStep == IInv /\ [Next]_vars => IInv'
<1> SUFFICES ASSUME IInv, [Next]_vars PROVE IInv' OBVIOUS
<1>1. CASE BeginPass BY <1>1, BeginPassStep
<1>2. CASE UpdateSpeed BY <1>2, UpdateSpeedStep
<1>3. CASE Handle BY <1>3, HandleStep
<1>4. CASE HandleCommand BY <1>4, PlainCommands, StateCommands DEF HandleCommand
<1>5. CASE UNCHANGED vars
  <2>1. TypeOK' BY <1>5 DEF IInv, TypeOK, vars, sampleVars, speedVars, smartVars
  <2>2. Safe'
    BY <1>5 DEF IInv, Safe, MovesOnlyUnderControl, ErrorConsistent, AtTargetStopped, Burning, vars
  <2>3. WatchInv' BY <1>5 DEF IInv, WatchInv, ArcOut, Burning, Rested, vars
  <2> QED BY <2>1, <2>2, <2>3 DEF IInv
<1> QED BY <1>1, <1>2, <1>3, <1>4, <1>5 DEF Next

\* The inductive invariant holds in every reachable state.
THEOREM IInvHolds == Spec => []IInv
BY IInvInit, IInvStep, PTL DEF Spec

\* Every variable of the controller keeps its type, whatever the readings and the commands.
THEOREM TypeCorrect == Spec => []TypeOK
<1>1. IInv => TypeOK BY DEF IInv
<1> QED BY <1>1, IInvHolds, PTL

\* The Z axis is driven only in a cut or by an override: error, disable and torch-off stop it.
THEOREM ControlTheorem == Spec => []MovesOnlyUnderControl
<1>1. IInv => MovesOnlyUnderControl BY DEF IInv, Safe
<1> QED BY <1>1, IInvHolds, PTL

\* The state ERROR names its error, and a controller armed again has none.
THEOREM ErrorTheorem == Spec => []ErrorConsistent
<1>1. IInv => ErrorConsistent BY DEF IInv, Safe
<1> QED BY <1>1, IInvHolds, PTL

\* A reported target means a Z axis at rest, whatever the override does in between.
THEOREM TargetTheorem == Spec => []AtTargetStopped
<1>1. IInv => AtTargetStopped BY DEF IInv, Safe
<1> QED BY <1>1, IInvHolds, PTL

\* A lost arc is given up within LOST_ARC_DELAY and two passes of the loop, however often the
\* anti-dive freezes and thaws the controller meanwhile.
THEOREM LossTheorem == Spec => []LossCaught
<1>1. IInv => LossCaught
  <2> SUFFICES ASSUME IInv, Burning, pc = "poll" PROVE dark <= MaxDark BY DEF LossCaught
  <2> USE ConstantAssumption
  <2>1. dark \in Nat /\ (lostAge = NotLost \/ lostAge \in 0..LostDelay \/ lostAge = LostDelay + 1)
    BY DEF IInv, TypeOK
  <2>2. 0 <= MaxDark /\ LostDelay + MaxPass <= MaxDark BY DEF MaxDark
  <2>3. CASE ~ArcOut BY <2>2, <2>3 DEF IInv, WatchInv
  <2>4. CASE ArcOut /\ lostAge = NotLost BY <2>2, <2>4 DEF IInv, WatchInv, Rested
  <2>5. CASE lostAge \in 0..LostDelay
    BY <2>1, <2>5 DEF IInv, WatchInv, MaxDark
  <2>6. CASE lostAge = LostDelay + 1 BY <2>6 DEF IInv, WatchInv, Rested
  <2> QED BY <2>1, <2>3, <2>4, <2>5, <2>6
<1> QED BY <1>1, IInvHolds, PTL
=============================================================================
