---------------------------- MODULE ThcController ----------------------------
(***************************************************************************)
(* The torch height controller on the second processor (thc-firmware): the *)
(* state machine of THCController with what its handlers read and drive,   *)
(* the filtered arc voltage, the smart sampling of the nominal voltage,    *)
(* the speed history of the anti-dive and the direction of the Z axis.     *)
(*                                                                         *)
(* loop() is one thread: a pass updates the voltage, the speed and the     *)
(* controller, in this order, and then takes at most one host command.     *)
(* The environment chooses how long a pass takes, what voltage is read and *)
(* how many step pulses the machine made.                                  *)
(*                                                                         *)
(* Abstractions: a time stamp is the time since it was taken, which is all *)
(* the code computes from it, counted up to the limit it is compared with; *)
(* voltages are natural numbers; motion.update() turns the direction into  *)
(* step pulses and changes nothing else that is modelled.                  *)
(***************************************************************************)
EXTENDS Integers, SequencesExt

CONSTANTS
  Volts,          \* the filtered voltages that may be read
  ArcOkVolts, LostVolts, Tolerance,                     \* thresholds
  OkDelay, LostDelay, SampleDelay, CalcInterval,        \* delays
  SampleSize, HistorySize, Cutoff,
  Pulses,         \* step pulses the machine may make in an interval
  InitialMax,     \* the speed that counts as 100 percent at power-up
  Nominals,       \* the nominal voltages the host may set (VN)
  MaxPass         \* the longest time a pass may take

ASSUME ConstantAssumption ==
  /\ Volts \subseteq Nat /\ Nominals \subseteq Nat /\ Pulses \subseteq Nat
  /\ Nominals # {} /\ Volts # {}
  /\ ArcOkVolts \in Nat /\ LostVolts \in Nat /\ LostVolts <= ArcOkVolts
  /\ Tolerance \in Nat /\ OkDelay \in Nat /\ LostDelay \in Nat /\ SampleDelay \in Nat
  /\ CalcInterval \in Nat /\ SampleSize \in Nat \ {0} /\ HistorySize \in Nat \ {0}
  /\ Cutoff \in Nat /\ InitialMax \in Nat \ {0} /\ MaxPass \in Nat

VARIABLES
  state, error, ovr, bitflags,           \* THCController; ovr is the override direction
  torchAge, lostAge,                     \* torchOnTime, arcLostTime
  smart, captured,                       \* smartModeActive, nominalCaptured
  voltage, sampling, count, sum, sampleAge,   \* Voltage
  history, maxPulses, calcAge,           \* AntiDive
  dir,                                   \* Motion: +1 up, -1 down
  nominal,                               \* settings.data.nominalVoltage
  pc,                                    \* where loop() is
  dark                                   \* history: how long the arc has been out

sampleVars == <<sampling, count, sum, sampleAge>>
speedVars  == <<history, maxPulses, calcAge>>
smartVars  == <<smart, captured, nominal>>
vars == <<state, error, ovr, bitflags, torchAge, lostAge, voltage, sampleVars, speedVars,
          smartVars, dir, pc, dark>>

States  == {"IDLE", "ENABLED", "TORCH_ON", "ARC_OK", "FROZEN", "ERROR"}
Flags   == {"MOVING_UP", "AT_TARGET", "MOVING_DOWN", "ACTIVE", "SMART_MODE", "OVERRIDE", "ARC_OK"}
NotLost == -1
Burning == state \in {"ARC_OK", "FROZEN"}
MaxDark == LostDelay + 2 * MaxPass

TypeOK ==
  /\ state \in States /\ error \in {"NONE", "LOST_ARC"} /\ ovr \in {-1, 0, 1}
  /\ bitflags \in SUBSET Flags
  /\ torchAge \in 0..OkDelay /\ lostAge \in {NotLost} \cup 0..(LostDelay + 1)
  /\ smart \in BOOLEAN /\ captured \in BOOLEAN /\ nominal \in Nat
  /\ voltage \in Nat /\ sampling \in BOOLEAN /\ count \in 0..SampleSize /\ sum \in Nat
  /\ sampleAge \in 0..SampleDelay
  /\ history \in [1..HistorySize -> Nat] /\ maxPulses \in Nat \ {0} /\ calcAge \in 0..CalcInterval
  /\ dir \in {-1, 0, 1} /\ pc \in {"voltage", "speed", "thc", "poll"}
  /\ dark \in 0..(MaxDark + 1)

-----------------------------------------------------------------------------
\* The readings a pass starts with.

\* A time stamp of age a, d later; ages beyond the limit make no difference.
Older(a, d, limit) == IF a + d < limit THEN a + d ELSE limit

\* Voltage::update(): a reading every millisecond, collected once the sample delay is over.
CollectsTooMany == sampling /\ count <= SampleSize        \* mutant
Collects == sampling /\ count < SampleSize
ReadVoltage(v, d) ==
  /\ voltage' = v
  /\ sampleAge' = Older(sampleAge, d, SampleDelay)
  /\ IF Collects /\ sampleAge' = SampleDelay
     THEN sum' = sum + v /\ count' = count + 1 ELSE UNCHANGED <<sum, count>>
  /\ UNCHANGED sampling

\* A pass begins, d after the last one.
BeginPass ==
  /\ pc = "voltage" /\ pc' = "speed"
  /\ \E d \in 0..MaxPass :
       /\ \E v \in IF d = 0 THEN {voltage} ELSE Volts :
            /\ IF d = 0 THEN UNCHANGED <<voltage, sampleVars>> ELSE ReadVoltage(v, d)
            /\ dark' = IF Burning /\ v < LostVolts /\ voltage < LostVolts
                       THEN Older(dark, d, MaxDark + 1) ELSE 0
       /\ torchAge' = Older(torchAge, d, OkDelay)
       /\ lostAge' = IF lostAge = NotLost THEN NotLost ELSE Older(lostAge, d, LostDelay + 1)
       /\ calcAge' = Older(calcAge, d, CalcInterval)
  /\ UNCHANGED <<state, error, ovr, bitflags, history, maxPulses, smartVars, dir>>

\* AntiDive::update(): the pulses of the interval enter the history; the fastest interval
\* ever seen is the reference.
UpdateSpeed ==
  /\ pc = "speed" /\ pc' = "thc"
  /\ IF calcAge < CalcInterval THEN UNCHANGED speedVars
     ELSE \E speed \in Pulses :
            /\ history' = Append(Tail(history), speed)
            /\ maxPulses' = IF speed > maxPulses THEN speed ELSE maxPulses
            /\ calcAge' = 0
  /\ UNCHANGED <<state, error, ovr, bitflags, torchAge, lostAge, voltage, sampleVars, smartVars,
                 dir, dark>>

\* AntiDive::getCurrentSpeedPercent() and isBelowCutoff().
AverageSpeed == FoldSeq(LAMBDA x, y : x + y, 0, history) \div HistorySize
SpeedPercent == IF AverageSpeed >= maxPulses THEN 100 ELSE (AverageSpeed * 100) \div maxPulses
BelowCutoff  == SpeedPercent < Cutoff

-----------------------------------------------------------------------------
\* THCController::update(): the handler of the state, then the override.

\* updateBitflags(d).
MotionFlags(d) ==
  {"ACTIVE", "ARC_OK", CASE d > 0 -> "MOVING_UP" [] d < 0 -> "MOVING_DOWN" [] OTHER -> "AT_TARGET"}
    \cup (IF smart THEN {"SMART_MODE"} ELSE {}) \cup (IF ovr # 0 THEN {"OVERRIDE"} ELSE {})

\* The handler leaves state s, direction d and flags f; an override comes on top of it.
UpdatesQuietly(s, d, f) ==                                \* mutant
  /\ pc = "thc" /\ pc' = "poll" /\ state' = s /\ bitflags' = f
  /\ dir' = IF ovr # 0 /\ s # "ERROR" THEN ovr ELSE d
  /\ UNCHANGED <<ovr, torchAge, voltage, speedVars, smart, dark>>
Updates(s, d, f) ==
  /\ pc = "thc" /\ pc' = "poll" /\ state' = s
  /\ IF ovr # 0 /\ s # "ERROR" THEN dir' = ovr /\ bitflags' = MotionFlags(ovr)
                               ELSE dir' = d /\ bitflags' = f
  /\ UNCHANGED <<ovr, torchAge, voltage, speedVars, smart, dark>>

HandleIdle ==
  /\ state = "IDLE" /\ Updates("IDLE", dir, {})
  /\ UNCHANGED <<error, lostAge, sampleVars, captured, nominal>>

HandleEnabled ==
  /\ state = "ENABLED" /\ Updates("ENABLED", dir, {"ACTIVE"})
  /\ UNCHANGED <<error, lostAge, sampleVars, captured, nominal>>

HandleError ==
  /\ state = "ERROR" /\ Updates("ERROR", 0, {})
  /\ UNCHANGED <<error, lostAge, sampleVars, captured, nominal>>

\* handleTorchOn(): the arc counts once the delay is over and the voltage is up.
ArcStands == torchAge >= OkDelay /\ voltage >= ArcOkVolts
AwaitArc ==
  /\ state = "TORCH_ON" /\ ~ArcStands /\ Updates("TORCH_ON", dir, bitflags)
  /\ UNCHANGED <<error, lostAge, sampleVars, captured, nominal>>
ArcEstablished ==
  /\ state = "TORCH_ON" /\ ArcStands /\ Updates("ARC_OK", dir, bitflags)
  /\ IF smart
     THEN sampling' = TRUE /\ count' = 0 /\ sum' = 0 /\ sampleAge' = 0 /\ captured' = FALSE
     ELSE UNCHANGED <<sampleVars, captured>>
  /\ UNCHANGED <<error, lostAge, nominal>>

\* handleArcOk() first captures the mean of a completed sample as the nominal voltage.
Captures == smart /\ ~captured /\ count >= SampleSize
Capture ==
  IF Captures THEN captured' = TRUE /\ nominal' = sum \div count
              ELSE UNCHANGED <<captured, nominal>>

\* Arc loss, in handleArcOk() and handleFrozen(): raised when it has lasted.
ArcOut    == voltage < LostVolts
LossRaised == ArcOut /\ lostAge > LostDelay
WatchArc == lostAge' = IF ~ArcOut THEN NotLost ELSE IF lostAge = NotLost THEN 0 ELSE lostAge
SetError ==
  /\ error' = "LOST_ARC" /\ sampling' = FALSE /\ Updates("ERROR", 0, bitflags)
  /\ UNCHANGED <<lostAge, count, sum, sampleAge>>

LoseArc ==
  /\ state = "ARC_OK" /\ LossRaised /\ Capture /\ SetError

Freeze ==
  /\ state = "ARC_OK" /\ ~LossRaised /\ BelowCutoff
  /\ Capture /\ WatchArc /\ Updates("FROZEN", dir, bitflags)
  /\ sampling' = (sampling /\ ~Captures) /\ UNCHANGED <<error, count, sum, sampleAge>>

\* runControlLoop(), with the nominal voltage just captured.
Correction(n) ==
  CASE voltage > n + Tolerance -> 1 [] voltage + Tolerance < n -> -1 [] OTHER -> 0
Track ==
  /\ state = "ARC_OK" /\ ~LossRaised /\ ~BelowCutoff
  /\ Capture /\ WatchArc /\ Updates("ARC_OK", Correction(nominal'), MotionFlags(Correction(nominal')))
  /\ sampling' = (sampling /\ ~Captures) /\ UNCHANGED <<error, count, sum, sampleAge>>

\* handleFrozen(): a recovered speed thaws at once; else the arc is watched.
ThawAfresh ==                                             \* mutant
  /\ state = "FROZEN" /\ ~BelowCutoff /\ Updates("ARC_OK", dir, bitflags)
  /\ lostAge' = NotLost
  /\ UNCHANGED <<error, sampleVars, captured, nominal>>
Thaw ==
  /\ state = "FROZEN" /\ ~BelowCutoff /\ Updates("ARC_OK", dir, bitflags)
  /\ UNCHANGED <<error, lostAge, sampleVars, captured, nominal>>
LoseFrozenArc ==
  /\ state = "FROZEN" /\ BelowCutoff /\ LossRaised /\ SetError /\ UNCHANGED <<captured, nominal>>
StayFrozen ==
  /\ state = "FROZEN" /\ BelowCutoff /\ ~LossRaised /\ WatchArc
  /\ Updates("FROZEN", dir, {"ACTIVE", "ARC_OK"} \cup IF smart THEN {"SMART_MODE"} ELSE {})
  /\ UNCHANGED <<error, sampleVars, captured, nominal>>

-----------------------------------------------------------------------------
\* handleCommand(): at most one command of the host ends the pass.

Polls == pc = "poll" /\ pc' = "voltage" /\ UNCHANGED <<voltage, speedVars, dark>>

NoCommand ==
  /\ Polls
  /\ UNCHANGED <<state, error, ovr, bitflags, torchAge, lostAge, sampleVars, smartVars, dir>>

EnableKeepsError ==                                       \* mutant
  /\ Polls /\ state' = IF state \in {"IDLE", "ERROR"} THEN "ENABLED" ELSE state
  /\ error' = IF state = "ERROR" THEN "NONE" ELSE error
  /\ UNCHANGED <<ovr, bitflags, torchAge, lostAge, sampleVars, smartVars, dir>>
Enable ==
  /\ Polls
  /\ IF state \in {"IDLE", "ERROR"} THEN state' = "ENABLED" /\ error' = "NONE"
                                    ELSE UNCHANGED <<state, error>>
  /\ UNCHANGED <<ovr, bitflags, torchAge, lostAge, sampleVars, smartVars, dir>>

\* Neither the error code nor the flags change.
Disable ==
  /\ Polls /\ state' = "IDLE" /\ dir' = 0 /\ sampling' = FALSE /\ ovr' = 0
  /\ UNCHANGED <<error, bitflags, torchAge, lostAge, count, sum, sampleAge, smartVars>>

TorchOn ==
  /\ Polls
  /\ IF state = "ENABLED"
     THEN state' = "TORCH_ON" /\ torchAge' = 0 /\ lostAge' = NotLost /\ captured' = FALSE
     ELSE UNCHANGED <<state, torchAge, lostAge, captured>>
  /\ UNCHANGED <<error, ovr, bitflags, sampleVars, smart, nominal, dir>>

TorchOffMoving ==                                         \* mutant
  /\ Polls /\ sampling' = FALSE
  /\ state' = IF state = "TORCH_ON" \/ Burning THEN "ENABLED" ELSE state
  /\ UNCHANGED <<error, ovr, bitflags, torchAge, lostAge, count, sum, sampleAge, smartVars, dir>>
TorchOff ==
  /\ Polls /\ dir' = 0 /\ sampling' = FALSE
  /\ state' = IF state = "TORCH_ON" \/ Burning THEN "ENABLED" ELSE state
  /\ UNCHANGED <<error, ovr, bitflags, torchAge, lostAge, count, sum, sampleAge, smartVars>>

ClearError ==
  /\ Polls
  /\ IF state = "ERROR" THEN state' = "IDLE" /\ error' = "NONE" ELSE UNCHANGED <<state, error>>
  /\ UNCHANGED <<ovr, bitflags, torchAge, lostAge, sampleVars, smartVars, dir>>

Override ==
  /\ Polls /\ ovr' \in {-1, 1} /\ bitflags' = bitflags \cup {"OVERRIDE"}
  /\ UNCHANGED <<state, error, torchAge, lostAge, sampleVars, smartVars, dir>>

OverrideStop ==
  /\ Polls /\ ovr' = 0 /\ dir' = 0 /\ bitflags' = bitflags \ {"OVERRIDE"}
  /\ UNCHANGED <<state, error, torchAge, lostAge, sampleVars, smartVars>>

SetSmartMode ==
  /\ Polls /\ smart' \in BOOLEAN
  /\ UNCHANGED <<state, error, ovr, bitflags, torchAge, lostAge, sampleVars, captured, nominal, dir>>

SetNominal ==
  /\ Polls /\ nominal' \in Nominals
  /\ UNCHANGED <<state, error, ovr, bitflags, torchAge, lostAge, sampleVars, smart, captured, dir>>

-----------------------------------------------------------------------------
Init ==
  /\ state = "IDLE" /\ error = "NONE" /\ ovr = 0 /\ bitflags = {}
  /\ torchAge = OkDelay /\ lostAge = NotLost
  /\ smart \in BOOLEAN /\ captured = FALSE /\ nominal \in Nominals
  /\ voltage \in Volts /\ sampling = FALSE /\ count = 0 /\ sum = 0 /\ sampleAge = SampleDelay
  /\ history = [i \in 1..HistorySize |-> 0] /\ maxPulses = InitialMax /\ calcAge = 0
  /\ dir = 0 /\ pc = "voltage" /\ dark = 0

Handle == \/ HandleIdle \/ HandleEnabled \/ AwaitArc \/ ArcEstablished \/ LoseArc \/ Freeze
          \/ Track \/ Thaw \/ LoseFrozenArc \/ StayFrozen \/ HandleError
HandleCommand == \/ NoCommand \/ Enable \/ Disable \/ TorchOn \/ TorchOff \/ ClearError
                 \/ Override \/ OverrideStop \/ SetSmartMode \/ SetNominal
Next == BeginPass \/ UpdateSpeed \/ Handle \/ HandleCommand
Spec == Init /\ [][Next]_vars

-----------------------------------------------------------------------------
\* Properties.

\* The Z axis is driven only while an arc is tracked, or by an override: every way out of a
\* cut stops it (thc_controller.cpp:230, :258, :266, :276).
MovesOnlyUnderControl == dir # 0 => Burning \/ ovr # 0

\* An error is over when the controller is armed again; and every error says which it is
\* (thc_controller.cpp:236, :250).
ErrorConsistent ==
  /\ state = "ERROR" => error # "NONE"
  /\ state \in {"ENABLED", "TORCH_ON", "ARC_OK", "FROZEN"} => error = "NONE"

\* An arc that stays out is given up within the delay and two passes of the loop, however
\* often freezing and thawing interrupt the watch (thc_controller.cpp:128, :158).
LossCaught == Burning /\ pc = "poll" => dark <= MaxDark

\* The status never reports a torch at its target while the Z axis moves
\* (thc_controller.cpp:207).
AtTargetStopped == "AT_TARGET" \in bitflags => dir = 0

-----------------------------------------------------------------------------
\* Statements of the comments that the code does not keep.

\* thc_controller.cpp:149: "THC frozen due to low speed - don't adjust height".
FrozenHolds == pc = "poll" /\ state = "FROZEN" /\ ovr = 0 => dir = 0
=============================================================================
