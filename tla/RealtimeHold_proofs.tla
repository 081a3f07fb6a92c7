------------------------ MODULE RealtimeHold_proofs ------------------------
(***************************************************************************)
(* What the holds of RealtimeExec keep and give back, for every set of     *)
(* commands: until the first G38, blocks carry the torch state of the      *)
(* parser and a parked machine is de-energized; in programs that do not    *)
(* probe, a feed hold is left to the operator, and resuming from the door  *)
(* restores the torch and the coolant of the program.                      *)
(*                                                                         *)
(* The invariants rest on those of RealtimeMotion_proofs: that a suspend   *)
(* begins with nothing of an earlier one left, and that the states change  *)
(* under a completed hold only as the suspend states do.                   *)
(***************************************************************************)
EXTENDS RealtimeMotion_proofs

-----------------------------------------------------------------------------
\* The blocks of the planner carry the torch state of the parser: whatever changes it has
\* waited until the planner was empty.

BlocksInv ==
  ~abort =>
    /\ state \notin {"CHECK", "ALARM"} => \A i \in 1..Len(queue) : queue[i] = gc_spindle
    /\ pc = "synced" => queue = <<>>

\* mc_line() plans its block with the torch state of the parser.
LEMMA BlocksMcLine ==
  ASSUME IInv, ProbeFree, BlocksInv, McLine PROVE BlocksInv'
<1>1. /\ UNCHANGED <<gc_spindle, abort>> /\ pc' # "synced"
      /\ state' = state \/ (state = "IDLE" /\ state' = "JOG")
  BY McLineReturns DEF McLine, At, AutoStart, Call, Goto, Finish, gcVars
<1>2. queue' = queue \/ queue' = Append(queue, gc_spindle)
  BY DEF McLine
<1>3. queue \in Seq(BOOLEAN) /\ gc_spindle \in BOOLEAN
  BY DEF IInv, TypeOK, TypeMotion, TypeOutputs
<1> QED
  BY <1>1, <1>2, <1>3 DEF BlocksInv

LEMMA BlocksStep ==
  ASSUME IInv, ProbeFree, ~probed', ResetInv, SleepInv, StopInv, CalmInv, BlocksInv,
         [Next]_vars
  PROVE  BlocksInv'
<1> USE DEF sysVars, ovrVars, reqVars, outVars, gcVars, prepVars, isrVars, callVars
<1>1. CASE MainLoop
  <2>1. CASE Boot
    BY <2>1 DEF Boot, FlushMotion, Goto, BlocksInv
  <2>2. CASE Begin
    BY <2>2 DEF Begin, At, BootLock, Goto, BlocksInv, StopInv
  <2>3. CASE ReadLine
    BY <2>3 DEF ReadLine, Call, Goto, BlocksInv
  <2>4. CASE IdleLoop
    BY <2>4 DEF IdleLoop, AutoStart, Call, Goto, BlocksInv
  <2>5. CASE AfterLoop
    BY <2>5 DEF AfterLoop, Goto, BlocksInv
  <2>6. CASE Dispatch
    BY <2>6 DEF Dispatch, Goto, Locked, BlocksInv
  <2> QED
    BY <1>1, <2>1, <2>2, <2>3, <2>4, <2>5, <2>6 DEF MainLoop
<1>2. CASE ExecRtSystem
  <2>1. CASE RtAlarm
    BY <2>1 DEF RtAlarm, Goto, BlocksInv
  <2>2. CASE RtSoftLimit
    BY <2>2 DEF RtSoftLimit, Goto, BlocksInv
  <2>3. CASE RtFlags
    BY <2>3 DEF RtFlags, At, Goto, BlocksInv, IInv, TypeOK, TypeMotion, TypeControl, ResetInv,
         AfterFlags
  <2>4. CASE RtHold
    BY <2>4 DEF RtHold, At, Goto, HoldFlags, DoorState, HeldState, HeldSuspend, StartsHold,
         UpdatePlanBlock, DoorSuspend, Moving, BlocksInv, CalmInv, SleepInv, Dying
  <2>5. CASE RtStart
    BY <2>5 DEF RtStart, Starting, MayStart, RestoresSpindleFirst, StartCycle, Goto, DoorClosed,
         HoldFlags, DoorRestored, HasMotion, BlocksInv
  <2>6. CASE RtWake
    BY <2>6 DEF RtWake, WakeUp, Goto, BlocksInv
  <2>7. CASE RtStop
    BY <2>7 DEF RtStop, At, Goto, HoldCompletes, RtHoldComplete, RtMotionComplete,
         UpdatePlanBlock, FlushMotion, BlocksInv, StopInv, Running, StopPending, Scanning, Dying
  <2>8. CASE RtMotionOverride
    BY <2>8 DEF RtMotionOverride, Goto, UpdatePlanBlock, BlocksInv
  <2>9. CASE RtAccessoryOverride
    BY <2>9 DEF RtAccessoryOverride, Goto, SetSpindle, SetCoolant, BlocksInv
  <2>10. CASE RtDryRun
    BY <2>10 DEF RtDryRun, Goto, BlocksInv
  <2>11. CASE RtDone
    BY <2>11 DEF RtDone, Return, Goto, Poll, BlocksInv, IInv, TypeOK, TypeControl, CallPoints,
         Inner
  <2> QED
    BY <1>2, <2>1, <2>2, <2>3, <2>4, <2>5, <2>6, <2>7, <2>8, <2>9, <2>10, <2>11 DEF ExecRtSystem
<1>3. CASE PrepBuffer
  <2>1. CASE PrepSegment
    BY SMTT(60), <2>1 DEF PrepSegment, AtFill, FillDone, BlocksInv, IInv, Remaining, PrepInv,
         PartialBlockKept
  <2>2. CASE PrepHoldEnds
    BY <2>2 DEF PrepHoldEnds, AtFill, FillDone, Goto, AfterFill, BlocksInv
  <2>3. CASE PrepDone
    BY <2>3 DEF PrepDone, AtFill, FillDone, Goto, AfterFill, BlocksInv
  <2> QED
    BY <1>3, <2>1, <2>2, <2>3 DEF PrepBuffer
<1>4. CASE ExecRtSuspend
  BY <1>4 DEF ExecRtSuspend, SuspExit, SuspWait, SuspRetract, SuspSleep, SuspDoor, SuspHold,
       SuspRestoreSpindle, SuspRestoreCoolant, SuspResume, Return, Suspended, Poll, Parked,
       SetSpindle, SetCoolant, Goto, HoldComplete, Restoring, Delay, BlocksInv, IInv, TypeOK,
       TypeControl, CallPoints
<1>5. CASE LineOps
  BY <1>5 DEF LineOps, OpUnlock, OpCheckMode, OpSleep, OpSync, AfterSync, SpindleSynced,
       CoolantSynced, ProgramPause, ProgramEnd, OpReturns, Op, Finish, McReset, AutoStart, Call,
       At, Goto, Synced, SetSpindle, SetCoolant, InMotion, BlocksInv, CalmInv, Dying, SkipsSync,
       Redundant, IsSpindle, IsCoolant, Target
<1>6. CASE MotionOps
  <2>1. CASE OpMove
    BY <2>1 DEF OpMove, Op, Finish, Call, Goto, BlocksInv
  <2>2. CASE McLine
    BY <2>2, BlocksMcLine
  <2>3. CASE JogWake
    BY <2>3 DEF JogWake, WakeUp, Finish, Goto, BlocksInv
  <2>4. CASE OpSoftLimit
    BY <2>4 DEF OpSoftLimit, Op, Call, Goto, BlocksInv
  <2>5. CASE SoftWait
    BY <2>5 DEF SoftWait, Call, Goto, BlocksInv
  <2>6. CASE SoftKill
    BY <2>6 DEF SoftKill, McReset, Goto, InMotion, BlocksInv
  <2>7. CASE SoftAlarm
    BY <2>7 DEF SoftAlarm, Call, Goto, BlocksInv
  <2>8. CASE SoftReturns
    BY <2>8 DEF SoftReturns, Finish, Call, Goto, BlocksInv
  <2> QED
    BY <1>6, <2>1, <2>2, <2>3, <2>4, <2>5, <2>6, <2>7, <2>8, NoProbeSteps DEF MotionOps
<1>7. CASE SerialIsr \/ LimitIsr \/ StepperIsr
  BY <1>7, InterruptFrame DEF BlocksInv
<1>8. CASE UNCHANGED vars
  BY <1>8 DEF vars, BlocksInv
<1> QED
  BY <1>1, <1>2, <1>3, <1>4, <1>5, <1>6, <1>7, <1>8 DEF Next, Main

-----------------------------------------------------------------------------
\* Parking.  From the end of the retraction to the command that resumes, the machine is in the
\* door or the sleep state; only the restoring part of the suspend loop energizes it.

RestorePoints == {"susp.spindle", "susp.coolant", "susp.resume"}
ParkInv ==
  /\ ~abort /\ "RETRACT_COMPLETE" \in suspend => state \in {"DOOR", "SLEEP"} \/ Dying
  /\ ~abort /\ (pc \in RestorePoints \/ inner \in RestorePoints) /\ "RETRACT_COMPLETE" \in suspend
       => "INITIATE_RESTORE" \in suspend
  /\ ParkedDeEnergized

\* The requests of a hold, a door or sleep, which add up the suspend bits of several of them.
LEMMA ParkHold ==
  ASSUME ResetInv, CalmInv, ParkInv, RtHold PROVE ParkInv'
<1> USE DEF ParkInv, ParkedDeEnergized, RestorePoints, Dying
<1> USE DEF RtHold, At, Goto, sysVars, outVars, callVars
<1>1. ~abort /\ ~abort' /\ UNCHANGED <<inner, coolant>> /\ pc = "rt.hold" /\ pc' = "rt.start"
  BY DEF ResetInv, AfterFlags
<1>2. spindle' => spindle
  OBVIOUS
<1>3. "RETRACT_COMPLETE" \in suspend'
        => "RETRACT_COMPLETE" \in suspend \/ (state' = "SLEEP" /\ inner = "none")
  BY <1>1 DEF CalmInv, DoorSuspend, HeldSuspend
<1>4. "RETRACT_COMPLETE" \in suspend' \cap suspend => state' \in {"DOOR", "SLEEP"}
  BY <1>1 DEF DoorState, HeldState
<1>5. "RETRACT_COMPLETE" \in suspend' \cap suspend /\ state' = "DOOR" => state = "DOOR"
  BY <1>1 DEF DoorState, HeldState
<1>6. "RETRACT_COMPLETE" \in suspend' \cap suspend /\ "INITIATE_RESTORE" \in suspend
        => "INITIATE_RESTORE" \in suspend'
  BY <1>1 DEF DoorSuspend, HeldSuspend
<1>7. ~spindle /\ ~coolant => ~spindle' /\ ~coolant'
  BY <1>1, <1>2
<1>8. (pc' \in RestorePoints \/ inner' \in RestorePoints) /\ "RETRACT_COMPLETE" \in suspend'
        => "INITIATE_RESTORE" \in suspend'
  BY <1>1, <1>3, <1>6
<1> HIDE DEF RtHold
<1> QED
  BY <1>1, <1>3, <1>4, <1>5, <1>6, <1>7, <1>8

LEMMA ParkStep ==
  ASSUME IInv, ProbeFree, ~probed', ResetInv, SuspendInv, StopInv, CalmInv,
         DryRunTorchOff, ParkInv, [Next]_vars
  PROVE  ParkInv'
<1> USE DEF sysVars, ovrVars, reqVars, outVars, gcVars, prepVars, isrVars, callVars
<1>1. CASE MainLoop
  <2>1. CASE Boot
    BY <2>1 DEF Boot, FlushMotion, Goto, ParkInv, ParkedDeEnergized
  <2>2. CASE Begin
    BY <2>2 DEF Begin, At, BootLock, Goto, ParkInv, ParkedDeEnergized, SuspendInv, MainPoints
  <2>3. CASE ReadLine
    BY <2>3 DEF ReadLine, At, Call, Goto, ParkInv, ParkedDeEnergized, RestorePoints, Dying
  <2>4. CASE IdleLoop
    BY <2>4 DEF IdleLoop, At, AutoStart, Call, Goto, ParkInv, ParkedDeEnergized, RestorePoints,
         Dying
  <2>5. CASE AfterLoop
    BY <2>5 DEF AfterLoop, At, Goto, ParkInv, ParkedDeEnergized, RestorePoints, Dying
  <2>6. CASE Dispatch
    BY <2>6 DEF Dispatch, At, Goto, Locked, ParkInv, ParkedDeEnergized, RestorePoints, Dying
  <2> QED
    BY <1>1, <2>1, <2>2, <2>3, <2>4, <2>5, <2>6 DEF MainLoop
<1>2. CASE ExecRtSystem
  <2>1. CASE RtAlarm
    BY <2>1 DEF RtAlarm, At, Goto, ParkInv, ParkedDeEnergized, RestorePoints, Dying, ResetInv
  <2>2. CASE RtSoftLimit
    BY <2>2 DEF RtSoftLimit, Goto, ParkInv, ParkedDeEnergized, RestorePoints, Dying
  <2>3. CASE RtFlags
    BY <2>3 DEF RtFlags, At, Goto, ParkInv, ParkedDeEnergized, RestorePoints, Dying, IInv, TypeOK,
         TypeControl, ResetInv, AfterFlags, SuspendInv, Inner, TypeOutputs, TypeSystem,
         MainPoints, CallPoints, SuspendPoints, RtPoints
  <2>4. CASE RtHold
    BY <2>4, ParkHold
  <2>5. CASE RtStart
    BY <2>5 DEF RtStart, At, Starting, MayStart, RestoresSpindleFirst, StartCycle, Goto,
         DoorClosed, HoldFlags, DoorRestored, HasMotion, ParkInv, ParkedDeEnergized,
         RestorePoints, Dying
  <2>6. CASE RtWake
    BY <2>6 DEF RtWake, WakeUp, Goto, At, ParkInv, ParkedDeEnergized, RestorePoints, Dying
  <2>7. CASE RtStop
    BY <2>7 DEF RtStop, At, Goto, HoldCompletes, RtHoldComplete, RtMotionComplete,
         UpdatePlanBlock, FlushMotion, ParkInv, ParkedDeEnergized, RestorePoints, Dying, ResetInv,
         AfterFlags, StopInv, Running, StopPending, Scanning
  <2>8. CASE RtMotionOverride
    BY <2>8 DEF RtMotionOverride, At, Goto, UpdatePlanBlock, ParkInv, ParkedDeEnergized,
         RestorePoints, Dying
  <2>9. CASE RtAccessoryOverride
    BY <2>9 DEF RtAccessoryOverride, At, Goto, SetSpindle, SetCoolant, ParkInv, ParkedDeEnergized,
         RestorePoints, Dying
  <2>10. CASE RtDryRun
    BY <2>10 DEF RtDryRun, At, Goto, ParkInv, ParkedDeEnergized, RestorePoints, Dying, IInv,
         TypeOK, TypeOutputs
  <2>11. CASE RtDone
    BY <2>11 DEF RtDone, At, Return, Goto, Poll, ParkInv, ParkedDeEnergized, RestorePoints, Dying
  <2> QED
    BY <1>2, <2>1, <2>2, <2>3, <2>4, <2>5, <2>6, <2>7, <2>8, <2>9, <2>10, <2>11 DEF ExecRtSystem
<1>3. CASE PrepBuffer
  BY <1>3 DEF PrepBuffer, PrepSegment, PrepHoldEnds, PrepDone, AtFill, FillDone, Goto, AfterFill,
       ParkInv, ParkedDeEnergized, RestorePoints, Dying
<1>4. CASE ExecRtSuspend
  BY <1>4 DEF ExecRtSuspend, SuspExit, SuspWait, SuspRetract, SuspSleep, SuspDoor, SuspHold,
       SuspRestoreSpindle, SuspRestoreCoolant, SuspResume, At, Return, Suspended, Poll, Parked,
       SetSpindle, SetCoolant, Goto, HoldComplete, Restoring, Delay, ParkInv, ParkedDeEnergized,
       RestorePoints, Dying, SuspendInv, SuspendPoints, DryRunTorchOff
<1>5. CASE LineOps
  BY <1>5 DEF LineOps, OpUnlock, OpCheckMode, OpSleep, OpSync, AfterSync, SpindleSynced,
       CoolantSynced, ProgramPause, ProgramEnd, OpReturns, Op, Finish, McReset, AutoStart, Call,
       At, Goto, Synced, SetSpindle, SetCoolant, InMotion, ParkInv, ParkedDeEnergized, SuspendInv,
       MainPoints, CallPoints
<1>6. CASE MotionOps
  BY <1>6, NoProbeSteps, McLineReturns DEF MotionOps, OpMove, McLine, JogWake, OpSoftLimit,
       SoftWait, SoftKill, SoftAlarm, SoftReturns, Op, Finish, Call, At, AutoStart,
       UpdatePlanBlock, WakeUp, Goto, McReset, Synced, FlushMotion, InMotion, ParkInv,
       ParkedDeEnergized, RestorePoints, Dying
<1>7. CASE StepperIsr
  BY <1>7, NoProbeSteps DEF StepperIsr, StepSegment, StepEmpty, ParkInv, ParkedDeEnergized, Dying
<1>8. CASE SerialIsr
  BY <1>8 DEF SerialIsr, McReset, Request, Override, InMotion, ParkInv, ParkedDeEnergized, Dying
<1>9. CASE LimitIsr
  BY <1>9 DEF LimitIsr, InMotion, ParkInv, ParkedDeEnergized, Dying
<1>10. CASE UNCHANGED vars
  BY <1>10 DEF vars, ParkInv, ParkedDeEnergized, Dying
<1> QED
  BY <1>1, <1>2, <1>3, <1>4, <1>5, <1>6, <1>7, <1>8, <1>9, <1>10 DEF Next, Main

-----------------------------------------------------------------------------
\* Cycle starts.  When the operator sends none, those that are requested are the automatic
\* ones, each taken by the next real-time execution, and that execution finds no completed hold
\* unless its own requests have just made one.

Starts == "CYCLE_START" \in flags \/ (pc \in {"rt.hold", "rt.start"} /\ "CYCLE_START" \in rt)
OnlyAuto ==
  ~abort =>
    /\ "CYCLE_START" \in flags => pc \in MainPoints \cup CallPoints \cup
                                    {"rt.alarm", "rt.soft", "rt.flags", "rt.hold", "rt.start"}
    /\ "CYCLE_START" \in flags /\ pc \in {"rt.hold", "rt.start"} => "CYCLE_START" \in rt
    /\ "HOLD_COMPLETE" \in suspend /\ Starts =>
         /\ pc = "rt.start"
         /\ state = "SLEEP" \/ rt \cap {"MOTION_CANCEL", "FEED_HOLD", "SAFETY_DOOR"} # {}
    /\ "INITIATE_RESTORE" \notin suspend /\ "RESTORE_CYCLE" \notin stop_ovr
    /\ pc \notin RestorePoints /\ inner \notin RestorePoints

LEMMA OnlyAutoStep ==
  ASSUME "start" \notin RtCommands, IInv, ProbeFree, ~probed', ResetInv, SuspendInv,
         StopInv, OnlyAuto, [Next]_vars
  PROVE  OnlyAuto'
<1> USE DEF sysVars, ovrVars, reqVars, outVars, gcVars, prepVars, isrVars, callVars
<1>1. CASE MainLoop
  BY <1>1 DEF MainLoop, Boot, Begin, ReadLine, IdleLoop, AfterLoop, Dispatch, At, FlushMotion,
       Goto, BootLock, Call, AutoStart, Locked, OnlyAuto, Starts, RestorePoints, SuspendInv,
       MainPoints, CallPoints, SuspendPoints, RtPoints
<1>2. CASE ExecRtSystem
  <2>1. CASE RtAlarm
    BY <2>1 DEF RtAlarm, At, Goto, OnlyAuto, Starts, RestorePoints
  <2>2. CASE RtSoftLimit
    BY <2>2 DEF RtSoftLimit, At, Goto, OnlyAuto, Starts, RestorePoints
  <2>3. CASE RtFlags
    BY <2>3 DEF RtFlags, At, Goto, OnlyAuto, Starts, RestorePoints, SuspendInv, MainPoints,
         CallPoints, SuspendPoints, RtPoints, IInv, TypeOK, TypeControl, ResetInv, AfterFlags,
         Inner
  <2>4. CASE RtHold
    BY <2>4 DEF RtHold, At, Goto, HoldFlags, DoorState, HeldState, HeldSuspend, StartsHold,
         UpdatePlanBlock, DoorSuspend, Moving, OnlyAuto, Starts, RestorePoints
  <2>5. CASE RtStart
    BY <2>5 DEF RtStart, At, Starting, MayStart, RestoresSpindleFirst, StartCycle, Goto,
         DoorClosed, HoldFlags, DoorRestored, HasMotion, OnlyAuto, Starts, RestorePoints, StopInv
  <2>6. CASE RtWake
    BY <2>6 DEF RtWake, WakeUp, Goto, At, OnlyAuto, Starts, RestorePoints, MainPoints, CallPoints
  <2>7. CASE RtStop
    BY <2>7 DEF RtStop, At, Goto, HoldCompletes, RtHoldComplete, RtMotionComplete,
         UpdatePlanBlock, FlushMotion, OnlyAuto, Starts, RestorePoints, MainPoints, CallPoints
  <2>8. CASE RtMotionOverride
    BY <2>8 DEF RtMotionOverride, At, Goto, UpdatePlanBlock, OnlyAuto, Starts, RestorePoints,
         MainPoints, CallPoints
  <2>9. CASE RtAccessoryOverride
    BY <2>9 DEF RtAccessoryOverride, At, Goto, SetSpindle, SetCoolant, OnlyAuto, Starts,
         RestorePoints, MainPoints, CallPoints
  <2>10. CASE RtDryRun
    BY <2>10 DEF RtDryRun, At, Goto, OnlyAuto, Starts, RestorePoints, MainPoints, CallPoints
  <2>11. CASE RtDone
    BY <2>11 DEF RtDone, At, Return, Goto, Poll, OnlyAuto, Starts, RestorePoints, MainPoints,
         CallPoints, IInv, TypeOK, TypeControl
  <2> QED
    BY <1>2, <2>1, <2>2, <2>3, <2>4, <2>5, <2>6, <2>7, <2>8, <2>9, <2>10, <2>11 DEF ExecRtSystem
<1>3. CASE PrepBuffer
  BY <1>3 DEF PrepBuffer, PrepSegment, PrepHoldEnds, PrepDone, AtFill, FillDone, Goto, AfterFill,
       OnlyAuto, Starts, RestorePoints, MainPoints, CallPoints
<1>4. CASE ExecRtSuspend
  BY <1>4 DEF ExecRtSuspend, SuspExit, SuspWait, SuspRetract, SuspSleep, SuspDoor, SuspHold,
       SuspRestoreSpindle, SuspRestoreCoolant, SuspResume, At, Return, Suspended, Poll, Parked,
       SetSpindle, SetCoolant, Goto, HoldComplete, Restoring, Delay, OnlyAuto, Starts,
       RestorePoints, CallPoints, IInv, TypeOK, TypeControl
<1>5. CASE LineOps
  BY <1>5 DEF LineOps, OpUnlock, OpCheckMode, OpSleep, OpSync, AfterSync, SpindleSynced,
       CoolantSynced, ProgramPause, ProgramEnd, OpReturns, Op, Finish, McReset, AutoStart, Call,
       At, Goto, Synced, SetSpindle, SetCoolant, InMotion, OnlyAuto, Starts, RestorePoints,
       SuspendInv, MainPoints
<1>6. CASE MotionOps
  BY <1>6, NoProbeSteps, McLineReturns DEF MotionOps, OpMove, McLine, JogWake, OpSoftLimit,
       SoftWait, SoftKill, SoftAlarm, SoftReturns, Op, Finish, Call, At, AutoStart,
       UpdatePlanBlock, WakeUp, Goto, McReset, Synced, FlushMotion, InMotion, OnlyAuto,
       RestorePoints, SuspendInv, MainPoints, CallPoints
<1>7. CASE SerialIsr \/ LimitIsr \/ StepperIsr
  BY <1>7, InterruptFrame DEF OnlyAuto, Starts
<1>8. CASE UNCHANGED vars
  BY <1>8 DEF vars, OnlyAuto, Starts
<1> QED
  BY <1>1, <1>2, <1>3, <1>4, <1>5, <1>6, <1>7, <1>8 DEF Next, Main

-----------------------------------------------------------------------------
\* The door.  Three real-time commands change what a door restores while it does so: a feed
\* hold switches the torch off again, the coolant toggle and the dry run change what is to be
\* restored.  Without them, what the suspend loop saved when it was entered is what the program
\* has set, to the end of the suspend.

Steady == {"hold", "flood", "dryrun"} \cap RtCommands = {}

\* A feed hold requested by the program (M0, a soft limit) is taken before anything suspends.
FeedInv ==
  ~abort =>
    /\ "FEED_HOLD" \in flags =>
         /\ suspend = {} /\ inner = "none"
         /\ pc \in MainPoints \cup CallPoints \cup {"rt.alarm", "rt.soft", "rt.flags", "rt.hold"}
    /\ "FEED_HOLD" \in flags /\ pc = "rt.hold" => "FEED_HOLD" \in rt
    /\ "FEED_HOLD" \in rt /\ pc = "rt.hold" => suspend = {} /\ inner = "none"

\* No dry run and no coolant toggle is requested.
AsSet == ~dry_req /\ ~dry_run /\ "FLOOD" \notin acc_ovr

\* The order of the door's suspend bits.
DoorBits == {"RETRACT_COMPLETE", "RESTART_RETRACT", "INITIATE_RESTORE", "RESTORE_COMPLETE"}
DoorInv ==
  ~abort =>
    /\ suspend \cap DoorBits # {} =>
         /\ "HOLD_COMPLETE" \in suspend
         /\ state \in {"DOOR", "SLEEP"} \/ Dying
         /\ state = "SLEEP" \/ Dying \/ inner # "none"
    /\ "RESTORE_COMPLETE" \in suspend => {"RETRACT_COMPLETE", "INITIATE_RESTORE"} \subseteq suspend
    /\ pc \in RestorePoints \/ inner \in RestorePoints =>
         Dying \/ "RESTART_RETRACT" \in suspend
               \/ {"RETRACT_COMPLETE", "INITIATE_RESTORE"} \subseteq suspend
    /\ state = "CHECK" /\ pc # "begin" => suspend = {}

\* Once it has been restored, the cycle start of its own request resumes the machine at once,
\* before the suspend loop can restore it a second time.
ResumePoints == {"rt.alarm", "rt.soft", "rt.flags", "rt.hold", "rt.start"}
ResumeInv ==
  ~abort =>
    /\ "INITIATE_RESTORE" \in suspend /\ state # "SLEEP" /\ ~Dying =>
         /\ "DOOR_AJAR" \notin suspend /\ "MOTION_CANCEL" \notin flags
         /\ pc = "rt.hold" => "MOTION_CANCEL" \notin rt
    /\ pc \in {"rt.hold", "rt.start"} /\ "MOTION_CANCEL" \in flags =>
         state = "JOG" \/ (pc = "rt.hold" /\ "MOTION_CANCEL" \in rt)
    /\ "RESTORE_COMPLETE" \in suspend /\ state # "SLEEP" /\ ~Dying =>
         /\ inner = "suspend" /\ pc \in ResumePoints /\ "CYCLE_START" \in flags
         /\ pc = "rt.hold" => "CYCLE_START" \in rt
         /\ pc = "rt.start" => Starting

\* Not on the way to the re-initialization, and in a state in which outputs follow the program.
Live == ~abort /\ "RESET" \notin flags /\ pc # "rt.soft"
        /\ (state \notin {"CHECK", "SLEEP"} \/ pc = "begin")
RestoredTo(p) == (pc = p \/ inner = p) /\ "RESTART_RETRACT" \notin suspend
RestoreInv ==
  Live =>
    /\ spindle => gc_spindle
    /\ coolant => gc_coolant
    /\ suspend \cap {"RETRACT_COMPLETE", "RESTART_RETRACT"} = {} => coolant = gc_coolant
    /\ inner # "none" => restore.spindle = gc_spindle /\ restore.coolant = gc_coolant
    /\ RestoredTo("susp.coolant") \/ RestoredTo("susp.resume") \/ "RESTORE_COMPLETE" \in suspend
         => spindle = gc_spindle
    /\ RestoredTo("susp.resume") \/ "RESTORE_COMPLETE" \in suspend => coolant = gc_coolant

LEMMA SteadyCommands ==
  ASSUME Steady PROVE "hold" \notin RtCommands /\ "flood" \notin RtCommands /\ "dryrun" \notin RtCommands
  BY DEF Steady

LEMMA FeedStep ==
  ASSUME Steady, IInv, ProbeFree, ~probed', ResetInv, SuspendInv, FeedInv, [Next]_vars
  PROVE  FeedInv'
<1> USE DEF sysVars, ovrVars, reqVars, outVars, gcVars, prepVars, isrVars, callVars
<1>1. CASE MainLoop
  BY <1>1 DEF MainLoop, Boot, Begin, ReadLine, IdleLoop, AfterLoop, Dispatch, At, FlushMotion,
       Goto, BootLock, Call, AutoStart, Locked, FeedInv, SuspendInv, MainPoints, CallPoints,
       SuspendPoints, RtPoints
<1>2. CASE ExecRtSystem
  <2>1. CASE RtAlarm
    BY <2>1 DEF RtAlarm, Goto, FeedInv
  <2>2. CASE RtSoftLimit
    BY <2>2 DEF RtSoftLimit, Goto, FeedInv
  <2>3. CASE RtFlags
    BY <2>3 DEF RtFlags, At, Goto, FeedInv, IInv, TypeOK, TypeControl, ResetInv, AfterFlags,
         SuspendInv, Inner, MainPoints, CallPoints, SuspendPoints, RtPoints
  <2>4. CASE RtHold
    BY <2>4 DEF RtHold, At, Goto, HoldFlags, DoorState, HeldState, HeldSuspend, StartsHold,
         UpdatePlanBlock, DoorSuspend, Moving, FeedInv
  <2>5. CASE RtStart
    BY <2>5 DEF RtStart, At, Starting, MayStart, RestoresSpindleFirst, StartCycle, Goto,
         DoorClosed, HoldFlags, DoorRestored, HasMotion, FeedInv, MainPoints, CallPoints
  <2>6. CASE RtWake
    BY <2>6 DEF RtWake, WakeUp, Goto, At, FeedInv, MainPoints, CallPoints
  <2>7. CASE RtStop
    BY <2>7 DEF RtStop, At, Goto, HoldCompletes, RtHoldComplete, RtMotionComplete,
         UpdatePlanBlock, FlushMotion, FeedInv, MainPoints, CallPoints
  <2>8. CASE RtMotionOverride
    BY <2>8 DEF RtMotionOverride, At, Goto, UpdatePlanBlock, FeedInv, MainPoints, CallPoints
  <2>9. CASE RtAccessoryOverride
    BY <2>9 DEF RtAccessoryOverride, At, Goto, SetSpindle, SetCoolant, FeedInv, MainPoints,
         CallPoints
  <2>10. CASE RtDryRun
    BY <2>10 DEF RtDryRun, At, Goto, FeedInv, MainPoints, CallPoints
  <2>11. CASE RtDone
    BY <2>11 DEF RtDone, At, Return, Goto, Poll, FeedInv, MainPoints, CallPoints
  <2> QED
    BY <1>2, <2>1, <2>2, <2>3, <2>4, <2>5, <2>6, <2>7, <2>8, <2>9, <2>10, <2>11 DEF ExecRtSystem
<1>3. CASE PrepBuffer
  BY <1>3 DEF PrepBuffer, PrepSegment, PrepHoldEnds, PrepDone, AtFill, FillDone, Goto, AfterFill,
       FeedInv, MainPoints, CallPoints
<1>4. CASE ExecRtSuspend
  BY <1>4 DEF ExecRtSuspend, SuspExit, SuspWait, SuspRetract, SuspSleep, SuspDoor, SuspHold,
       SuspRestoreSpindle, SuspRestoreCoolant, SuspResume, At, Return, Suspended, Poll, Parked,
       SetSpindle, SetCoolant, Goto, HoldComplete, Restoring, Delay, FeedInv, MainPoints,
       CallPoints
<1>5. CASE LineOps
  BY <1>5 DEF LineOps, OpUnlock, OpCheckMode, OpSleep, OpSync, AfterSync, SpindleSynced,
       CoolantSynced, ProgramPause, ProgramEnd, OpReturns, Op, Finish, McReset, AutoStart, Call,
       At, Goto, Synced, SetSpindle, SetCoolant, InMotion, FeedInv, SuspendInv, MainPoints
<1>6. CASE MotionOps
  BY <1>6, NoProbeSteps, McLineReturns DEF MotionOps, OpMove, McLine, JogWake, OpSoftLimit,
       SoftWait, SoftKill, SoftAlarm, SoftReturns, Op, Finish, Call, At, AutoStart,
       UpdatePlanBlock, WakeUp, Goto, McReset, Synced, FlushMotion, InMotion, FeedInv, SuspendInv,
       MainPoints
<1>7. CASE StepperIsr
  BY <1>7, NoProbeSteps DEF StepperIsr, StepSegment, StepEmpty, FeedInv
<1>8. CASE SerialIsr
  BY <1>8, SteadyCommands DEF SerialIsr, McReset, Request, Override, InMotion, FeedInv
<1>9. CASE LimitIsr
  BY <1>9 DEF LimitIsr, InMotion, FeedInv
<1>10. CASE UNCHANGED vars
  BY <1>10 DEF vars, FeedInv
<1> QED
  BY <1>1, <1>2, <1>3, <1>4, <1>5, <1>6, <1>7, <1>8, <1>9, <1>10 DEF Next, Main

LEMMA AsSetDryRun ==
  ASSUME IInv, AsSet, RtDryRun PROVE AsSet' /\ UNCHANGED spindle
<1>1. /\ dry_run' = (dry_run # dry_req) /\ dry_req' = FALSE /\ acc_ovr' = acc_ovr
      /\ spindle' = (spindle /\ ~(dry_req /\ ~dry_run))
  BY DEF RtDryRun
<1>2. dry_run \in BOOLEAN /\ dry_req \in BOOLEAN /\ spindle \in BOOLEAN
  BY DEF IInv, TypeOK, TypeOutputs, TypeRequests
<1>3. dry_run = FALSE /\ dry_req = FALSE
  BY <1>2 DEF AsSet
<1>4. dry_run' = FALSE /\ spindle' = spindle
  BY <1>1, <1>2, <1>3, Zenon
<1> QED
  BY <1>1, <1>3, <1>4 DEF AsSet

LEMMA AsSetBegin ==
  ASSUME AsSet, Begin PROVE AsSet'
<1>1. UNCHANGED <<acc_ovr, dry_req, dry_run>>
  BY DEF Begin, reqVars, ovrVars, gcVars
<1> QED
  BY <1>1 DEF AsSet

LEMMA AsSetSerial ==
  ASSUME Steady, IInv, AsSet, SerialIsr PROVE AsSet'
<1>1. dry_run' = dry_run
  BY DEF SerialIsr, gcVars
<1>2. \/ UNCHANGED ovrVars
      \/ \E m \in BOOLEAN, a \in {{}, {"SPEED"}, {"STOP"}} : Override(m, a, FALSE)
  BY SteadyCommands DEF SerialIsr, Request, ovrVars
<1>3. dry_req' = (dry_req \/ FALSE) \/ dry_req' = dry_req
  BY <1>2 DEF Override, ovrVars
<1>4. "FLOOD" \in acc_ovr' => "FLOOD" \in acc_ovr
  BY <1>2 DEF Override, ovrVars
<1>5. dry_req = FALSE /\ dry_run = FALSE
  BY DEF AsSet, IInv, TypeOK, TypeRequests, TypeOutputs
<1>6. dry_req' = FALSE
  BY <1>3, <1>5
<1> QED
  BY <1>1, <1>4, <1>5, <1>6 DEF AsSet

LEMMA AsSetStep ==
  ASSUME Steady, IInv, ProbeFree, ~probed', AsSet, [Next]_vars
  PROVE  AsSet'
<1> USE DEF sysVars, ovrVars, reqVars, outVars, gcVars, prepVars, isrVars, callVars
<1>1. CASE MainLoop
  <2>1. CASE Boot
    BY <2>1 DEF Boot, FlushMotion, Goto, AsSet
  <2>2. CASE Begin
    BY <2>2, AsSetBegin
  <2>3. CASE ReadLine
    BY <2>3 DEF ReadLine, Call, Goto, AsSet
  <2>4. CASE IdleLoop
    BY <2>4 DEF IdleLoop, AutoStart, Call, Goto, AsSet
  <2>5. CASE AfterLoop
    BY <2>5 DEF AfterLoop, Goto, AsSet
  <2>6. CASE Dispatch
    BY <2>6 DEF Dispatch, Goto, Locked, AsSet
  <2> QED
    BY <1>1, <2>1, <2>2, <2>3, <2>4, <2>5, <2>6 DEF MainLoop
<1>2. CASE ExecRtSystem
  <2>1. CASE RtAlarm
    BY <2>1 DEF RtAlarm, Goto, AsSet
  <2>2. CASE RtSoftLimit
    BY <2>2 DEF RtSoftLimit, Goto, AsSet
  <2>3. CASE RtFlags
    BY <2>3 DEF RtFlags, Goto, AsSet
  <2>4. CASE RtHold
    BY <2>4 DEF RtHold, Goto, HoldFlags, DoorState, HeldState, HeldSuspend, StartsHold,
         UpdatePlanBlock, DoorSuspend, Moving, AsSet
  <2>5. CASE RtStart
    BY <2>5 DEF RtStart, Starting, MayStart, RestoresSpindleFirst, StartCycle, Goto, DoorClosed,
         HoldFlags, DoorRestored, HasMotion, AsSet
  <2>6. CASE RtWake
    BY <2>6 DEF RtWake, WakeUp, Goto, AsSet
  <2>7. CASE RtStop
    BY <2>7 DEF RtStop, Goto, HoldCompletes, RtHoldComplete, RtMotionComplete, UpdatePlanBlock,
         FlushMotion, AsSet
  <2>8. CASE RtMotionOverride
    BY <2>8 DEF RtMotionOverride, Goto, UpdatePlanBlock, AsSet
  <2>9. CASE RtAccessoryOverride
    BY <2>9 DEF RtAccessoryOverride, Goto, SetSpindle, SetCoolant, AsSet
  <2>10. CASE RtDryRun
    BY <2>10, AsSetDryRun
  <2>11. CASE RtDone
    BY <2>11 DEF RtDone, Return, Goto, Poll, AsSet
  <2> QED
    BY <1>2, <2>1, <2>2, <2>3, <2>4, <2>5, <2>6, <2>7, <2>8, <2>9, <2>10, <2>11 DEF ExecRtSystem
<1>3. CASE PrepBuffer
  BY <1>3 DEF PrepBuffer, PrepSegment, PrepHoldEnds, PrepDone, AtFill, FillDone, Goto, AfterFill,
       AsSet
<1>4. CASE ExecRtSuspend
  BY <1>4 DEF ExecRtSuspend, SuspExit, SuspWait, SuspRetract, SuspSleep, SuspDoor, SuspHold,
       SuspRestoreSpindle, SuspRestoreCoolant, SuspResume, Return, Suspended, Poll, Parked,
       SetSpindle, SetCoolant, Goto, HoldComplete, Restoring, Delay, AsSet
<1>5. CASE LineOps
  BY <1>5 DEF LineOps, OpUnlock, OpCheckMode, OpSleep, OpSync, AfterSync, SpindleSynced,
       CoolantSynced, ProgramPause, ProgramEnd, OpReturns, Op, Finish, McReset, AutoStart, Call,
       Goto, Synced, SetSpindle, SetCoolant, InMotion, AsSet
<1>6. CASE MotionOps
  BY <1>6, NoProbeSteps DEF MotionOps, OpMove, McLine, JogWake, OpSoftLimit, SoftWait, SoftKill,
       SoftAlarm, SoftReturns, Op, Finish, Call, AutoStart, UpdatePlanBlock, WakeUp, Goto,
       McReset, Synced, FlushMotion, InMotion, AsSet
<1>7. CASE StepperIsr
  BY <1>7, NoProbeSteps DEF StepperIsr, StepSegment, StepEmpty, AsSet
<1>8. CASE SerialIsr
  BY <1>8, AsSetSerial
<1>9. CASE LimitIsr
  BY <1>9 DEF LimitIsr, InMotion, AsSet
<1>10. CASE UNCHANGED vars
  BY <1>10 DEF vars, AsSet
<1> QED
  BY <1>1, <1>2, <1>3, <1>4, <1>5, <1>6, <1>7, <1>8, <1>9, <1>10 DEF Next, Main

\* The requests of a hold: a restoration in progress is interrupted by the door only.
LEMMA ResumeHold ==
  ASSUME IInv, ResetInv, StopInv, FeedInv, DoorInv, ResumeInv, RtHold PROVE ResumeInv'
<1> USE DEF RtHold, At, Goto, sysVars, outVars, callVars, ResetInv, AfterFlags
<1>1. /\ ~abort /\ ~abort' /\ pc = "rt.hold" /\ pc' = "rt.start"
      /\ UNCHANGED <<inner, rt>>
  OBVIOUS
<1>2. state' # "SLEEP" => state # "SLEEP"
  BY DEF HeldState, DoorState
<1>3. flags' \subseteq flags /\ ("CYCLE_START" \in flags => "CYCLE_START" \in flags')
  BY DEF HoldFlags
<1>4. "MOTION_CANCEL" \in flags' => state' = "JOG"
  BY <1>1 DEF ResumeInv, HoldFlags
<1>5. ASSUME "INITIATE_RESTORE" \in suspend', state' # "SLEEP"
      PROVE  /\ "INITIATE_RESTORE" \in suspend /\ "SAFETY_DOOR" \notin rt
             /\ "DOOR_AJAR" \notin suspend'
             /\ "MOTION_CANCEL" \notin flags' /\ "MOTION_CANCEL" \notin rt
  <2>1. "INITIATE_RESTORE" \in suspend
    BY <1>5 DEF DoorSuspend, HeldSuspend
  <2>2. state = "DOOR" /\ "JOG_CANCEL" \notin suspend
    BY <1>1, <1>2, <1>5, <2>1 DEF DoorInv, DoorBits, StopInv, Dying
  <2>3. "DOOR_AJAR" \notin suspend /\ "MOTION_CANCEL" \notin flags /\ "MOTION_CANCEL" \notin rt
    BY <1>1, <2>1, <2>2 DEF ResumeInv, Dying
  <2>4. "SAFETY_DOOR" \notin rt
    BY <1>5, <2>1, <2>2 DEF DoorSuspend, HeldSuspend, HeldState, StartsHold, Moving, HoldFlags
  <2>5. "DOOR_AJAR" \notin suspend'
    BY <2>2, <2>3, <2>4 DEF HeldSuspend
  <2> QED
    BY <1>3, <2>1, <2>3, <2>4, <2>5
<1>6. ASSUME "RESTORE_COMPLETE" \in suspend', state' # "SLEEP"
      PROVE  inner = "suspend" /\ "CYCLE_START" \in flags' /\ Starting'
  <2>1. "RESTORE_COMPLETE" \in suspend
    BY <1>6 DEF DoorSuspend, HeldSuspend
  <2>2. "INITIATE_RESTORE" \in suspend /\ "RETRACT_COMPLETE" \in suspend
    BY <1>1, <2>1 DEF DoorInv
  <2>3. inner = "suspend" /\ "CYCLE_START" \in flags /\ "CYCLE_START" \in rt
    BY <1>1, <1>2, <1>6, <2>1 DEF ResumeInv, Dying
  <2>4. state = "DOOR" /\ "JOG_CANCEL" \notin suspend
    BY <1>1, <1>2, <1>6, <2>1 DEF DoorInv, DoorBits, StopInv, Dying
  <2>5. "MOTION_CANCEL" \notin rt /\ "FEED_HOLD" \notin rt
    BY <1>1, <2>2, <2>4 DEF ResumeInv, FeedInv, Dying
  <2>6. "SAFETY_DOOR" \notin rt
    BY <1>6, <2>2, <2>4 DEF DoorSuspend, HeldSuspend, HeldState, StartsHold, Moving, HoldFlags
  <2> QED
    BY <1>1, <1>3, <2>3, <2>5, <2>6 DEF Starting, HoldFlags
<1> HIDE DEF RtHold
<1> QED
  BY <1>1, <1>3, <1>4, <1>5, <1>6 DEF ResumeInv, ResumePoints, Dying

LEMMA ResumeStep ==
  ASSUME Steady, IInv, ProbeFree, ~probed', ResetInv, SuspendInv, SleepInv, StopInv,
         CalmInv, FeedInv, DoorInv, ResumeInv, [Next]_vars
  PROVE  ResumeInv'
<1> USE DEF sysVars, ovrVars, reqVars, outVars, gcVars, prepVars, isrVars, callVars
<1>1. CASE MainLoop
  BY <1>1 DEF MainLoop, Boot, Begin, ReadLine, IdleLoop, AfterLoop, Dispatch, At, FlushMotion,
       Goto, BootLock, Call, AutoStart, Locked, ResumeInv, ResumePoints, Dying, Starting,
       SuspendInv, MainPoints, CallPoints, SuspendPoints, RtPoints
<1>2. CASE ExecRtSystem
  <2>1. CASE RtAlarm
    BY <2>1 DEF RtAlarm, At, Goto, ResumeInv, ResumePoints, Dying, ResetInv
  <2>2. CASE RtSoftLimit
    BY <2>2 DEF RtSoftLimit, Goto, ResumeInv, Dying
  <2>3. CASE RtFlags
    BY <2>3 DEF RtFlags, At, Goto, ResumeInv, ResumePoints, Dying, Starting, IInv, TypeOK,
         TypeControl, ResetInv, AfterFlags, SuspendInv, Inner, DoorInv, DoorBits, RestorePoints,
         MainPoints, CallPoints, SuspendPoints, RtPoints
  <2>4. CASE RtHold
    BY <2>4, ResumeHold
  <2>5. CASE RtStart
    BY <2>5 DEF RtStart, At, Starting, MayStart, RestoresSpindleFirst, StartCycle, Goto,
         DoorClosed, HoldFlags, DoorRestored, HasMotion, ResumeInv, Dying, DoorInv, DoorBits
  <2>6. CASE RtWake
    BY <2>6 DEF RtWake, WakeUp, Goto, At, ResumeInv, ResumePoints, Dying
  <2>7. CASE RtStop
    BY <2>7 DEF RtStop, At, Goto, HoldCompletes, RtHoldComplete, RtMotionComplete,
         UpdatePlanBlock, FlushMotion, ResumeInv, ResumePoints, Dying, StopInv, Running,
         StopPending, Scanning
  <2>8. CASE RtMotionOverride
    BY <2>8 DEF RtMotionOverride, At, Goto, UpdatePlanBlock, ResumeInv, ResumePoints, Dying
  <2>9. CASE RtAccessoryOverride
    BY <2>9 DEF RtAccessoryOverride, At, Goto, SetSpindle, SetCoolant, ResumeInv, ResumePoints,
         Dying
  <2>10. CASE RtDryRun
    BY <2>10 DEF RtDryRun, At, Goto, ResumeInv, ResumePoints, Dying
  <2>11. CASE RtDone
    BY <2>11 DEF RtDone, At, Return, Goto, Poll, ResumeInv, ResumePoints, Dying, IInv, TypeOK,
         TypeControl, Inner, CallPoints
  <2> QED
    BY <1>2, <2>1, <2>2, <2>3, <2>4, <2>5, <2>6, <2>7, <2>8, <2>9, <2>10, <2>11 DEF ExecRtSystem
<1>3. CASE PrepBuffer
  BY <1>3 DEF PrepBuffer, PrepSegment, PrepHoldEnds, PrepDone, AtFill, FillDone, Goto, AfterFill,
       ResumeInv, ResumePoints, Dying
<1>4. CASE ExecRtSuspend
  BY <1>4 DEF ExecRtSuspend, SuspExit, SuspWait, SuspRetract, SuspSleep, SuspDoor, SuspHold,
       SuspRestoreSpindle, SuspRestoreCoolant, SuspResume, At, Return, Suspended, Poll, Parked,
       SetSpindle, SetCoolant, Goto, HoldComplete, Restoring, Delay, ResumeInv, ResumePoints,
       Dying, IInv, TypeOK, TypeControl, SuspendInv, CallPoints, SuspendPoints
<1>5. CASE LineOps
  BY <1>5 DEF LineOps, OpUnlock, OpCheckMode, OpSleep, OpSync, AfterSync, SpindleSynced,
       CoolantSynced, ProgramPause, ProgramEnd, OpReturns, Op, Finish, McReset, AutoStart, Call,
       At, Goto, Synced, SetSpindle, SetCoolant, InMotion, ResumeInv, ResumePoints, Dying
<1>6. CASE MotionOps
  BY <1>6, NoProbeSteps, McLineReturns DEF MotionOps, OpMove, McLine, JogWake, OpSoftLimit,
       SoftWait, SoftKill, SoftAlarm, SoftReturns, Op, Finish, Call, At, AutoStart,
       UpdatePlanBlock, WakeUp, Goto, McReset, Synced, FlushMotion, InMotion, ResumeInv,
       ResumePoints, Dying
<1>7. CASE StepperIsr
  BY <1>7, NoProbeSteps DEF StepperIsr, StepSegment, StepEmpty, ResumeInv, Dying, Starting
<1>8. CASE SerialIsr
  BY <1>8 DEF SerialIsr, McReset, Request, Override, InMotion, ResumeInv, Dying, Starting,
       DoorInv, DoorBits
<1>9. CASE LimitIsr
  BY <1>9 DEF LimitIsr, InMotion, ResumeInv, Dying, Starting
<1>10. CASE UNCHANGED vars
  BY <1>10 DEF vars, ResumeInv, Dying, Starting
<1> QED
  BY <1>1, <1>2, <1>3, <1>4, <1>5, <1>6, <1>7, <1>8, <1>9, <1>10 DEF Next, Main

\* A cycle start: no completed restoration is left over to a restoring pass.
LEMMA DoorStart ==
  ASSUME IInv, ResetInv, SuspendInv, StopInv, CalmInv, DoorInv, ResumeInv, RtStart
  PROVE  DoorInv'
<1> USE DEF sysVars, ovrVars, reqVars, outVars, gcVars, prepVars, isrVars, callVars, RtStart, At, Goto, ResetInv, AfterFlags
<1>1. ~abort /\ ~abort' /\ inner' = inner /\ pc = "rt.start" /\ pc' \in {"start.fill", "rt.stop"} /\ ~Dying /\ ~Dying'
  BY DEF StartCycle, Dying
<1>2. state' = "CHECK" => state = "CHECK"
  BY DEF StartCycle
<1>3. CASE Starting /\ MayStart /\ ~RestoresSpindleFirst /\ StartCycle
  <2>1. inner \notin RestorePoints
    BY <1>1, <1>3 DEF MayStart, DoorRestored, DoorClosed, DoorInv, ResumeInv, DoorBits, RestorePoints
  <2> QED
    BY <1>1, <1>2, <1>3, <2>1 DEF DoorInv, StartCycle, RestorePoints
<1>4. CASE Starting /\ MayStart /\ RestoresSpindleFirst
  BY <1>1, <1>4 DEF DoorInv, RestorePoints, RestoresSpindleFirst, Dying
<1>5. CASE ~(Starting /\ MayStart)
  <2>1. state' = state /\ (suspend' = suspend \/ (suspend' = suspend \cup {"INITIATE_RESTORE"} /\ state = "DOOR" /\ "RETRACT_COMPLETE" \in suspend))
    BY <1>5, <1>1 DEF DoorClosed
  <2> HIDE DEF RtStart
  <2> QED
    BY <1>1, <1>5, <2>1 DEF DoorInv, RestorePoints, DoorBits
<1> QED BY <1>1, <1>3, <1>4, <1>5


LEMMA DoorStep ==
  ASSUME IInv, ProbeFree, ~probed', ResetInv, SuspendInv, SleepInv, StopInv, CalmInv,
         DoorInv, ResumeInv, [Next]_vars
  PROVE  DoorInv'
<1> USE DEF sysVars, ovrVars, reqVars, outVars, gcVars, prepVars, isrVars, callVars
<1>1. CASE MainLoop
  BY <1>1 DEF MainLoop, Boot, Begin, ReadLine, IdleLoop, AfterLoop, Dispatch, At, FlushMotion,
       Goto, BootLock, Call, AutoStart, Locked, DoorInv, DoorBits, RestorePoints, Dying,
       SuspendInv, MainPoints, CallPoints, SuspendPoints, RtPoints
<1>2. CASE ExecRtSystem
  <2>1. CASE RtAlarm
    BY <2>1 DEF RtAlarm, At, Goto, DoorInv, RestorePoints, Dying, ResetInv
  <2>2. CASE RtSoftLimit
    BY <2>2 DEF RtSoftLimit, Goto, DoorInv, Dying
  <2>3. CASE RtFlags
    BY <2>3 DEF RtFlags, At, Goto, DoorInv, DoorBits, RestorePoints, Dying, IInv, TypeOK,
         TypeControl, ResetInv, AfterFlags, SuspendInv, Inner, MainPoints, CallPoints,
         SuspendPoints, RtPoints
  <2>4. CASE RtHold
    BY <2>4 DEF RtHold, At, Goto, HoldFlags, DoorState, HeldState, HeldSuspend, StartsHold,
         UpdatePlanBlock, DoorSuspend, Moving, DoorInv, DoorBits, RestorePoints, Dying
  <2>5. CASE RtStart
    BY <2>5, DoorStart
  <2>6. CASE RtWake
    BY <2>6 DEF RtWake, WakeUp, Goto, At, DoorInv, RestorePoints, Dying
  <2>7. CASE RtStop
    BY <2>7 DEF RtStop, At, Goto, HoldCompletes, RtHoldComplete, RtMotionComplete,
         UpdatePlanBlock, FlushMotion, DoorInv, DoorBits, RestorePoints, Dying, StopInv, Running,
         StopPending, Scanning
  <2>8. CASE RtMotionOverride
    BY <2>8 DEF RtMotionOverride, At, Goto, UpdatePlanBlock, DoorInv, RestorePoints, Dying
  <2>9. CASE RtAccessoryOverride
    BY <2>9 DEF RtAccessoryOverride, At, Goto, SetSpindle, SetCoolant, DoorInv, RestorePoints,
         Dying
  <2>10. CASE RtDryRun
    BY <2>10 DEF RtDryRun, At, Goto, DoorInv, RestorePoints, Dying
  <2>11. CASE RtDone
    BY <2>11 DEF RtDone, At, Return, Goto, Poll, DoorInv, RestorePoints, Dying, IInv, TypeOK,
         TypeControl, CallPoints
  <2> QED
    BY <1>2, <2>1, <2>2, <2>3, <2>4, <2>5, <2>6, <2>7, <2>8, <2>9, <2>10, <2>11 DEF ExecRtSystem
<1>3. CASE PrepBuffer
  BY <1>3 DEF PrepBuffer, PrepSegment, PrepHoldEnds, PrepDone, AtFill, FillDone, Goto, AfterFill,
       DoorInv, RestorePoints, Dying
<1>4. CASE ExecRtSuspend
  BY <1>4 DEF ExecRtSuspend, SuspExit, SuspWait, SuspRetract, SuspSleep, SuspDoor, SuspHold,
       SuspRestoreSpindle, SuspRestoreCoolant, SuspResume, At, Return, Suspended, Poll, Parked,
       SetSpindle, SetCoolant, Goto, HoldComplete, Restoring, Delay, DoorInv, DoorBits,
       RestorePoints, Dying, IInv, TypeOK, TypeControl, SuspendInv, CallPoints, RtPoints
<1>5. CASE LineOps
  BY <1>5 DEF LineOps, OpUnlock, OpCheckMode, OpSleep, OpSync, AfterSync, SpindleSynced,
       CoolantSynced, ProgramPause, ProgramEnd, OpReturns, Op, Finish, McReset, AutoStart, Call,
       At, Goto, Synced, SetSpindle, SetCoolant, InMotion, DoorInv, RestorePoints, SuspendInv,
       MainPoints, CallPoints
<1>6. CASE MotionOps
  BY <1>6, NoProbeSteps, McLineReturns DEF MotionOps, OpMove, McLine, JogWake, OpSoftLimit,
       SoftWait, SoftKill, SoftAlarm, SoftReturns, Op, Finish, Call, At, AutoStart,
       UpdatePlanBlock, WakeUp, Goto, McReset, Synced, FlushMotion, InMotion, DoorInv,
       RestorePoints, SuspendInv, MainPoints, CallPoints
<1>7. CASE SerialIsr \/ LimitIsr \/ StepperIsr
  BY <1>7, InterruptFrame DEF DoorInv, Dying
<1>8. CASE UNCHANGED vars
  BY <1>8 DEF vars, DoorInv, Dying
<1> QED
  BY <1>1, <1>2, <1>3, <1>4, <1>5, <1>6, <1>7, <1>8 DEF Next, Main

\* The requests of a hold leave the outputs as the suspend bits say they are.
LEMMA RestoreHold ==
  ASSUME IInv, ResetInv, CalmInv, FeedInv, DoorInv, RestoreInv, RtHold
  PROVE  RestoreInv'
<1> USE DEF sysVars, ovrVars, reqVars, outVars, gcVars, prepVars, isrVars, callVars, RtHold, At, Goto, ResetInv, AfterFlags
<1> SUFFICES ASSUME Live' PROVE RestoreInv'
  BY DEF RestoreInv
<1>1. /\ ~abort /\ ~abort' /\ pc = "rt.hold" /\ pc' = "rt.start"
      /\ UNCHANGED <<inner, coolant, gc_spindle, gc_coolant, restore>>
      /\ "RESET" \in flags' <=> "RESET" \in flags
  BY DEF HoldFlags
<1>2. Live
  BY <1>1 DEF Live, HeldState, DoorState
<1>3. spindle' = spindle \/ ("FEED_HOLD" \in rt /\ ~spindle')
  BY DEF IInv, TypeOK, TypeOutputs
<1>4. suspend \cap {"RETRACT_COMPLETE", "RESTART_RETRACT"} # {} => suspend' \cap {"RETRACT_COMPLETE", "RESTART_RETRACT"} # {}
  BY <1>1, <1>2 DEF DoorInv, DoorBits, DoorSuspend, HeldSuspend, Live, Dying
<1>5. "RESTART_RETRACT" \in suspend => "RESTART_RETRACT" \in suspend'
  BY <1>1, <1>2 DEF DoorInv, DoorBits, DoorSuspend, HeldSuspend, Live, Dying
<1>6. "RESTORE_COMPLETE" \in suspend' => "RESTORE_COMPLETE" \in suspend
  BY <1>1, <1>2 DEF DoorSuspend, HeldSuspend
<1>7. "FEED_HOLD" \in rt => suspend = {} /\ inner = "none"
  BY <1>1 DEF FeedInv
<1> HIDE DEF RtHold
<1> QED
  BY <1>1, <1>2, <1>3, <1>4, <1>5, <1>6, <1>7 DEF RestoreInv, RestoredTo


\* The feed hold manager writes the saved torch state, or switches the torch off.
LEMMA RestoreStopped ==
  ASSUME IInv, SuspendInv, AsSet, DoorInv, ResumeInv, RestoreInv, SuspHold
  PROVE  RestoreInv'
<1> USE DEF sysVars, ovrVars, reqVars, outVars, gcVars, prepVars, isrVars, callVars
<1> SUFFICES ASSUME Live' PROVE RestoreInv'
  BY DEF RestoreInv
<1>1. /\ pc = "susp" /\ inner = "suspend" /\ inner' = "suspend" /\ pc' = "rt.alarm" /\ state \notin {"DOOR", "SLEEP"}
      /\ UNCHANGED <<coolant, gc_spindle, gc_coolant, restore, suspend, abort, state>>
  BY DEF SuspHold, Poll, Goto, HoldComplete, Suspended, At, SuspendInv, SuspendPoints
<1>7. flags' \in {flags, flags \cup {"CYCLE_START"}}
  BY DEF SuspHold
<1>2. Live
  BY <1>1, <1>7 DEF Live
<1>3. spindle' \in {spindle, FALSE, restore.spindle}
  BY DEF SuspHold, SetSpindle
<1>4. "RESTORE_COMPLETE" \notin suspend
  BY <1>1, <1>2 DEF DoorInv, DoorBits, Live, Dying
<1>5. restore.spindle = gc_spindle
  BY <1>1, <1>2 DEF RestoreInv
<1>6. spindle' => gc_spindle
  BY <1>2, <1>3, <1>5 DEF RestoreInv
<1> QED
  BY <1>1, <1>2, <1>4, <1>5, <1>6 DEF RestoreInv, RestoredTo


\* The torch has been restored when the coolant's turn comes ...
LEMMA RestoreTorch ==
  ASSUME IInv, SuspendInv, AsSet, DoorInv, ResumeInv, RestoreInv,
         SuspRestoreSpindle
  PROVE  RestoreInv'
<1> USE DEF sysVars, ovrVars, reqVars, outVars, gcVars, prepVars, isrVars, callVars
<1> SUFFICES ASSUME Live' PROVE RestoreInv'
  BY DEF RestoreInv
<1>1. /\ pc = "susp.spindle" /\ inner = "suspend" /\ UNCHANGED <<coolant, gc_spindle, gc_coolant, restore, suspend, abort, state, flags>>
      /\ pc' \in {"susp.coolant", "rt.alarm"} /\ inner' \in {"suspend", "susp.coolant"}
  BY DEF SuspRestoreSpindle, At, Delay, Goto, SuspendInv, SuspendPoints
<1>2. Live
  BY <1>1 DEF Live
<1>3. "RESTORE_COMPLETE" \notin suspend
  BY <1>1, <1>2 DEF ResumeInv, ResumePoints, Live, Dying
<1>4. restore.spindle = gc_spindle /\ restore.coolant = gc_coolant /\ (spindle => gc_spindle)
  BY <1>1, <1>2 DEF RestoreInv
<1>5. spindle' = gc_spindle \/ (spindle' = spindle /\ "RESTART_RETRACT" \in suspend)
  <2>1. ~abort /\ ~dry_run /\ spindle \in BOOLEAN /\ gc_spindle \in BOOLEAN
    BY <1>2 DEF Live, AsSet, IInv, TypeOK, TypeOutputs
  <2>2. CASE gc_spindle /\ "RESTART_RETRACT" \notin suspend
    BY <1>4, <2>1, <2>2 DEF SuspRestoreSpindle, SetSpindle
  <2>3. CASE ~(gc_spindle /\ "RESTART_RETRACT" \notin suspend)
    BY <1>4, <2>1, <2>3 DEF SuspRestoreSpindle
  <2> QED BY <2>2, <2>3
<1> QED
  BY <1>1, <1>2, <1>3, <1>4, <1>5 DEF RestoreInv, RestoredTo


\* ... and the coolant when the machine resumes.
LEMMA RestoreCoolant ==
  ASSUME IInv, SuspendInv, AsSet, DoorInv, ResumeInv, RestoreInv,
         SuspRestoreCoolant
  PROVE  RestoreInv'
<1> USE DEF sysVars, ovrVars, reqVars, outVars, gcVars, prepVars, isrVars, callVars
<1> SUFFICES ASSUME Live' PROVE RestoreInv'
  BY DEF RestoreInv
<1>1. /\ pc = "susp.coolant" /\ inner = "suspend" /\ UNCHANGED <<spindle, gc_spindle, gc_coolant, restore, suspend, abort, state, flags>>
      /\ pc' \in {"susp.resume", "rt.alarm"} /\ inner' \in {"suspend", "susp.resume"}
  BY DEF SuspRestoreCoolant, At, Delay, Goto, SuspendInv, SuspendPoints
<1>2. Live
  BY <1>1 DEF Live
<1>3. "RESTORE_COMPLETE" \notin suspend
  BY <1>1, <1>2 DEF ResumeInv, ResumePoints, Live, Dying
<1>4. restore.spindle = gc_spindle /\ restore.coolant = gc_coolant /\ (coolant => gc_coolant)
  BY <1>1, <1>2 DEF RestoreInv
<1>6. suspend \cap {"RETRACT_COMPLETE", "RESTART_RETRACT"} # {}
  BY <1>1, <1>2 DEF DoorInv, RestorePoints, Live, Dying
<1>5. coolant' = gc_coolant \/ (coolant' = coolant /\ "RESTART_RETRACT" \in suspend)
  <2>1. ~abort /\ coolant \in BOOLEAN /\ gc_coolant \in BOOLEAN
    BY <1>2 DEF Live, IInv, TypeOK, TypeOutputs
  <2>2. CASE gc_coolant /\ "RESTART_RETRACT" \notin suspend
    BY <1>4, <2>1, <2>2 DEF SuspRestoreCoolant, SetCoolant
  <2>3. CASE ~(gc_coolant /\ "RESTART_RETRACT" \notin suspend)
    BY <1>4, <2>1, <2>3 DEF SuspRestoreCoolant
  <2> QED BY <2>2, <2>3
<1> QED
  BY <1>1, <1>2, <1>3, <1>4, <1>5, <1>6 DEF RestoreInv, RestoredTo

LEMMA RestoreStep ==
  ASSUME IInv, ProbeFree, ~probed', ResetInv, SuspendInv, SleepInv, StopInv, CalmInv,
         BlocksInv, ParkInv, FeedInv, AsSet, DoorInv, ResumeInv, RestoreInv, [Next]_vars
  PROVE  RestoreInv'
<1> USE DEF sysVars, ovrVars, reqVars, outVars, gcVars, prepVars, isrVars, callVars
<1>1. CASE MainLoop
  BY <1>1 DEF MainLoop, Boot, Begin, ReadLine, IdleLoop, AfterLoop, Dispatch, At, FlushMotion,
       Goto, BootLock, Call, AutoStart, Locked, RestoreInv, Live, RestoredTo, AsSet, SuspendInv,
       MainPoints, CallPoints, SuspendPoints, RtPoints
<1>2. CASE ExecRtSystem
  <2>1. CASE RtAlarm
    BY <2>1 DEF RtAlarm, At, Goto, RestoreInv, Live, RestoredTo, ResetInv
  <2>2. CASE RtSoftLimit
    BY <2>2 DEF RtSoftLimit, Goto, RestoreInv, Live
  <2>3. CASE RtFlags
    BY <2>3 DEF RtFlags, At, Goto, RestoreInv, Live, RestoredTo, ResetInv
  <2>4. CASE RtHold
    BY <2>4, RestoreHold
  <2>5. CASE RtStart
    BY <2>5 DEF RtStart, At, Starting, MayStart, RestoresSpindleFirst, StartCycle, Goto,
         DoorClosed, HoldFlags, DoorRestored, HasMotion, RestoreInv, Live, RestoredTo, DoorInv,
         DoorBits, Dying
  <2>6. CASE RtWake
    BY <2>6 DEF RtWake, WakeUp, Goto, At, RestoreInv, Live, RestoredTo
  <2>7. CASE RtStop
    BY <2>7 DEF RtStop, At, Goto, HoldCompletes, RtHoldComplete, RtMotionComplete,
         UpdatePlanBlock, FlushMotion, RestoreInv, Live, RestoredTo, DoorInv, DoorBits, StopInv,
         Running, StopPending, Scanning, Dying
  <2>8. CASE RtMotionOverride
    BY <2>8 DEF RtMotionOverride, At, Goto, UpdatePlanBlock, RestoreInv, Live, RestoredTo
  <2>9. CASE RtAccessoryOverride
    BY <2>9 DEF RtAccessoryOverride, At, Goto, SetSpindle, SetCoolant, RestoreInv, Live,
         RestoredTo, AsSet
  <2>10. CASE RtDryRun
    BY <2>10, AsSetDryRun DEF RtDryRun, At, Goto, RestoreInv, Live, RestoredTo, AsSet, IInv,
         TypeOK, TypeControl, ResetInv, AfterFlags, SuspendInv, Inner, DoorInv, DoorBits,
         MainPoints, CallPoints, SuspendPoints, RtPoints
  <2>11. CASE RtDone
    BY <2>11 DEF RtDone, At, Return, Goto, Poll, RestoreInv, Live, RestoredTo, IInv, TypeOK,
         TypeControl, Inner, DoorInv, DoorBits, CallPoints, BlocksInv, RestoreCondition,
         NoRestore, CalmInv, Dying
  <2> QED
    BY <1>2, <2>1, <2>2, <2>3, <2>4, <2>5, <2>6, <2>7, <2>8, <2>9, <2>10, <2>11 DEF ExecRtSystem
<1>3. CASE PrepBuffer
  BY <1>3 DEF PrepBuffer, PrepSegment, PrepHoldEnds, PrepDone, AtFill, FillDone, Goto, AfterFill,
       RestoreInv, Live, RestoredTo
<1>4. CASE ExecRtSuspend
  <2>1. CASE SuspExit
    BY <2>1 DEF SuspExit, At, Return, Goto, RestoreInv, Live, RestoredTo, IInv, TypeOK,
         TypeControl, CallPoints, NoRestore
  <2>2. CASE SuspWait
    BY <2>2 DEF SuspWait, Suspended, Poll, At, Goto, RestoreInv, Live, RestoredTo
  <2>3. CASE SuspRetract
    BY <2>3 DEF SuspRetract, Parked, Poll, SetSpindle, SetCoolant, HoldComplete, Goto, Suspended,
         At, RestoreInv, Live, RestoredTo, SuspendInv, DoorInv, SuspendPoints
  <2>4. CASE SuspSleep
    BY <2>4 DEF SuspSleep, Parked, SetSpindle, SetCoolant, Goto, HoldComplete, Suspended,
         RestoreInv, Live
  <2>5. CASE SuspDoor
    BY <2>5 DEF SuspDoor, Parked, Goto, HoldComplete, Suspended, At, RestoreInv, Live, RestoredTo
  <2>6. CASE SuspHold
    BY <2>6, RestoreStopped
  <2>7. CASE SuspRestoreSpindle
    BY <2>7, RestoreTorch
  <2>8. CASE SuspRestoreCoolant
    BY <2>8, RestoreCoolant
  <2>9. CASE SuspResume
    BY <2>9 DEF SuspResume, At, Poll, Goto, RestoreInv, Live, RestoredTo
  <2> QED
    BY <1>4, <2>1, <2>2, <2>3, <2>4, <2>5, <2>6, <2>7, <2>8, <2>9 DEF ExecRtSuspend
<1>5. CASE LineOps
  <2>1. CASE OpUnlock
    BY <2>1 DEF OpUnlock, Op, Finish, At, Goto, RestoreInv, Live, RestoredTo
  <2>2. CASE OpCheckMode
    BY <2>2 DEF OpCheckMode, Op, Finish, McReset, At, Goto, InMotion, RestoreInv, Live, RestoredTo
  <2>3. CASE OpSleep
    BY <2>3 DEF OpSleep, Op, Finish, At, Goto, RestoreInv, Live, RestoredTo
  <2>4. CASE OpSync
    BY <2>4 DEF OpSync, Op, Finish, AutoStart, Call, At, Goto, RestoreInv, Live, RestoredTo,
         SkipsSync, Redundant, IsSpindle, IsCoolant, Target
  <2>5. CASE AfterSync
    BY <2>5 DEF AfterSync, At, Call, Goto, RestoreInv, Live, RestoredTo
  <2>6. CASE SpindleSynced
    BY <2>6 DEF SpindleSynced, Synced, SetSpindle, Finish, At, Goto, RestoreInv, Live, AsSet,
         SuspendInv, MainPoints
  <2>7. CASE CoolantSynced
    BY <2>7 DEF CoolantSynced, Synced, SetCoolant, Finish, At, Goto, RestoreInv, Live, RestoredTo,
         SuspendInv, MainPoints
  <2>8. CASE ProgramPause
    BY <2>8 DEF ProgramPause, Synced, Call, Finish, At, Goto, RestoreInv, Live, RestoredTo
  <2>9. CASE ProgramEnd
    BY <2>9 DEF ProgramEnd, Synced, Finish, SetSpindle, SetCoolant, At, Goto, RestoreInv, Live,
         RestoredTo, AsSet, SuspendInv, MainPoints, CallPoints, SuspendPoints, RtPoints
  <2>10. CASE OpReturns
    BY <2>10 DEF OpReturns, At, Finish, Goto, RestoreInv, Live, RestoredTo
  <2> QED
    BY <1>5, <2>1, <2>2, <2>3, <2>4, <2>5, <2>6, <2>7, <2>8, <2>9, <2>10 DEF LineOps
<1>6. CASE MotionOps
  BY <1>6, NoProbeSteps, McLineReturns DEF MotionOps, OpMove, McLine, JogWake, OpSoftLimit,
       SoftWait, SoftKill, SoftAlarm, SoftReturns, Op, Finish, Call, At, AutoStart,
       UpdatePlanBlock, WakeUp, Goto, McReset, Synced, FlushMotion, InMotion, RestoreInv, Live,
       RestoredTo
<1>7. CASE StepperIsr
  BY <1>7, NoProbeSteps DEF StepperIsr, StepSegment, StepEmpty, RestoreInv, Live, RestoredTo
<1>8. CASE SerialIsr
  BY <1>8 DEF SerialIsr, McReset, Request, Override, InMotion, RestoreInv, Live, RestoredTo
<1>9. CASE LimitIsr
  BY <1>9 DEF LimitIsr, InMotion, RestoreInv, Live
<1>10. CASE UNCHANGED vars
  BY <1>10 DEF vars, RestoreInv, Live, RestoredTo
<1> QED
  BY <1>1, <1>2, <1>3, <1>4, <1>5, <1>6, <1>7, <1>8, <1>9, <1>10 DEF Next, Main

-----------------------------------------------------------------------------
LEMMA InitHold ==
  Init => BlocksInv /\ ParkInv /\ OnlyAuto /\ FeedInv /\ AsSet /\ DoorInv /\ ResumeInv /\ RestoreInv
<1> SUFFICES ASSUME Init PROVE BlocksInv /\ ParkInv /\ OnlyAuto /\ FeedInv /\ AsSet /\ DoorInv /\ ResumeInv /\ RestoreInv
  OBVIOUS
<1>1. BlocksInv /\ FeedInv /\ AsSet
  BY DEF Init, BlocksInv, FeedInv, AsSet
<1>2. ParkInv
  BY DEF Init, ParkInv, ParkedDeEnergized, RestorePoints
<1>3. OnlyAuto
  BY DEF Init, OnlyAuto, Starts, RestorePoints
<1>4. DoorInv
  BY DEF Init, DoorInv, DoorBits, RestorePoints
<1>5. ResumeInv
  BY DEF Init, ResumeInv
<1>6. RestoreInv
  BY DEF Init, RestoreInv, RestoredTo
<1> QED
  BY <1>1, <1>2, <1>3, <1>4, <1>5, <1>6

\* Every queued block was planned for the torch state the parser is in: each change of it
\* drains the planner first (spindle_control.c:284), until the first G38.
THEOREM BlocksTheorem == Spec => [](probed \/ BlocksCarryModalSpindle)
<1>1. SessionInv /\ (probed \/ BlocksInv) /\ [Next]_vars => (probed \/ BlocksInv)'
  <2> SUFFICES ASSUME SessionInv, probed \/ BlocksInv, [Next]_vars, ~probed' PROVE BlocksInv'
    OBVIOUS
  <2>1. CASE probed
    <3>1. Boot
      BY <2>1, ProbedSteps DEF ProbeBegin
    <3> QED
      BY <3>1 DEF Boot, FlushMotion, Goto, BlocksInv
  <2>2. CASE ~probed
    BY <2>2, BlocksStep DEF SessionInv, MotionInv
  <2> QED
    BY <2>1, <2>2
<1>2. BlocksInv => BlocksCarryModalSpindle
  BY DEF BlocksInv, BlocksCarryModalSpindle
<1> QED
  BY InitHold, <1>1, <1>2, SessionHolds, PTL DEF Spec

\* With the door sequence parked the torch and the coolant are off until it is resumed
\* (protocol.c:607), whatever spindle stops, toggles and resets come in meanwhile, until the
\* first G38.
THEOREM ParkTheorem == Spec => [](probed \/ ParkedDeEnergized)
<1>1. SessionInv /\ DryRunTorchOff /\ (probed \/ ParkInv) /\ [Next]_vars => (probed \/ ParkInv)'
  <2> SUFFICES ASSUME SessionInv, DryRunTorchOff, probed \/ ParkInv, [Next]_vars, ~probed'
               PROVE  ParkInv'
    OBVIOUS
  <2>1. CASE probed
    <3>1. Boot /\ inner' = "none"
      BY <2>1, ProbedSteps DEF ProbeBegin, Boot, At, SessionInv, CtlInv, MainPoints, callVars
    <3> QED
      BY <3>1 DEF Boot, FlushMotion, Goto, ParkInv, ParkedDeEnergized, RestorePoints
  <2>2. CASE ~probed
    BY <2>2, ParkStep DEF SessionInv, MotionInv
  <2> QED
    BY <2>1, <2>2
<1>2. ParkInv => ParkedDeEnergized
  BY DEF ParkInv
<1> QED
  BY InitHold, <1>1, <1>2, SessionHolds, DryRunTheorem, PTL DEF Spec

LEMMA HoldNeedsStep ==
  ASSUME IInv, ProbeFree, ~probed', ResetInv, SleepInv, StopInv, CalmInv, OnlyAuto,
         [Next]_vars
  PROVE  [state = "HOLD" /\ state' # "HOLD"
            => state' \in {"DOOR", "ALARM"} \/ pc = "begin" \/ soft_limit]_vars
<1> USE DEF sysVars, ovrVars, reqVars, outVars, gcVars, prepVars, isrVars, callVars
<1>1. CASE MainLoop
  BY <1>1 DEF MainLoop, Boot, Begin, ReadLine, IdleLoop, AfterLoop, Dispatch, At, FlushMotion,
       Goto, BootLock, Call, AutoStart, Locked
<1>2. CASE ExecRtSystem
  <2>1. CASE RtAlarm
    BY <2>1 DEF RtAlarm, Goto
  <2>2. CASE RtSoftLimit
    BY <2>2 DEF RtSoftLimit, Goto
  <2>3. CASE RtFlags
    BY <2>3 DEF RtFlags, Goto
  <2>4. CASE RtHold
    BY <2>4 DEF RtHold, At, Goto, HoldFlags, DoorState, HeldState, HeldSuspend, StartsHold,
         UpdatePlanBlock, DoorSuspend, Moving, SleepInv, ResetInv, AfterFlags
  <2>5. CASE RtStart
    BY <2>5 DEF RtStart, At, Starting, MayStart, RestoresSpindleFirst, StartCycle, Goto,
         DoorClosed, HoldFlags, DoorRestored, HasMotion, OnlyAuto, Starts, ResetInv, AfterFlags
  <2>6. CASE RtWake
    BY <2>6 DEF RtWake, WakeUp, Goto
  <2>7. CASE RtStop
    BY <2>7 DEF RtStop, At, Goto, HoldCompletes, RtHoldComplete, RtMotionComplete,
         UpdatePlanBlock, FlushMotion, StopInv, Dying, ResetInv, AfterFlags
  <2>8. CASE RtMotionOverride
    BY <2>8 DEF RtMotionOverride, Goto, UpdatePlanBlock
  <2>9. CASE RtAccessoryOverride
    BY <2>9 DEF RtAccessoryOverride, Goto, SetSpindle, SetCoolant
  <2>10. CASE RtDryRun
    BY <2>10 DEF RtDryRun, Goto
  <2>11. CASE RtDone
    BY <2>11 DEF RtDone, Return, Goto, Poll
  <2> QED
    BY <1>2, <2>1, <2>2, <2>3, <2>4, <2>5, <2>6, <2>7, <2>8, <2>9, <2>10, <2>11 DEF ExecRtSystem
<1>3. CASE PrepBuffer
  BY <1>3 DEF PrepBuffer, PrepSegment, PrepHoldEnds, PrepDone, AtFill, FillDone, Goto, AfterFill
<1>4. CASE ExecRtSuspend
  BY <1>4 DEF ExecRtSuspend, SuspExit, SuspWait, SuspRetract, SuspSleep, SuspDoor, SuspHold,
       SuspRestoreSpindle, SuspRestoreCoolant, SuspResume, Return, Suspended, Poll, Parked,
       SetSpindle, SetCoolant, Goto, HoldComplete, Restoring, Delay
<1>5. CASE LineOps
  BY <1>5 DEF LineOps, OpUnlock, OpCheckMode, OpSleep, OpSync, AfterSync, SpindleSynced,
       CoolantSynced, ProgramPause, ProgramEnd, OpReturns, Op, Finish, McReset, AutoStart, Call,
       Goto, Synced, SetSpindle, SetCoolant, InMotion
<1>6. CASE MotionOps
  BY <1>6, NoProbeSteps, McLineReturns DEF MotionOps, OpMove, McLine, JogWake, OpSoftLimit,
       SoftWait, SoftKill, SoftAlarm, SoftReturns, Op, Finish, Call, At, AutoStart,
       UpdatePlanBlock, WakeUp, Goto, McReset, Synced, FlushMotion, InMotion
<1>7. CASE SerialIsr \/ LimitIsr \/ StepperIsr
  BY <1>7, InterruptFrame
<1>8. CASE UNCHANGED vars
  BY <1>8 DEF vars
<1> QED
  BY <1>1, <1>2, <1>3, <1>4, <1>5, <1>6, <1>7, <1>8 DEF Next, Main

\* A feed hold is released only by the operator: whoever requests a cycle start automatically,
\* the main loop, a synchronization or a full planner, never resumes it (protocol.c:336).
THEOREM HoldNeedsOperatorTheorem ==
  ASSUME NoProbing, "start" \notin RtCommands PROVE Spec => HoldNeedsOperator
<1>1. MotionInv /\ MotionInv' /\ OnlyAuto /\ [Next]_vars => OnlyAuto'
  BY OnlyAutoStep DEF MotionInv, ProbeFree
<1>2. MotionInv /\ MotionInv' /\ OnlyAuto /\ [Next]_vars
        => [state = "HOLD" /\ state' # "HOLD"
              => state' \in {"DOOR", "ALARM"} \/ pc = "begin" \/ soft_limit]_vars
  BY HoldNeedsStep DEF MotionInv, ProbeFree
<1> QED
  BY InitHold, <1>1, <1>2, MotionWithoutG38, NoProbing, PTL DEF Spec, HoldNeedsOperator

LEMMA DoorRestoresStep ==
  ASSUME IInv, ProbeFree, ~probed', ResetInv, StopInv, RestoreInv, [Next]_vars
  PROVE  [state = "DOOR" /\ state' = "CYCLE" /\ "RESET" \notin flags
            => spindle' = gc_spindle /\ coolant' = gc_coolant]_vars
<1> USE DEF sysVars, ovrVars, reqVars, outVars, gcVars, prepVars, isrVars, callVars
<1>1. CASE MainLoop
  BY <1>1 DEF MainLoop, Boot, Begin, ReadLine, IdleLoop, AfterLoop, Dispatch, At, FlushMotion,
       Goto, BootLock, Call, AutoStart, Locked
<1>2. CASE ExecRtSystem
  <2>1. CASE RtAlarm
    BY <2>1 DEF RtAlarm, Goto
  <2>2. CASE RtSoftLimit
    BY <2>2 DEF RtSoftLimit, Goto
  <2>3. CASE RtFlags
    BY <2>3 DEF RtFlags, Goto
  <2>4. CASE RtHold
    BY <2>4 DEF RtHold, Goto, HoldFlags, DoorState, HeldState, HeldSuspend, StartsHold,
         UpdatePlanBlock, DoorSuspend, Moving
  <2>5. CASE RtStart
    BY <2>5 DEF RtStart, At, Starting, MayStart, RestoresSpindleFirst, StartCycle, Goto,
         DoorClosed, HoldFlags, DoorRestored, HasMotion, RestoreInv, Live, ResetInv
  <2>6. CASE RtWake
    BY <2>6 DEF RtWake, WakeUp, Goto
  <2>7. CASE RtStop
    BY <2>7 DEF RtStop, Goto, HoldCompletes, RtHoldComplete, RtMotionComplete, UpdatePlanBlock,
         FlushMotion
  <2>8. CASE RtMotionOverride
    BY <2>8 DEF RtMotionOverride, Goto, UpdatePlanBlock
  <2>9. CASE RtAccessoryOverride
    BY <2>9 DEF RtAccessoryOverride, Goto, SetSpindle, SetCoolant
  <2>10. CASE RtDryRun
    BY <2>10 DEF RtDryRun, Goto
  <2>11. CASE RtDone
    BY <2>11 DEF RtDone, Return, Goto, Poll
  <2> QED
    BY <1>2, <2>1, <2>2, <2>3, <2>4, <2>5, <2>6, <2>7, <2>8, <2>9, <2>10, <2>11 DEF ExecRtSystem
<1>3. CASE PrepBuffer
  BY <1>3 DEF PrepBuffer, PrepSegment, PrepHoldEnds, PrepDone, AtFill, FillDone, Goto, AfterFill
<1>4. CASE ExecRtSuspend
  BY <1>4 DEF ExecRtSuspend, SuspExit, SuspWait, SuspRetract, SuspSleep, SuspDoor, SuspHold,
       SuspRestoreSpindle, SuspRestoreCoolant, SuspResume, Return, Suspended, Poll, Parked,
       SetSpindle, SetCoolant, Goto, HoldComplete, Restoring, Delay
<1>5. CASE LineOps
  BY <1>5 DEF LineOps, OpUnlock, OpCheckMode, OpSleep, OpSync, AfterSync, SpindleSynced,
       CoolantSynced, ProgramPause, ProgramEnd, OpReturns, Op, Finish, McReset, AutoStart, Call,
       Goto, Synced, SetSpindle, SetCoolant, InMotion
<1>6. CASE MotionOps
  BY <1>6, NoProbeSteps, McLineReturns DEF MotionOps, OpMove, McLine, JogWake, OpSoftLimit,
       SoftWait, SoftKill, SoftAlarm, SoftReturns, Op, Finish, Call, At, AutoStart,
       UpdatePlanBlock, WakeUp, Goto, McReset, Synced, FlushMotion, InMotion
<1>7. CASE SerialIsr \/ LimitIsr \/ StepperIsr
  BY <1>7, InterruptFrame
<1>8. CASE UNCHANGED vars
  BY <1>8 DEF vars
<1> QED
  BY <1>1, <1>2, <1>3, <1>4, <1>5, <1>6, <1>7, <1>8 DEF Next, Main

\* Resuming from the door restores torch and coolant to what the program has set before the
\* cycle goes on (protocol.c:343), however often the door is opened again while it does so.
THEOREM DoorRestoresTheorem ==
  ASSUME NoProbing, Steady PROVE Spec => DoorRestores
<1> DEFINE All == /\ BlocksInv /\ ParkInv /\ DryRunTorchOff /\ FeedInv /\ AsSet
                  /\ DoorInv /\ ResumeInv /\ RestoreInv
<1>1. Init => All
  <2>1. Init => DryRunTorchOff
    BY DEF Init, DryRunTorchOff
  <2> QED
    BY <2>1, InitHold
<1>2. MotionInv /\ MotionInv' /\ All /\ [Next]_vars => All'
  <2> SUFFICES ASSUME MotionInv, ~probed', All, [Next]_vars PROVE All'
    BY DEF MotionInv, ProbeFree
  <2> USE DEF MotionInv
  <2>1. BlocksInv' /\ ParkInv' /\ DryRunTorchOff'
    BY BlocksStep, ParkStep, DryRunStep
  <2>2. FeedInv' /\ AsSet'
    BY FeedStep, AsSetStep, Steady
  <2>3. DoorInv' /\ ResumeInv' /\ RestoreInv'
    BY DoorStep, ResumeStep, RestoreStep, Steady
  <2> QED
    BY <2>1, <2>2, <2>3
<1>3. MotionInv /\ MotionInv' /\ All /\ [Next]_vars
        => [state = "DOOR" /\ state' = "CYCLE" /\ "RESET" \notin flags
              => spindle' = gc_spindle /\ coolant' = gc_coolant]_vars
  BY DoorRestoresStep DEF MotionInv, ProbeFree
<1> HIDE DEF All
<1> QED
  BY <1>1, <1>2, <1>3, MotionWithoutG38, NoProbing, PTL DEF Spec, DoorRestores
=============================================================================
