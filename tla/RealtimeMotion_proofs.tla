----------------------- MODULE RealtimeMotion_proofs -----------------------
(***************************************************************************)
(* When the motors of RealtimeExec stand still, for every set of commands  *)
(* and every program.                                                      *)
(*                                                                         *)
(* The motors are stopped in three ways: the stepper interrupt finds the   *)
(* segment buffer empty and posts CYCLE_STOP, mc_reset() kills them, and   *)
(* the sleep state disables them.  Nothing orders the first against the    *)
(* main program, so the argument is about Running: the motors turn, or a   *)
(* CYCLE_STOP is still to be taken account of.  StopInv says in which      *)
(* states that may be; every state change of the main program is then seen *)
(* to leave one of them only through the step that takes CYCLE_STOP, or on *)
(* the way to the re-initialization (Dying).  The other invariants here    *)
(* say what StopInv needs to know about resets, lines and suspends.        *)
(*                                                                         *)
(* A G38 line whose synchronization returns during a feed hold raises its  *)
(* alarm while the motors still decelerate, and its interrupt may undo a   *)
(* reset.  So the invariant holds until a G38 is begun (~probed), and the  *)
(* re-initialization, which undoes all that a G38 can leave, makes it hold *)
(* again: Spec => [](probed \/ MotionInv).  NoProbing is for theorems      *)
(* about programs that never have a G38.                                   *)
(***************************************************************************)
EXTENDS RealtimeExec_proofs

-----------------------------------------------------------------------------
\* The return address of protocol_execute_realtime() is set only inside of it.
CtlInv == pc \in MainPoints \cup CallPoints => ret = "loop" /\ inner = "none"

\* Until a G38 is begun there is no probing cycle, and no line in mc_line() is one.
ProbePoints == {"probe.init", "probe.wait", "probe.end"}
LinePoints  == {"mcline", "soft.wait", "soft.kill", "soft.alarm", "soft.crit"}
ProbeFree ==
  /\ ~probed /\ ~busy /\ ~probing
  /\ pc \notin ProbePoints /\ ret \notin ProbePoints
  /\ pc \in LinePoints \/ ret \in LinePoints => Head(todo) # "G38"

LEMMA InLine == ASSUME IInv, InOp PROVE todo # <<>>
  BY DEF IInv, LineInv

LEMMA NoProbeSteps ==
  ASSUME ProbeFree, ~probed'
  PROVE  ~(ProbeBegin \/ ProbeWait \/ ProbeEnd \/ ProbeRead \/ ProbeWrite)
BY DEF ProbeFree, ProbePoints, ProbeBegin, ProbeWait, ProbeEnd, ProbeRead, ProbeWrite, At

\* The end of mc_line(): a jog enters its state, any other operation is done.
LEMMA McLineReturns ==
  ASSUME IInv, ProbeFree, McLineEnds, pc = "mcline"
  PROVE  /\ UNCHANGED <<flags, probing>>
         /\ \/ /\ Head(todo) = "J" /\ state = "IDLE" /\ queue' # <<>>
               /\ state' = "JOG" /\ Goto("jog.fill") /\ UNCHANGED <<todo, callVars>>
            \/ UNCHANGED state /\ Finish
<1>1. Head(todo) # "G38"
  BY DEF ProbeFree, LinePoints
<1>2. probing \in BOOLEAN
  BY DEF IInv, TypeOK, TypeRequests
<1> QED
  BY <1>1, <1>2 DEF McLineEnds

LEMMA CtlStep ==
  ASSUME IInv, CtlInv, [Next]_vars
  PROVE  CtlInv'
<1> USE DEF sysVars, ovrVars, reqVars, outVars, gcVars, prepVars, isrVars, callVars
<1>1. CASE MainLoop
  <2>1. CASE Boot
    BY <2>1 DEF Boot, At, FlushMotion, Goto, CtlInv, MainPoints, CallPoints
  <2>2. CASE Begin
    BY <2>2 DEF Begin, At, BootLock, Goto, CtlInv, MainPoints, CallPoints
  <2>3. CASE ReadLine
    BY <2>3 DEF ReadLine, Call, Goto, CtlInv, MainPoints, CallPoints
  <2>4. CASE IdleLoop
    BY <2>4 DEF IdleLoop, AutoStart, Call, Goto, CtlInv, MainPoints, CallPoints
  <2>5. CASE AfterLoop
    BY <2>5 DEF AfterLoop, At, Goto, CtlInv, MainPoints, CallPoints
  <2>6. CASE Dispatch
    BY <2>6 DEF Dispatch, At, Goto, Locked, CtlInv, MainPoints, CallPoints
  <2> QED
    BY <1>1, <2>1, <2>2, <2>3, <2>4, <2>5, <2>6 DEF MainLoop
<1>2. CASE ExecRtSystem
  <2>1. CASE RtAlarm
    BY <2>1 DEF RtAlarm, Goto, CtlInv, MainPoints, CallPoints
  <2>2. CASE RtSoftLimit
    BY <2>2 DEF RtSoftLimit, Goto, CtlInv, MainPoints, CallPoints
  <2>3. CASE RtFlags
    BY <2>3 DEF RtFlags, Goto, CtlInv, MainPoints, CallPoints
  <2>4. CASE RtHold
    BY <2>4 DEF RtHold, Goto, HoldFlags, DoorState, HeldState, HeldSuspend, StartsHold,
         UpdatePlanBlock, DoorSuspend, Moving, CtlInv, MainPoints, CallPoints
  <2>5. CASE RtStart
    BY <2>5 DEF RtStart, Starting, MayStart, RestoresSpindleFirst, StartCycle, Goto, DoorClosed,
         HoldFlags, DoorRestored, HasMotion, CtlInv, MainPoints, CallPoints
  <2>6. CASE RtWake
    BY <2>6 DEF RtWake, WakeUp, Goto, CtlInv, MainPoints, CallPoints
  <2>7. CASE RtStop
    BY <2>7 DEF RtStop, Goto, HoldCompletes, RtHoldComplete, RtMotionComplete, UpdatePlanBlock,
         FlushMotion, CtlInv, MainPoints, CallPoints
  <2>8. CASE RtMotionOverride
    BY <2>8 DEF RtMotionOverride, Goto, UpdatePlanBlock, CtlInv, MainPoints, CallPoints
  <2>9. CASE RtAccessoryOverride
    BY <2>9 DEF RtAccessoryOverride, Goto, SetSpindle, SetCoolant, CtlInv, MainPoints, CallPoints
  <2>10. CASE RtDryRun
    BY <2>10 DEF RtDryRun, Goto, CtlInv, MainPoints, CallPoints
  <2>11. CASE RtDone
    BY <2>11 DEF RtDone, Return, Goto, Poll, CtlInv, MainPoints, CallPoints, IInv, TypeOK,
         TypeControl, Inner
  <2> QED
    BY <1>2, <2>1, <2>2, <2>3, <2>4, <2>5, <2>6, <2>7, <2>8, <2>9, <2>10, <2>11 DEF ExecRtSystem
<1>3. CASE PrepBuffer
  BY <1>3 DEF PrepBuffer, PrepSegment, PrepHoldEnds, PrepDone, AtFill, FillDone, Goto, AfterFill,
       CtlInv, MainPoints, CallPoints
<1>4. CASE ExecRtSuspend
  BY <1>4 DEF ExecRtSuspend, SuspExit, SuspWait, SuspRetract, SuspSleep, SuspDoor, SuspHold,
       SuspRestoreSpindle, SuspRestoreCoolant, SuspResume, Return, Suspended, Poll, Parked, At,
       SetSpindle, SetCoolant, Goto, HoldComplete, Restoring, Delay, CtlInv, MainPoints,
       CallPoints, IInv, TypeOK, TypeControl
<1>5. CASE LineOps
  BY <1>5 DEF LineOps, OpUnlock, OpCheckMode, OpSleep, OpSync, AfterSync, SpindleSynced,
       CoolantSynced, ProgramPause, ProgramEnd, OpReturns, Op, Finish, McReset, AutoStart, Call,
       At, Goto, Synced, SetSpindle, SetCoolant, InMotion, CtlInv, MainPoints, CallPoints
<1>6. CASE MotionOps
  BY <1>6 DEF MotionOps, OpMove, McLine, JogWake, OpSoftLimit, SoftWait, SoftKill, SoftAlarm,
       SoftReturns, ProbeBegin, ProbeWait, ProbeEnd, Op, Finish, Call, At, AutoStart,
       UpdatePlanBlock, WakeUp, Goto, McReset, Synced, FlushMotion, InMotion, McLineEnds, CtlInv,
       MainPoints, CallPoints
<1>7. CASE StepperIsr
  BY <1>7 DEF StepperIsr, StepSegment, StepEmpty, ProbeRead, ProbeWrite, CtlInv
<1>8. CASE SerialIsr
  BY <1>8 DEF SerialIsr, McReset, Request, Override, InMotion, CtlInv
<1>9. CASE LimitIsr
  BY <1>9 DEF LimitIsr, InMotion, CtlInv
<1>10. CASE UNCHANGED vars
  BY <1>10 DEF vars, CtlInv
<1> QED
  BY <1>1, <1>2, <1>3, <1>4, <1>5, <1>6, <1>7, <1>8, <1>9, <1>10 DEF Next, Main


LEMMA ProbeFreeStep ==
  ASSUME IInv, CtlInv, ProbeFree, ~probed', [Next]_vars
  PROVE  ProbeFree'
<1> USE DEF sysVars, ovrVars, reqVars, outVars, gcVars, prepVars, isrVars, callVars
<1>1. CASE MainLoop
  <2>1. CASE Boot
    BY <2>1 DEF Boot, At, FlushMotion, Goto, ProbeFree, ProbePoints, LinePoints, CtlInv,
         MainPoints, CallPoints
  <2>2. CASE Begin
    BY <2>2 DEF Begin, At, BootLock, Goto, ProbeFree, ProbePoints, LinePoints, CtlInv, MainPoints,
         CallPoints
  <2>3. CASE ReadLine
    BY <2>3 DEF ReadLine, Call, Goto, ProbeFree, ProbePoints, LinePoints, CtlInv, MainPoints,
         CallPoints
  <2>4. CASE IdleLoop
    BY <2>4 DEF IdleLoop, AutoStart, Call, Goto, ProbeFree, ProbePoints, LinePoints, CtlInv,
         MainPoints, CallPoints
  <2>5. CASE AfterLoop
    BY <2>5 DEF AfterLoop, Goto, ProbeFree, ProbePoints, LinePoints, CtlInv, MainPoints, CallPoints
  <2>6. CASE Dispatch
    BY <2>6 DEF Dispatch, At, Goto, Locked, ProbeFree, ProbePoints, LinePoints, CtlInv,
         MainPoints, CallPoints
  <2> QED
    BY <1>1, <2>1, <2>2, <2>3, <2>4, <2>5, <2>6 DEF MainLoop
<1>2. CASE ExecRtSystem
  <2>1. CASE RtAlarm
    BY <2>1 DEF RtAlarm, Goto, ProbeFree, ProbePoints, LinePoints, CtlInv, MainPoints, CallPoints
  <2>2. CASE RtSoftLimit
    BY <2>2 DEF RtSoftLimit, Goto, ProbeFree, ProbePoints, LinePoints, CtlInv, MainPoints,
         CallPoints
  <2>3. CASE RtFlags
    BY <2>3 DEF RtFlags, Goto, ProbeFree, ProbePoints, LinePoints, CtlInv, MainPoints, CallPoints
  <2>4. CASE RtHold
    BY <2>4 DEF RtHold, Goto, HoldFlags, DoorState, HeldState, HeldSuspend, StartsHold,
         UpdatePlanBlock, DoorSuspend, Moving, ProbeFree, ProbePoints, LinePoints, CtlInv,
         MainPoints, CallPoints
  <2>5. CASE RtStart
    BY <2>5 DEF RtStart, Starting, MayStart, RestoresSpindleFirst, StartCycle, Goto, DoorClosed,
         HoldFlags, DoorRestored, HasMotion, ProbeFree, ProbePoints, LinePoints, CtlInv,
         MainPoints, CallPoints
  <2>6. CASE RtWake
    BY <2>6 DEF RtWake, WakeUp, Goto, ProbeFree, ProbePoints, LinePoints, CtlInv, MainPoints,
         CallPoints
  <2>7. CASE RtStop
    BY <2>7 DEF RtStop, Goto, HoldCompletes, RtHoldComplete, RtMotionComplete, UpdatePlanBlock,
         FlushMotion, ProbeFree, ProbePoints, LinePoints, CtlInv, MainPoints, CallPoints
  <2>8. CASE RtMotionOverride
    BY <2>8 DEF RtMotionOverride, Goto, UpdatePlanBlock, ProbeFree, ProbePoints, LinePoints,
         CtlInv, MainPoints, CallPoints
  <2>9. CASE RtAccessoryOverride
    BY <2>9 DEF RtAccessoryOverride, Goto, SetSpindle, SetCoolant, ProbeFree, ProbePoints,
         LinePoints, CtlInv, MainPoints, CallPoints
  <2>10. CASE RtDryRun
    BY <2>10 DEF RtDryRun, Goto, ProbeFree, ProbePoints, LinePoints, CtlInv, MainPoints, CallPoints
  <2>11. CASE RtDone
    BY <2>11 DEF RtDone, Return, Goto, Poll, ProbeFree, ProbePoints, LinePoints, CtlInv,
         MainPoints, CallPoints, IInv, TypeOK, TypeControl, Inner
  <2> QED
    BY <1>2, <2>1, <2>2, <2>3, <2>4, <2>5, <2>6, <2>7, <2>8, <2>9, <2>10, <2>11 DEF ExecRtSystem
<1>3. CASE PrepBuffer
  BY <1>3 DEF PrepBuffer, PrepSegment, PrepHoldEnds, PrepDone, AtFill, FillDone, Goto, AfterFill,
       ProbeFree, ProbePoints, LinePoints, CtlInv, MainPoints, CallPoints
<1>4. CASE ExecRtSuspend
  BY <1>4 DEF ExecRtSuspend, SuspExit, SuspWait, SuspRetract, SuspSleep, SuspDoor, SuspHold,
       SuspRestoreSpindle, SuspRestoreCoolant, SuspResume, Return, Suspended, Poll, Parked,
       SetSpindle, SetCoolant, Goto, HoldComplete, Restoring, Delay, ProbeFree, ProbePoints,
       LinePoints, CtlInv, MainPoints, CallPoints
<1>5. CASE LineOps
  BY <1>5, InLine DEF LineOps, OpUnlock, OpCheckMode, OpSleep, OpSync, AfterSync, SpindleSynced,
       CoolantSynced, ProgramPause, ProgramEnd, OpReturns, Op, Finish, McReset, AutoStart, Call,
       At, Goto, Synced, SetSpindle, SetCoolant, InMotion, ProbeFree, ProbePoints, LinePoints,
       CtlInv, MainPoints, CallPoints, InOp, OpPoints
<1>6. CASE MotionOps
  BY <1>6, NoProbeSteps, InLine, McLineReturns DEF MotionOps, OpMove, McLine, JogWake,
       OpSoftLimit, SoftWait, SoftKill, SoftAlarm, SoftReturns, Op, Finish, Call, At, AutoStart,
       UpdatePlanBlock, WakeUp, Goto, McReset, Synced, FlushMotion, InMotion, ProbeFree,
       ProbePoints, LinePoints, CtlInv, MainPoints, CallPoints, InOp, OpPoints
<1>7. CASE StepperIsr
  BY <1>7, NoProbeSteps DEF StepperIsr, StepSegment, StepEmpty, ProbeFree
<1>8. CASE SerialIsr
  BY <1>8 DEF SerialIsr, McReset, Request, Override, InMotion, ProbeFree
<1>9. CASE LimitIsr
  BY <1>9 DEF LimitIsr, InMotion, ProbeFree
<1>10. CASE UNCHANGED vars
  BY <1>10 DEF vars, ProbeFree
<1> QED
  BY <1>1, <1>2, <1>3, <1>4, <1>5, <1>6, <1>7, <1>8, <1>9, <1>10 DEF Next, Main

\* What an interrupt does: it adds requests and stops motors, and touches nothing else.
LEMMA InterruptFrame ==
  ASSUME IInv, ProbeFree, ~probed', SerialIsr \/ LimitIsr \/ StepperIsr
  PROVE  /\ UNCHANGED <<sysVars, gcVars, queue, loaded, recalc, left, isrVars, callVars, pc,
                        todo, rt>>
         /\ flags \subseteq flags'
         /\ stepper' => stepper
         /\ segs = 0 => segs' = 0
         /\ "CYCLE_STOP" \in flags' => "CYCLE_STOP" \in flags \/ (stepper /\ ~stepper')
         /\ "SLEEP" \in flags' => "SLEEP" \in flags
         /\ "CYCLE_START" \in flags' => "CYCLE_START" \in flags \/ "start" \in RtCommands
<1> USE DEF sysVars, ovrVars, reqVars, outVars, gcVars, prepVars, isrVars, callVars
<1>1. CASE SerialIsr
  BY <1>1 DEF SerialIsr, McReset, Request, Override, InMotion, IInv, TypeOK, TypeOutputs
<1>2. CASE LimitIsr
  BY <1>2 DEF LimitIsr, InMotion, IInv, TypeOK, TypeOutputs
<1>3. CASE StepperIsr
  BY <1>3, NoProbeSteps DEF StepperIsr, StepSegment, StepEmpty, IInv, TypeOK, TypeMotion
<1> QED
  BY <1>1, <1>2, <1>3

-----------------------------------------------------------------------------
\* Resets.  Once abort is set, the main program is on its way to the re-initialization with the
\* request still posted, and no part of protocol_exec_rt_system() past its flags runs.

AfterFlags == {"rt.hold", "rt.start", "start.fill", "start.wake", "rt.stop", "rt.motion",
               "rt.acc", "rt.dry", "rt.fill"}
ResetInv ==
  /\ abort => ("RESET" \in flags \/ pc = "rt.soft") /\ pc \notin AfterFlags
  /\ alarm # "none" => "RESET" \in flags \/ pc = "rt.soft"
  /\ pc = "soft.alarm" => "RESET" \in flags
  /\ pc = "begin" => ~abort

\* A line is a '$' command of its own, or g-code; the '$' commands run before any reset can
\* have been noticed.
LineForm ==
  /\ todo \in Seq(GcOps) \cup {<<c>> : c \in SysOps}
  /\ abort /\ pc = "op" => todo \in Seq(GcOps)

LEMMA LineTail ==
  ASSUME LineForm, todo # <<>>
  PROVE  /\ Tail(todo) \in Seq(GcOps)
         /\ Tail(todo) # <<>> => todo \in Seq(GcOps)
         /\ Head(todo) \in SysOps => Tail(todo) = <<>>
<1>1. CASE todo \in Seq(GcOps)
  <2>1. Head(todo) \in GcOps /\ Tail(todo) \in Seq(GcOps)
    BY <1>1
  <2> QED
    BY <1>1, <2>1 DEF GcOps, SysOps
<1>2. ASSUME NEW c \in SysOps, todo = <<c>> PROVE Tail(todo) = <<>>
  BY <1>2
<1>3. <<>> \in Seq(GcOps)
  OBVIOUS
<1> QED
  BY <1>1, <1>2, <1>3 DEF LineForm

\* Outside of protocol_execute_realtime() nothing is suspended.
SuspendInv ==
  /\ ~abort /\ pc \in MainPoints \cup CallPoints => suspend = {}
  /\ pc \in MainPoints \cup CallPoints => inner = "none"
  /\ pc \in SuspendPoints => inner = "suspend"

\* The sleep request is taken by the next real-time execution, before the state can change.
SleepInv ==
  ~abort =>
    /\ "SLEEP" \in flags => /\ state \in {"IDLE", "ALARM"}
                            /\ pc \in {"idle", "rt.alarm", "rt.soft", "rt.flags", "rt.hold"}
    /\ "SLEEP" \in flags /\ pc = "rt.hold" => "SLEEP" \in rt
    /\ "SLEEP" \in rt /\ pc = "rt.hold" => state \in {"IDLE", "ALARM"}

\* A reset request and its alarm last until the re-initialization.
LEMMA ResetStep ==
  ASSUME IInv, ProbeFree, ~probed', ResetInv, [Next]_vars
  PROVE  ResetInv'
<1> USE DEF sysVars, ovrVars, reqVars, outVars, gcVars, prepVars, isrVars, callVars
<1>1. CASE MainLoop
  <2>1. CASE Boot
    BY <2>1 DEF Boot, FlushMotion, Goto, ResetInv
  <2>2. CASE Begin
    BY <2>2 DEF Begin, At, BootLock, Goto, ResetInv
  <2>3. CASE ReadLine
    BY <2>3 DEF ReadLine, At, Call, Goto, ResetInv, AfterFlags
  <2>4. CASE IdleLoop
    BY <2>4 DEF IdleLoop, At, AutoStart, Call, Goto, ResetInv, AfterFlags
  <2>5. CASE AfterLoop
    BY <2>5 DEF AfterLoop, At, Goto, ResetInv, AfterFlags
  <2>6. CASE Dispatch
    BY <2>6 DEF Dispatch, At, Goto, Locked, ResetInv, AfterFlags
  <2> QED
    BY <1>1, <2>1, <2>2, <2>3, <2>4, <2>5, <2>6 DEF MainLoop
<1>2. CASE ExecRtSystem
  <2>1. CASE RtAlarm
    BY <2>1 DEF RtAlarm, At, Goto, ResetInv, AfterFlags
  <2>2. CASE RtSoftLimit
    BY <2>2 DEF RtSoftLimit, Goto, ResetInv, AfterFlags
  <2>3. CASE RtFlags
    BY <2>3 DEF RtFlags, At, Goto, ResetInv, AfterFlags
  <2>4. CASE RtHold
    BY <2>4 DEF RtHold, At, Goto, HoldFlags, DoorState, HeldState, HeldSuspend, StartsHold,
         UpdatePlanBlock, DoorSuspend, Moving, ResetInv, AfterFlags
  <2>5. CASE RtStart
    BY <2>5 DEF RtStart, At, Starting, MayStart, RestoresSpindleFirst, StartCycle, Goto,
         DoorClosed, HoldFlags, DoorRestored, HasMotion, ResetInv, AfterFlags
  <2>6. CASE RtWake
    BY <2>6 DEF RtWake, WakeUp, Goto, At, ResetInv, AfterFlags
  <2>7. CASE RtStop
    BY <2>7 DEF RtStop, At, Goto, HoldCompletes, RtHoldComplete, RtMotionComplete,
         UpdatePlanBlock, FlushMotion, ResetInv, AfterFlags
  <2>8. CASE RtMotionOverride
    BY <2>8 DEF RtMotionOverride, At, Goto, UpdatePlanBlock, ResetInv, AfterFlags
  <2>9. CASE RtAccessoryOverride
    BY <2>9 DEF RtAccessoryOverride, At, Goto, SetSpindle, SetCoolant, ResetInv, AfterFlags
  <2>10. CASE RtDryRun
    BY <2>10 DEF RtDryRun, At, Goto, ResetInv, AfterFlags
  <2>11. CASE RtDone
    BY <2>11 DEF RtDone, At, Return, Goto, Poll, ResetInv, AfterFlags, IInv, TypeOK, TypeControl,
         CallPoints, Inner
  <2> QED
    BY <1>2, <2>1, <2>2, <2>3, <2>4, <2>5, <2>6, <2>7, <2>8, <2>9, <2>10, <2>11 DEF ExecRtSystem
<1>3. CASE PrepBuffer
  BY <1>3 DEF PrepBuffer, PrepSegment, PrepHoldEnds, PrepDone, AtFill, FillDone, Goto, AfterFill,
       ResetInv, AfterFlags
<1>4. CASE ExecRtSuspend
  BY <1>4 DEF ExecRtSuspend, SuspExit, SuspWait, SuspRetract, SuspSleep, SuspDoor, SuspHold,
       SuspRestoreSpindle, SuspRestoreCoolant, SuspResume, At, Return, Suspended, Poll, Parked,
       SetSpindle, SetCoolant, Goto, HoldComplete, Restoring, Delay, ResetInv, AfterFlags, IInv,
       TypeOK, TypeControl, CallPoints
<1>5. CASE LineOps
  BY <1>5 DEF LineOps, OpUnlock, OpCheckMode, OpSleep, OpSync, AfterSync, SpindleSynced,
       CoolantSynced, ProgramPause, ProgramEnd, OpReturns, Op, Finish, McReset, AutoStart, Call,
       At, Goto, Synced, SetSpindle, SetCoolant, InMotion, ResetInv, AfterFlags
<1>6. CASE MotionOps
  BY <1>6, NoProbeSteps, McLineReturns DEF MotionOps, OpMove, McLine, JogWake, OpSoftLimit,
       SoftWait, SoftKill, SoftAlarm, SoftReturns, Op, Finish, Call, At, AutoStart,
       UpdatePlanBlock, WakeUp, Goto, McReset, Synced, FlushMotion, InMotion, ResetInv, AfterFlags
<1>7. CASE StepperIsr
  BY <1>7, NoProbeSteps DEF StepperIsr, StepSegment, StepEmpty, ResetInv
<1>8. CASE SerialIsr
  BY <1>8 DEF SerialIsr, McReset, Request, Override, InMotion, ResetInv
<1>9. CASE LimitIsr
  BY <1>9 DEF LimitIsr, InMotion, ResetInv
<1>10. CASE UNCHANGED vars
  BY <1>10 DEF vars, ResetInv
<1> QED
  BY <1>1, <1>2, <1>3, <1>4, <1>5, <1>6, <1>7, <1>8, <1>9, <1>10 DEF Next, Main

LEMMA LineFormStep ==
  ASSUME IInv, ProbeFree, ~probed', LineForm, [Next]_vars
  PROVE  LineForm'
<1> USE DEF sysVars, ovrVars, reqVars, outVars, gcVars, prepVars, isrVars, callVars
<1>1. CASE MainLoop
  <2>1. CASE Boot
    BY <2>1 DEF Boot, FlushMotion, Goto, LineForm
  <2>2. CASE Begin
    BY <2>2, ConstantAssumption DEF Begin, BootLock, Goto, LineForm
  <2>3. CASE ReadLine
    BY <2>3 DEF ReadLine, Call, Goto, LineForm
  <2>4. CASE IdleLoop
    BY <2>4 DEF IdleLoop, AutoStart, Call, Goto, LineForm
  <2>5. CASE AfterLoop
    BY <2>5 DEF AfterLoop, Goto, LineForm
  <2>6. CASE Dispatch
    BY <2>6, ConstantAssumption DEF Dispatch, Goto, Locked, LineForm
  <2> QED
    BY <1>1, <2>1, <2>2, <2>3, <2>4, <2>5, <2>6 DEF MainLoop
<1>2. CASE ExecRtSystem
  <2>1. CASE RtAlarm
    BY <2>1 DEF RtAlarm, Goto, LineForm
  <2>2. CASE RtSoftLimit
    BY <2>2 DEF RtSoftLimit, Goto, LineForm
  <2>3. CASE RtFlags
    BY <2>3 DEF RtFlags, Goto, LineForm
  <2>4. CASE RtHold
    BY <2>4 DEF RtHold, Goto, HoldFlags, DoorState, HeldState, HeldSuspend, StartsHold,
         UpdatePlanBlock, DoorSuspend, Moving, LineForm
  <2>5. CASE RtStart
    BY <2>5 DEF RtStart, Starting, MayStart, RestoresSpindleFirst, StartCycle, Goto, DoorClosed,
         HoldFlags, DoorRestored, HasMotion, LineForm
  <2>6. CASE RtWake
    BY <2>6 DEF RtWake, WakeUp, Goto, LineForm
  <2>7. CASE RtStop
    BY <2>7 DEF RtStop, Goto, HoldCompletes, RtHoldComplete, RtMotionComplete, UpdatePlanBlock,
         FlushMotion, LineForm
  <2>8. CASE RtMotionOverride
    BY <2>8 DEF RtMotionOverride, Goto, UpdatePlanBlock, LineForm
  <2>9. CASE RtAccessoryOverride
    BY <2>9 DEF RtAccessoryOverride, Goto, SetSpindle, SetCoolant, LineForm
  <2>10. CASE RtDryRun
    BY <2>10 DEF RtDryRun, Goto, LineForm
  <2>11. CASE RtDone
    BY <2>11 DEF RtDone, Return, Goto, Poll, LineForm, IInv, TypeOK, TypeControl, CallPoints,
         Inner
  <2> QED
    BY <1>2, <2>1, <2>2, <2>3, <2>4, <2>5, <2>6, <2>7, <2>8, <2>9, <2>10, <2>11 DEF ExecRtSystem
<1>3. CASE PrepBuffer
  BY <1>3 DEF PrepBuffer, PrepSegment, PrepHoldEnds, PrepDone, AtFill, FillDone, Goto, AfterFill,
       LineForm
<1>4. CASE ExecRtSuspend
  BY <1>4 DEF ExecRtSuspend, SuspExit, SuspWait, SuspRetract, SuspSleep, SuspDoor, SuspHold,
       SuspRestoreSpindle, SuspRestoreCoolant, SuspResume, Return, Suspended, Poll, Parked,
       SetSpindle, SetCoolant, Goto, HoldComplete, Restoring, Delay, LineForm, IInv, TypeOK,
       TypeControl, CallPoints
<1>5. CASE LineOps
  BY <1>5, InLine, LineTail DEF LineOps, OpUnlock, OpCheckMode, OpSleep, OpSync, AfterSync,
       SpindleSynced, CoolantSynced, ProgramPause, ProgramEnd, OpReturns, Op, Finish, McReset,
       AutoStart, Call, At, Goto, Synced, SetSpindle, SetCoolant, InMotion, LineForm, InOp,
       OpPoints
<1>6. CASE MotionOps
  BY <1>6, NoProbeSteps, InLine, LineTail, McLineReturns DEF MotionOps, OpMove, McLine, JogWake,
       OpSoftLimit, SoftWait, SoftKill, SoftAlarm, SoftReturns, Op, Finish, Call, At, AutoStart,
       UpdatePlanBlock, WakeUp, Goto, McReset, Synced, FlushMotion, InMotion, LineForm, InOp,
       OpPoints
<1>7. CASE SerialIsr \/ LimitIsr \/ StepperIsr
  BY <1>7, InterruptFrame DEF LineForm
<1>8. CASE UNCHANGED vars
  BY <1>8 DEF vars, LineForm
<1> QED
  BY <1>1, <1>2, <1>3, <1>4, <1>5, <1>6, <1>7, <1>8 DEF Next, Main

LEMMA SuspendStep ==
  ASSUME IInv, ProbeFree, ~probed', ResetInv, SuspendInv, [Next]_vars
  PROVE  SuspendInv'
<1> USE DEF sysVars, ovrVars, reqVars, outVars, gcVars, prepVars, isrVars, callVars
<1>1. CASE MainLoop
  BY <1>1 DEF MainLoop, Boot, Begin, ReadLine, IdleLoop, AfterLoop, Dispatch, At, FlushMotion,
       Goto, BootLock, Call, AutoStart, Locked, SuspendInv, MainPoints, CallPoints, SuspendPoints,
       RtPoints
<1>2. CASE ExecRtSystem
  <2>1. CASE RtAlarm
    BY <2>1 DEF RtAlarm, Goto, SuspendInv, MainPoints, CallPoints, SuspendPoints
  <2>2. CASE RtSoftLimit
    BY <2>2 DEF RtSoftLimit, Goto, SuspendInv, MainPoints, CallPoints, SuspendPoints
  <2>3. CASE RtFlags
    BY <2>3 DEF RtFlags, Goto, SuspendInv, MainPoints, CallPoints, SuspendPoints
  <2>4. CASE RtHold
    BY <2>4 DEF RtHold, Goto, HoldFlags, DoorState, HeldState, HeldSuspend, StartsHold,
         UpdatePlanBlock, DoorSuspend, Moving, SuspendInv, MainPoints, CallPoints, SuspendPoints
  <2>5. CASE RtStart
    BY <2>5 DEF RtStart, Starting, MayStart, RestoresSpindleFirst, StartCycle, Goto, DoorClosed,
         HoldFlags, DoorRestored, HasMotion, SuspendInv, MainPoints, CallPoints, SuspendPoints
  <2>6. CASE RtWake
    BY <2>6 DEF RtWake, WakeUp, Goto, SuspendInv, MainPoints, CallPoints, SuspendPoints
  <2>7. CASE RtStop
    BY <2>7 DEF RtStop, Goto, HoldCompletes, RtHoldComplete, RtMotionComplete, UpdatePlanBlock,
         FlushMotion, SuspendInv, MainPoints, CallPoints, SuspendPoints
  <2>8. CASE RtMotionOverride
    BY <2>8 DEF RtMotionOverride, Goto, UpdatePlanBlock, SuspendInv, MainPoints, CallPoints,
         SuspendPoints
  <2>9. CASE RtAccessoryOverride
    BY <2>9 DEF RtAccessoryOverride, Goto, SetSpindle, SetCoolant, SuspendInv, MainPoints,
         CallPoints, SuspendPoints
  <2>10. CASE RtDryRun
    BY <2>10 DEF RtDryRun, Goto, SuspendInv, MainPoints, CallPoints, SuspendPoints
  <2>11. CASE RtDone
    BY <2>11 DEF RtDone, Return, Goto, Poll, SuspendInv, MainPoints, CallPoints, SuspendPoints,
         IInv, TypeOK, TypeControl, Inner
  <2> QED
    BY <1>2, <2>1, <2>2, <2>3, <2>4, <2>5, <2>6, <2>7, <2>8, <2>9, <2>10, <2>11 DEF ExecRtSystem
<1>3. CASE PrepBuffer
  BY <1>3 DEF PrepBuffer, PrepSegment, PrepHoldEnds, PrepDone, AtFill, FillDone, Goto, AfterFill,
       SuspendInv, MainPoints, CallPoints, SuspendPoints
<1>4. CASE ExecRtSuspend
  BY <1>4 DEF ExecRtSuspend, SuspExit, SuspWait, SuspRetract, SuspSleep, SuspDoor, SuspHold,
       SuspRestoreSpindle, SuspRestoreCoolant, SuspResume, At, Return, Suspended, Poll, Parked,
       SetSpindle, SetCoolant, Goto, HoldComplete, Restoring, Delay, SuspendInv, MainPoints,
       CallPoints, SuspendPoints, IInv, TypeOK, TypeControl
<1>5. CASE LineOps
  BY <1>5 DEF LineOps, OpUnlock, OpCheckMode, OpSleep, OpSync, AfterSync, SpindleSynced,
       CoolantSynced, ProgramPause, ProgramEnd, OpReturns, Op, Finish, McReset, AutoStart, Call,
       At, Goto, Synced, SetSpindle, SetCoolant, InMotion, SuspendInv, MainPoints, CallPoints,
       SuspendPoints, RtPoints
<1>6. CASE MotionOps
  BY <1>6, NoProbeSteps, McLineReturns DEF MotionOps, OpMove, McLine, JogWake, OpSoftLimit,
       SoftWait, SoftKill, SoftAlarm, SoftReturns, Op, Finish, Call, At, AutoStart,
       UpdatePlanBlock, WakeUp, Goto, McReset, Synced, FlushMotion, InMotion, SuspendInv,
       MainPoints, CallPoints, SuspendPoints, RtPoints
<1>7. CASE SerialIsr \/ LimitIsr \/ StepperIsr
  BY <1>7, InterruptFrame DEF SuspendInv
<1>8. CASE UNCHANGED vars
  BY <1>8 DEF vars, SuspendInv
<1> QED
  BY <1>1, <1>2, <1>3, <1>4, <1>5, <1>6, <1>7, <1>8 DEF Next, Main

LEMMA SleepStep ==
  ASSUME IInv, ProbeFree, ~probed', ResetInv, LineForm, SuspendInv, SleepInv, [Next]_vars
  PROVE  SleepInv'
<1> USE DEF sysVars, ovrVars, reqVars, outVars, gcVars, prepVars, isrVars, callVars
<1>1. CASE MainLoop
  <2>1. CASE Boot
    BY <2>1 DEF Boot, FlushMotion, Goto, SleepInv
  <2>2. CASE Begin
    BY <2>2 DEF Begin, At, BootLock, Goto, SleepInv
  <2>3. CASE ReadLine
    BY <2>3 DEF ReadLine, Call, Goto, SleepInv
  <2>4. CASE IdleLoop
    BY <2>4 DEF IdleLoop, AutoStart, Call, Goto, SleepInv
  <2>5. CASE AfterLoop
    BY <2>5 DEF AfterLoop, Goto, SleepInv
  <2>6. CASE Dispatch
    BY <2>6 DEF Dispatch, At, Goto, Locked, SleepInv
  <2> QED
    BY <1>1, <2>1, <2>2, <2>3, <2>4, <2>5, <2>6 DEF MainLoop
<1>2. CASE ExecRtSystem
  <2>1. CASE RtAlarm
    BY <2>1 DEF RtAlarm, Goto, SleepInv
  <2>2. CASE RtSoftLimit
    BY <2>2 DEF RtSoftLimit, Goto, SleepInv
  <2>3. CASE RtFlags
    BY <2>3 DEF RtFlags, At, Goto, SleepInv, ResetInv, AfterFlags
  <2>4. CASE RtHold
    BY <2>4 DEF RtHold, At, Goto, HoldFlags, DoorState, HeldState, HeldSuspend, StartsHold,
         UpdatePlanBlock, DoorSuspend, Moving, SleepInv
  <2>5. CASE RtStart
    BY <2>5 DEF RtStart, At, Starting, MayStart, RestoresSpindleFirst, StartCycle, Goto,
         DoorClosed, HoldFlags, DoorRestored, HasMotion, SleepInv
  <2>6. CASE RtWake
    BY <2>6 DEF RtWake, WakeUp, Goto, At, SleepInv
  <2>7. CASE RtStop
    BY <2>7 DEF RtStop, At, Goto, HoldCompletes, RtHoldComplete, RtMotionComplete,
         UpdatePlanBlock, FlushMotion, SleepInv
  <2>8. CASE RtMotionOverride
    BY <2>8 DEF RtMotionOverride, At, Goto, UpdatePlanBlock, SleepInv
  <2>9. CASE RtAccessoryOverride
    BY <2>9 DEF RtAccessoryOverride, At, Goto, SetSpindle, SetCoolant, SleepInv
  <2>10. CASE RtDryRun
    BY <2>10 DEF RtDryRun, At, Goto, SleepInv
  <2>11. CASE RtDone
    BY <2>11 DEF RtDone, At, Return, Goto, Poll, SleepInv
  <2> QED
    BY <1>2, <2>1, <2>2, <2>3, <2>4, <2>5, <2>6, <2>7, <2>8, <2>9, <2>10, <2>11 DEF ExecRtSystem
<1>3. CASE PrepBuffer
  BY <1>3 DEF PrepBuffer, PrepSegment, PrepHoldEnds, PrepDone, AtFill, FillDone, Goto, AfterFill,
       SleepInv
<1>4. CASE ExecRtSuspend
  BY <1>4 DEF ExecRtSuspend, SuspExit, SuspWait, SuspRetract, SuspSleep, SuspDoor, SuspHold,
       SuspRestoreSpindle, SuspRestoreCoolant, SuspResume, At, Return, Suspended, Poll, Parked,
       SetSpindle, SetCoolant, Goto, HoldComplete, Restoring, Delay, SleepInv, IInv, TypeOK,
       TypeControl, CallPoints
<1>5. CASE LineOps
  BY <1>5, LineTail DEF LineOps, OpUnlock, OpCheckMode, OpSleep, OpSync, AfterSync, SpindleSynced,
       CoolantSynced, ProgramPause, ProgramEnd, OpReturns, Op, Finish, McReset, AutoStart, Call,
       At, Goto, Synced, SetSpindle, SetCoolant, InMotion, SleepInv, SysOps
<1>6. CASE MotionOps
  BY <1>6, NoProbeSteps, McLineReturns DEF MotionOps, OpMove, McLine, JogWake, OpSoftLimit,
       SoftWait, SoftKill, SoftAlarm, SoftReturns, Op, Finish, Call, At, AutoStart,
       UpdatePlanBlock, WakeUp, Goto, McReset, Synced, FlushMotion, InMotion, SleepInv
<1>7. CASE SerialIsr \/ LimitIsr \/ StepperIsr
  BY <1>7, InterruptFrame DEF SleepInv
<1>8. CASE UNCHANGED vars
  BY <1>8 DEF vars, SleepInv
<1> QED
  BY <1>1, <1>2, <1>3, <1>4, <1>5, <1>6, <1>7, <1>8 DEF Next, Main

-----------------------------------------------------------------------------
\* The motors.

\* CYCLE_STOP has been posted, and the state it ends not yet left.
Scanning == {"rt.hold", "rt.start", "start.fill", "start.wake", "rt.stop"}
StopPending == "CYCLE_STOP" \in flags \/ (pc \in Scanning /\ "CYCLE_STOP" \in rt)
Running == stepper \/ StopPending

\* An alarm whose reset is about to abort the main program.
Dying == state = "ALARM" /\ pc = "rt.flags" /\ "RESET" \in flags

StopInv ==
  ~abort =>
    /\ StopPending => ~stepper
    /\ Running => state \in {"CYCLE", "JOG", "HOLD", "DOOR"} \/ Dying
    /\ Running => "HOLD_COMPLETE" \notin suspend
    /\ pc \in {"start.fill", "start.wake"} => state = "CYCLE" /\ suspend = {} /\ ~Running
    /\ pc \in {"jog.fill", "jog.wake"} => state = "JOG" /\ ~Running
    /\ pc = "begin" => ~Running /\ queue = <<>> /\ segs = 0
    /\ state = "DOOR" /\ pc # "begin" /\ "DOOR_AJAR" \notin suspend => "HOLD_COMPLETE" \in suspend
    /\ "JOG_CANCEL" \in suspend => state = "JOG" \/ Dying

RestInv ==
  /\ state \in {"IDLE", "CHECK"} => ~stepper
  /\ pc \in {"jog.fill", "jog.wake"} => state = "JOG"

CalmInv ==
  ~abort /\ state = "ALARM" /\ ~Dying /\ pc # "begin" =>
    /\ queue = <<>> /\ segs = 0 /\ suspend = {} /\ inner = "none"
    /\ InOp => pc = "op" /\ Head(todo) \in SysOps

LEMMA StopStep ==
  ASSUME IInv, ProbeFree, ~probed', ResetInv, SuspendInv, SleepInv, StopInv, [Next]_vars
  PROVE  StopInv'
<1> USE DEF sysVars, ovrVars, reqVars, outVars, gcVars, prepVars, isrVars, callVars
<1>1. CASE MainLoop
  <2>1. CASE Boot
    BY <2>1 DEF Boot, FlushMotion, Goto, StopInv, Running, StopPending, Scanning
  <2>2. CASE Begin
    BY <2>2 DEF Begin, At, BootLock, Goto, StopInv, Running, StopPending, Scanning, SuspendInv,
         MainPoints
  <2>3. CASE ReadLine
    BY <2>3 DEF ReadLine, At, Call, Goto, StopInv, Running, StopPending, Scanning, Dying
  <2>4. CASE IdleLoop
    BY <2>4 DEF IdleLoop, At, AutoStart, Call, Goto, StopInv, Running, StopPending, Scanning,
         Dying
  <2>5. CASE AfterLoop
    BY <2>5 DEF AfterLoop, At, Goto, StopInv, Running, StopPending, Scanning, Dying
  <2>6. CASE Dispatch
    BY <2>6 DEF Dispatch, At, Goto, Locked, StopInv, Running, StopPending, Scanning, Dying
  <2> QED
    BY <1>1, <2>1, <2>2, <2>3, <2>4, <2>5, <2>6 DEF MainLoop
<1>2. CASE ExecRtSystem
  <2>1. CASE RtAlarm
    BY <2>1 DEF RtAlarm, At, Goto, StopInv, Running, StopPending, Scanning, Dying, ResetInv
  <2>2. CASE RtSoftLimit
    BY <2>2 DEF RtSoftLimit, Goto, StopInv, Running, StopPending, Scanning, Dying
  <2>3. CASE RtFlags
    BY <2>3 DEF RtFlags, At, Goto, StopInv, Running, StopPending, Scanning, Dying, IInv, TypeOK,
         TypeControl, SuspendInv, Inner, ResetInv, AfterFlags, MainPoints, CallPoints,
         SuspendPoints, RtPoints
  <2>4. CASE RtHold
    BY <2>4 DEF RtHold, At, Goto, HoldFlags, DoorState, HeldState, HeldSuspend, StartsHold,
         UpdatePlanBlock, DoorSuspend, Moving, StopInv, Running, StopPending, Scanning, Dying,
         SleepInv
  <2>5. CASE RtStart
    BY <2>5 DEF RtStart, At, Starting, MayStart, RestoresSpindleFirst, StartCycle, Goto,
         DoorClosed, HoldFlags, DoorRestored, HasMotion, StopInv, Running, StopPending, Scanning,
         Dying
  <2>6. CASE RtWake
    BY <2>6 DEF RtWake, WakeUp, Goto, At, StopInv, Running, StopPending, Scanning
  <2>7. CASE RtStop
    BY <2>7 DEF RtStop, At, Goto, HoldCompletes, RtHoldComplete, RtMotionComplete,
         UpdatePlanBlock, FlushMotion, StopInv, Running, StopPending, Scanning, Dying
  <2>8. CASE RtMotionOverride
    BY <2>8 DEF RtMotionOverride, At, Goto, UpdatePlanBlock, StopInv, Running, StopPending,
         Scanning, Dying
  <2>9. CASE RtAccessoryOverride
    BY <2>9 DEF RtAccessoryOverride, At, Goto, SetSpindle, SetCoolant, StopInv, Running,
         StopPending, Scanning, Dying
  <2>10. CASE RtDryRun
    BY <2>10 DEF RtDryRun, At, Goto, StopInv, Running, StopPending, Scanning, Dying
  <2>11. CASE RtDone
    BY <2>11 DEF RtDone, At, Return, Goto, Poll, StopInv, Running, StopPending, Dying, IInv,
         TypeOK, TypeControl, Inner, CallPoints
  <2> QED
    BY <1>2, <2>1, <2>2, <2>3, <2>4, <2>5, <2>6, <2>7, <2>8, <2>9, <2>10, <2>11 DEF ExecRtSystem
<1>3. CASE PrepBuffer
  BY <1>3 DEF PrepBuffer, PrepSegment, PrepHoldEnds, PrepDone, AtFill, FillDone, Goto, AfterFill,
       StopInv, Running, StopPending, Scanning, Dying
<1>4. CASE ExecRtSuspend
  BY <1>4 DEF ExecRtSuspend, SuspExit, SuspWait, SuspRetract, SuspSleep, SuspDoor, SuspHold,
       SuspRestoreSpindle, SuspRestoreCoolant, SuspResume, At, Return, Suspended, Poll, Parked,
       SetSpindle, SetCoolant, Goto, HoldComplete, Restoring, Delay, StopInv, Running,
       StopPending, Scanning, Dying, IInv, TypeOK, TypeControl, CallPoints
<1>5. CASE LineOps
  BY <1>5 DEF LineOps, OpUnlock, OpCheckMode, OpSleep, OpSync, AfterSync, SpindleSynced,
       CoolantSynced, ProgramPause, ProgramEnd, OpReturns, Op, Finish, McReset, AutoStart, Call,
       At, Goto, Synced, SetSpindle, SetCoolant, InMotion, StopInv, Running, StopPending,
       Scanning, Dying, IInv, TypeOK, TypeOutputs
<1>6. CASE MotionOps
  BY <1>6, NoProbeSteps, McLineReturns DEF MotionOps, OpMove, McLine, JogWake, OpSoftLimit,
       SoftWait, SoftKill, SoftAlarm, SoftReturns, Op, Finish, Call, At, AutoStart,
       UpdatePlanBlock, WakeUp, Goto, McReset, Synced, FlushMotion, InMotion, StopInv, Running,
       StopPending, Scanning, Dying, SuspendInv, MainPoints, IInv, TypeOK, TypeOutputs
<1>7. CASE SerialIsr \/ LimitIsr \/ StepperIsr
  BY <1>7, InterruptFrame DEF StopInv, Running, StopPending, Dying
<1>8. CASE UNCHANGED vars
  BY <1>8 DEF vars, StopInv, Running, StopPending, Dying
<1> QED
  BY <1>1, <1>2, <1>3, <1>4, <1>5, <1>6, <1>7, <1>8 DEF Next, Main

\* In idle, and before a jog starts its own cycle, the motors stand still, aborted or not.
LEMMA RestStep ==
  ASSUME IInv, ProbeFree, ~probed', ResetInv, LineForm, SuspendInv, StopInv, RestInv,
         [Next]_vars
  PROVE  RestInv'
<1> USE DEF sysVars, ovrVars, reqVars, outVars, gcVars, prepVars, isrVars, callVars
<1>1. CASE MainLoop
  <2>1. CASE Boot
    BY <2>1 DEF Boot, FlushMotion, Goto, RestInv
  <2>2. CASE Begin
    BY <2>2 DEF Begin, At, BootLock, Goto, RestInv, StopInv, Running, ResetInv
  <2>3. CASE ReadLine
    BY <2>3 DEF ReadLine, Call, Goto, RestInv
  <2>4. CASE IdleLoop
    BY <2>4 DEF IdleLoop, AutoStart, Call, Goto, RestInv
  <2>5. CASE AfterLoop
    BY <2>5 DEF AfterLoop, Goto, RestInv
  <2>6. CASE Dispatch
    BY <2>6 DEF Dispatch, Goto, Locked, RestInv
  <2> QED
    BY <1>1, <2>1, <2>2, <2>3, <2>4, <2>5, <2>6 DEF MainLoop
<1>2. CASE ExecRtSystem
  <2>1. CASE RtAlarm
    BY <2>1 DEF RtAlarm, Goto, RestInv
  <2>2. CASE RtSoftLimit
    BY <2>2 DEF RtSoftLimit, Goto, RestInv
  <2>3. CASE RtFlags
    BY <2>3 DEF RtFlags, Goto, RestInv
  <2>4. CASE RtHold
    BY <2>4 DEF RtHold, Goto, HoldFlags, DoorState, HeldState, HeldSuspend, StartsHold,
         UpdatePlanBlock, DoorSuspend, Moving, RestInv
  <2>5. CASE RtStart
    BY <2>5 DEF RtStart, At, Starting, MayStart, RestoresSpindleFirst, StartCycle, Goto,
         DoorClosed, HoldFlags, DoorRestored, HasMotion, RestInv, StopInv, Running, ResetInv,
         AfterFlags
  <2>6. CASE RtWake
    BY <2>6 DEF RtWake, WakeUp, Goto, At, RestInv, StopInv, ResetInv, AfterFlags
  <2>7. CASE RtStop
    BY <2>7 DEF RtStop, At, Goto, HoldCompletes, RtHoldComplete, RtMotionComplete,
         UpdatePlanBlock, FlushMotion, RestInv, StopInv, StopPending, Scanning, ResetInv,
         AfterFlags
  <2>8. CASE RtMotionOverride
    BY <2>8 DEF RtMotionOverride, Goto, UpdatePlanBlock, RestInv
  <2>9. CASE RtAccessoryOverride
    BY <2>9 DEF RtAccessoryOverride, Goto, SetSpindle, SetCoolant, RestInv
  <2>10. CASE RtDryRun
    BY <2>10 DEF RtDryRun, Goto, RestInv
  <2>11. CASE RtDone
    BY <2>11 DEF RtDone, Return, Goto, Poll, RestInv, IInv, TypeOK, TypeControl, CallPoints, Inner
  <2> QED
    BY <1>2, <2>1, <2>2, <2>3, <2>4, <2>5, <2>6, <2>7, <2>8, <2>9, <2>10, <2>11 DEF ExecRtSystem
<1>3. CASE PrepBuffer
  BY <1>3 DEF PrepBuffer, PrepSegment, PrepHoldEnds, PrepDone, AtFill, FillDone, Goto, AfterFill,
       RestInv
<1>4. CASE ExecRtSuspend
  BY <1>4 DEF ExecRtSuspend, SuspExit, SuspWait, SuspRetract, SuspSleep, SuspDoor, SuspHold,
       SuspRestoreSpindle, SuspRestoreCoolant, SuspResume, Return, Suspended, Poll, Parked,
       SetSpindle, SetCoolant, Goto, HoldComplete, Restoring, Delay, RestInv, IInv, TypeOK,
       TypeControl, CallPoints
<1>5. CASE LineOps
  <2>1. CASE OpUnlock
    BY <2>1, InLine DEF OpUnlock, Op, Finish, At, Goto, RestInv, StopInv, Running, Dying,
         LineForm, GcOps, InOp, OpPoints
  <2>2. CASE OpCheckMode
    BY <2>2 DEF OpCheckMode, Op, Finish, McReset, At, Goto, InMotion, RestInv, StopInv, Running,
         StopPending, Scanning, Dying, ResetInv, AfterFlags
  <2>3. CASE OpSleep
    BY <2>3 DEF OpSleep, Op, Finish, Goto, RestInv
  <2>4. CASE OpSync
    BY <2>4 DEF OpSync, Op, Finish, AutoStart, Call, Goto, RestInv
  <2>5. CASE AfterSync
    BY <2>5 DEF AfterSync, Call, Goto, RestInv
  <2>6. CASE SpindleSynced
    BY <2>6 DEF SpindleSynced, Synced, SetSpindle, Finish, Goto, RestInv
  <2>7. CASE CoolantSynced
    BY <2>7 DEF CoolantSynced, Synced, SetCoolant, Finish, Goto, RestInv
  <2>8. CASE ProgramPause
    BY <2>8 DEF ProgramPause, Synced, Call, Finish, Goto, RestInv
  <2>9. CASE ProgramEnd
    BY <2>9 DEF ProgramEnd, Synced, Finish, SetSpindle, SetCoolant, Goto, RestInv
  <2>10. CASE OpReturns
    BY <2>10 DEF OpReturns, Finish, Goto, RestInv
  <2> QED
    BY <1>5, <2>1, <2>2, <2>3, <2>4, <2>5, <2>6, <2>7, <2>8, <2>9, <2>10 DEF LineOps
<1>6. CASE MotionOps
  <2>1. CASE OpMove
    BY <2>1 DEF OpMove, Op, Finish, Call, Goto, RestInv
  <2>2. CASE McLine
    BY <2>2, McLineReturns DEF McLine, At, AutoStart, Call, UpdatePlanBlock, Goto, Finish, RestInv
  <2>3. CASE JogWake
    BY <2>3 DEF JogWake, WakeUp, Finish, At, Goto, RestInv
  <2>4. CASE OpSoftLimit
    BY <2>4 DEF OpSoftLimit, Op, Call, Goto, RestInv
  <2>5. CASE SoftWait
    BY <2>5 DEF SoftWait, Call, Goto, RestInv
  <2>6. CASE SoftKill
    BY <2>6 DEF SoftKill, At, McReset, Goto, InMotion, RestInv, StopInv, Running, StopPending,
         Scanning, Dying, ResetInv, AfterFlags
  <2>7. CASE SoftAlarm
    BY <2>7 DEF SoftAlarm, Call, Goto, RestInv
  <2>8. CASE SoftReturns
    BY <2>8 DEF SoftReturns, Finish, Call, Goto, RestInv
  <2> QED
    BY <1>6, <2>1, <2>2, <2>3, <2>4, <2>5, <2>6, <2>7, <2>8, NoProbeSteps DEF MotionOps
<1>7. CASE SerialIsr \/ LimitIsr \/ StepperIsr
  BY <1>7, InterruptFrame DEF RestInv
<1>8. CASE UNCHANGED vars
  BY <1>8 DEF vars, RestInv
<1> QED
  BY <1>1, <1>2, <1>3, <1>4, <1>5, <1>6, <1>7, <1>8 DEF Next, Main

\* The alarm state that the main loop is back in: nothing of a motion or of a suspend is left.
LEMMA CalmStep ==
  ASSUME IInv, ProbeFree, ~probed', ResetInv, LineForm, SuspendInv, SleepInv, StopInv,
         CalmInv, [Next]_vars
  PROVE  CalmInv'
<1> USE DEF sysVars, ovrVars, reqVars, outVars, gcVars, prepVars, isrVars, callVars
<1>1. CASE MainLoop
  <2>1. CASE Boot
    BY <2>1 DEF Boot, FlushMotion, Goto, CalmInv
  <2>2. CASE Begin
    BY <2>2 DEF Begin, At, BootLock, Goto, CalmInv, InOp, OpPoints, StopInv, SuspendInv,
         MainPoints, SuspendPoints, RtPoints
  <2>3. CASE ReadLine
    BY <2>3 DEF ReadLine, At, Call, Goto, CalmInv, Dying, InOp, OpPoints
  <2>4. CASE IdleLoop
    BY <2>4 DEF IdleLoop, At, AutoStart, Call, Goto, CalmInv, Dying, InOp, OpPoints
  <2>5. CASE AfterLoop
    BY <2>5 DEF AfterLoop, At, Goto, CalmInv, Dying, InOp, OpPoints, SuspendPoints, RtPoints
  <2>6. CASE Dispatch
    BY <2>6, ConstantAssumption DEF Dispatch, At, Goto, Locked, CalmInv, Dying, InOp, OpPoints,
         GcOps, SuspendPoints, RtPoints
  <2> QED
    BY <1>1, <2>1, <2>2, <2>3, <2>4, <2>5, <2>6 DEF MainLoop
<1>2. CASE ExecRtSystem
  <2>1. CASE RtAlarm
    BY <2>1 DEF RtAlarm, At, Goto, CalmInv, Dying, InOp, OpPoints, ResetInv, RtPoints
  <2>2. CASE RtSoftLimit
    BY <2>2 DEF RtSoftLimit, Goto, CalmInv, Dying
  <2>3. CASE RtFlags
    BY <2>3 DEF RtFlags, At, Goto, CalmInv, Dying, InOp, OpPoints, IInv, TypeOK, TypeControl,
         SuspendInv, Inner, ResetInv, AfterFlags, MainPoints, CallPoints, SuspendPoints, RtPoints
  <2>4. CASE RtHold
    BY <2>4 DEF RtHold, At, Goto, HoldFlags, DoorState, HeldState, HeldSuspend, StartsHold,
         UpdatePlanBlock, DoorSuspend, Moving, CalmInv, Dying, InOp, OpPoints, RtPoints
  <2>5. CASE RtStart
    BY <2>5 DEF RtStart, At, Starting, MayStart, RestoresSpindleFirst, StartCycle, Goto,
         DoorClosed, HoldFlags, DoorRestored, HasMotion, CalmInv, Dying, InOp, OpPoints, RtPoints
  <2>6. CASE RtWake
    BY <2>6 DEF RtWake, WakeUp, Goto, At, CalmInv, Dying, InOp, OpPoints, RtPoints
  <2>7. CASE RtStop
    BY <2>7 DEF RtStop, At, Goto, HoldCompletes, RtHoldComplete, RtMotionComplete,
         UpdatePlanBlock, FlushMotion, CalmInv, Dying, InOp, OpPoints, RtPoints
  <2>8. CASE RtMotionOverride
    BY <2>8 DEF RtMotionOverride, At, Goto, UpdatePlanBlock, CalmInv, Dying, InOp, OpPoints,
         RtPoints
  <2>9. CASE RtAccessoryOverride
    BY <2>9 DEF RtAccessoryOverride, At, Goto, SetSpindle, SetCoolant, CalmInv, Dying, InOp,
         OpPoints, RtPoints
  <2>10. CASE RtDryRun
    BY <2>10 DEF RtDryRun, At, Goto, CalmInv, Dying, InOp, OpPoints, RtPoints
  <2>11. CASE RtDone
    BY <2>11 DEF RtDone, At, Return, Goto, Poll, CalmInv, Dying, InOp, OpPoints, RtPoints
  <2> QED
    BY <1>2, <2>1, <2>2, <2>3, <2>4, <2>5, <2>6, <2>7, <2>8, <2>9, <2>10, <2>11 DEF ExecRtSystem
<1>3. CASE PrepBuffer
  BY <1>3 DEF PrepBuffer, PrepSegment, PrepHoldEnds, PrepDone, AtFill, FillDone, Goto, AfterFill,
       CalmInv, Dying, InOp, OpPoints, IInv, RtPoints, PrepInv, PartialBlockKept
<1>4. CASE ExecRtSuspend
  BY <1>4 DEF ExecRtSuspend, SuspExit, SuspWait, SuspRetract, SuspSleep, SuspDoor, SuspHold,
       SuspRestoreSpindle, SuspRestoreCoolant, SuspResume, At, Return, Suspended, Poll, Parked,
       SetSpindle, SetCoolant, Goto, HoldComplete, Restoring, Delay, CalmInv, Dying, SuspendInv,
       SuspendPoints
<1>5. CASE LineOps
  BY <1>5, InLine, LineTail DEF LineOps, OpUnlock, OpCheckMode, OpSleep, OpSync, AfterSync,
       SpindleSynced, CoolantSynced, ProgramPause, ProgramEnd, OpReturns, Op, Finish, McReset,
       AutoStart, Call, At, Goto, Synced, SetSpindle, SetCoolant, InMotion, CalmInv, Dying, InOp,
       OpPoints, SysOps, GcOps
<1>6. CASE MotionOps
  BY <1>6, NoProbeSteps, InLine, LineTail, McLineReturns DEF MotionOps, OpMove, McLine, JogWake,
       OpSoftLimit, SoftWait, SoftKill, SoftAlarm, SoftReturns, Op, Finish, Call, At, AutoStart,
       UpdatePlanBlock, WakeUp, Goto, McReset, Synced, FlushMotion, InMotion, CalmInv, Dying,
       InOp, OpPoints, SysOps, GcOps
<1>7. CASE SerialIsr \/ LimitIsr \/ StepperIsr
  BY <1>7, InterruptFrame DEF CalmInv, Dying, InOp
<1>8. CASE UNCHANGED vars
  BY <1>8 DEF vars, CalmInv, Dying, InOp
<1> QED
  BY <1>1, <1>2, <1>3, <1>4, <1>5, <1>6, <1>7, <1>8 DEF Next, Main

-----------------------------------------------------------------------------
MotionInv ==
  /\ IInv /\ ProbeFree /\ ResetInv /\ LineForm /\ SuspendInv /\ SleepInv
  /\ StopInv /\ RestInv /\ CalmInv

LEMMA InitMotion == Init => MotionInv
<1> SUFFICES ASSUME Init PROVE MotionInv
  OBVIOUS
<1>1. IInv
  BY InitIInv
<1>2. LineForm
  BY DEF Init, LineForm
<1>3. ProbeFree /\ ResetInv /\ SuspendInv /\ SleepInv /\ RestInv
  BY DEF Init, ProbeFree, ProbePoints, LinePoints, ResetInv, AfterFlags, SuspendInv,
       SuspendPoints, SleepInv, RestInv
<1>4. StopInv
  BY DEF Init, StopInv, Running, StopPending, Scanning
<1>5. CalmInv
  BY DEF Init, CalmInv, Dying, InOp, OpPoints, RtPoints, SuspendPoints
<1> QED
  BY <1>1, <1>2, <1>3, <1>4, <1>5 DEF MotionInv

LEMMA MotionStep ==
  ASSUME CtlInv, MotionInv, ~probed', [Next]_vars
  PROVE  MotionInv'
BY StepIInv, ProbeFreeStep, ResetStep, LineFormStep, SuspendStep, SleepStep, StopStep, RestStep,
   CalmStep DEF MotionInv

\* The re-initialization undoes what a probing cycle can have left behind.
LEMMA BootMotion ==
  ASSUME IInv, CtlInv, Boot, IInv'
  PROVE  MotionInv'
<1> USE DEF Boot, At, Goto, FlushMotion, callVars
<1>1. ProbeFree' /\ SuspendInv'
  BY DEF CtlInv, MainPoints, ProbeFree, ProbePoints, LinePoints, SuspendInv, SuspendPoints
<1>2. ResetInv' /\ LineForm' /\ SleepInv'
  BY DEF ResetInv, AfterFlags, LineForm, SleepInv
<1>3. StopInv' /\ RestInv' /\ CalmInv'
  BY DEF StopInv, Running, StopPending, Scanning, RestInv, CalmInv
<1> QED
  BY <1>1, <1>2, <1>3 DEF MotionInv

\* What changes probed.
LEMMA ProbedSteps ==
  ASSUME [Next]_vars
  PROVE  Boot \/ ProbeBegin \/ probed' = probed
<1> USE DEF sysVars, ovrVars, reqVars, outVars, gcVars, prepVars, isrVars, callVars
<1>1. CASE MainLoop
  BY <1>1 DEF MainLoop, Begin, ReadLine, IdleLoop, AfterLoop, Dispatch
<1>2. CASE ExecRtSystem
  BY <1>2 DEF ExecRtSystem, RtAlarm, RtSoftLimit, RtFlags, RtHold, RtStart, RtWake, WakeUp,
       RtStop, RtMotionOverride, RtAccessoryOverride, RtDryRun, RtDone
<1>3. CASE PrepBuffer \/ ExecRtSuspend
  BY <1>3 DEF PrepBuffer, PrepSegment, PrepHoldEnds, PrepDone, ExecRtSuspend, SuspExit, SuspWait,
       SuspRetract, SuspSleep, SuspDoor, SuspHold, SuspRestoreSpindle, SuspRestoreCoolant,
       SuspResume
<1>4. CASE LineOps \/ MotionOps
  BY <1>4 DEF LineOps, OpUnlock, OpCheckMode, OpSleep, OpSync, AfterSync, SpindleSynced,
       CoolantSynced, ProgramPause, ProgramEnd, OpReturns, MotionOps, OpMove, McLine, JogWake,
       WakeUp, OpSoftLimit, SoftWait, SoftKill, SoftAlarm, SoftReturns, ProbeWait,
       ProbeEnd
<1>5. CASE SerialIsr \/ LimitIsr \/ StepperIsr
  BY <1>5 DEF SerialIsr, LimitIsr, StepperIsr, StepSegment, StepEmpty, ProbeRead, ProbeWrite
<1>6. CASE UNCHANGED vars
  BY <1>6 DEF vars
<1> QED
  BY <1>1, <1>2, <1>3, <1>4, <1>5, <1>6 DEF Next, Main

\* What holds in every state, with or without a probing cycle.
SessionInv == IInv /\ CtlInv /\ (probed \/ MotionInv)

LEMMA SessionHolds == Spec => []SessionInv
<1>1. Init => SessionInv
  BY InitMotion DEF Init, CtlInv, SessionInv, MotionInv
<1>2. SessionInv /\ [Next]_vars => SessionInv'
  <2> SUFFICES ASSUME SessionInv, [Next]_vars PROVE SessionInv'
    OBVIOUS
  <2>1. IInv' /\ CtlInv'
    BY StepIInv, CtlStep DEF SessionInv
  <2>2. CASE probed'
    BY <2>1, <2>2 DEF SessionInv
  <2>3. CASE ~probed /\ ~probed'
    BY <2>1, <2>3, MotionStep DEF SessionInv
  <2>4. CASE probed /\ ~probed'
    BY <2>1, <2>4, ProbedSteps, BootMotion DEF SessionInv, ProbeBegin
  <2> QED
    BY <2>2, <2>3, <2>4
<1> QED
  BY <1>1, <1>2, PTL DEF Spec

\* From each re-initialization until the first G38, MotionInv holds.
THEOREM MotionInvHolds == Spec => [](probed \/ MotionInv)
<1>1. SessionInv => probed \/ MotionInv
  BY DEF SessionInv
<1> QED
  BY <1>1, SessionHolds, PTL

\* Nothing steps the motors while the firmware reports that no motion is in progress
\* (protocol.c:388: IDLE is entered when the stepper interrupt has stopped itself), from the
\* re-initialization until the first G38.
THEOREM StoppedTheorem == Spec => [](probed \/ StoppedWhenIdle)
<1>1. MotionInv => StoppedWhenIdle
  BY DEF MotionInv, RestInv, StoppedWhenIdle
<1> QED
  BY <1>1, MotionInvHolds, PTL

\* A hold is declared complete only when the motors have stopped (protocol.c:593), from the
\* re-initialization to the next reset or the first G38.
THEOREM HoldCompleteTheorem == Spec => [](probed \/ HoldCompleteStopped)
<1>1. MotionInv => HoldCompleteStopped
  BY DEF MotionInv, StopInv, Running, HoldCompleteStopped
<1> QED
  BY <1>1, MotionInvHolds, PTL

\* Once the main loop is back with an alarm, nothing moves, nothing is queued and no segment is
\* left to be stepped out when the alarm is unlocked (main.c:110, protocol.c:57), until the first
\* G38.
THEOREM AlarmQuietTheorem == Spec => [](probed \/ AlarmQuiet)
<1>1. MotionInv => AlarmQuiet
  BY DEF MotionInv, StopInv, CalmInv, Running, Dying, AlarmQuiet
<1> QED
  BY <1>1, MotionInvHolds, PTL

\* The ways out of an alarm: the third is a motion that ends.
LEMMA AlarmExits ==
  ASSUME state = "ALARM", state' # "ALARM", [Next]_vars
  PROVE  \/ pc = "op" /\ Head(todo) = "X"
         \/ state' = "SLEEP"
         \/ RtStop /\ "CYCLE_STOP" \in rt
<1> USE DEF sysVars, ovrVars, reqVars, outVars, gcVars, prepVars, isrVars, callVars
<1>1. CASE MainLoop
  BY <1>1 DEF MainLoop, Boot, Begin, ReadLine, IdleLoop, AfterLoop, Dispatch, At, FlushMotion,
       Goto, BootLock, Call, AutoStart, Locked
<1>2. CASE ExecRtSystem
  <2>1. CASE RtAlarm
    BY <2>1 DEF RtAlarm, Goto
  <2>2. CASE RtSoftLimit
    BY <2>2 DEF RtSoftLimit, Goto
  <2>3. CASE RtFlags
    BY <2>3 DEF RtFlags, Goto
  <2>4. CASE RtHold
    BY <2>4 DEF RtHold, Goto, HoldFlags, DoorState, HeldState, HeldSuspend, StartsHold,
         UpdatePlanBlock, DoorSuspend, Moving
  <2>5. CASE RtStart
    BY <2>5 DEF RtStart, Starting, MayStart, RestoresSpindleFirst, StartCycle, Goto, DoorClosed,
         HoldFlags, DoorRestored, HasMotion
  <2>6. CASE RtWake
    BY <2>6 DEF RtWake, WakeUp, Goto
  <2>7. CASE RtStop
    BY <2>7 DEF RtStop
  <2>8. CASE RtMotionOverride
    BY <2>8 DEF RtMotionOverride, Goto, UpdatePlanBlock
  <2>9. CASE RtAccessoryOverride
    BY <2>9 DEF RtAccessoryOverride, Goto, SetSpindle, SetCoolant
  <2>10. CASE RtDryRun
    BY <2>10 DEF RtDryRun, Goto
  <2>11. CASE RtDone
    BY <2>11 DEF RtDone, Return, Goto, Poll
  <2> QED
    BY <1>2, <2>1, <2>2, <2>3, <2>4, <2>5, <2>6, <2>7, <2>8, <2>9, <2>10, <2>11 DEF ExecRtSystem
<1>3. CASE PrepBuffer
  BY <1>3 DEF PrepBuffer, PrepSegment, PrepHoldEnds, PrepDone, AtFill, FillDone, Goto, AfterFill
<1>4. CASE ExecRtSuspend
  BY <1>4 DEF ExecRtSuspend, SuspExit, SuspWait, SuspRetract, SuspSleep, SuspDoor, SuspHold,
       SuspRestoreSpindle, SuspRestoreCoolant, SuspResume, Return, Suspended, Poll, Parked,
       SetSpindle, SetCoolant, Goto, HoldComplete, Restoring, Delay
<1>5. CASE LineOps
  BY <1>5 DEF LineOps, OpUnlock, OpCheckMode, OpSleep, OpSync, AfterSync, SpindleSynced,
       CoolantSynced, ProgramPause, ProgramEnd, OpReturns, Op, Finish, McReset, AutoStart, Call,
       At, Goto, Synced, SetSpindle, SetCoolant, InMotion
<1>6. CASE MotionOps
  BY <1>6 DEF MotionOps, OpMove, McLine, McLineEnds, JogWake, OpSoftLimit, SoftWait, SoftKill,
       SoftAlarm, SoftReturns, ProbeBegin, ProbeWait, ProbeEnd, Op, Finish, Call, At, AutoStart,
       UpdatePlanBlock, WakeUp, Goto, McReset, Synced, FlushMotion, InMotion
<1>7. CASE SerialIsr \/ LimitIsr \/ StepperIsr
  BY <1>7 DEF SerialIsr, LimitIsr, StepperIsr, StepSegment, StepEmpty, ProbeRead, ProbeWrite
<1>8. CASE UNCHANGED vars
  BY <1>8 DEF vars
<1> QED
  BY <1>1, <1>2, <1>3, <1>4, <1>5, <1>6, <1>7, <1>8 DEF Next, Main

\* Until a G38 is begun, no motion ends in the alarm state.
LEMMA NoStopInAlarm ==
  ASSUME MotionInv, state = "ALARM", RtStop
  PROVE  "CYCLE_STOP" \notin rt
<1>1. pc = "rt.stop"
  BY DEF RtStop, At
<1>2. ~abort
  BY <1>1 DEF MotionInv, ResetInv, AfterFlags
<1> QED
  BY <1>1, <1>2 DEF MotionInv, StopInv, Running, StopPending, Scanning, Dying

\* An alarm is left only by the unlock command, for the sleep state, or by the end of a motion
\* that a G38 has left running (protocol.c:57, system.c:158, protocol.c:401).  Nothing else, and
\* no motion of a machine that has not probed, leads out of it.
THEOREM AlarmLockTheorem == Spec => AlarmLock
<1>1. SessionInv /\ [Next]_vars
        => [state = "ALARM" /\ state' # "ALARM"
              => \/ pc = "op" /\ Head(todo) = "X"
                 \/ state' = "SLEEP"
                 \/ probed /\ pc = "rt.stop" /\ "CYCLE_STOP" \in rt]_vars
  <2> SUFFICES ASSUME SessionInv, [Next]_vars, state = "ALARM", state' # "ALARM",
                      RtStop, "CYCLE_STOP" \in rt
               PROVE  probed /\ pc = "rt.stop"
    BY AlarmExits
  <2> QED
    BY NoStopInAlarm DEF SessionInv, RtStop, At
<1> QED
  BY <1>1, SessionHolds, PTL DEF Spec, AlarmLock

-----------------------------------------------------------------------------
\* Programs that never probe.
WithoutG38(script) == \A i \in 1..Len(script) : script[i] # "G38"
NoProbing == \A script \in Lines \cup Startup : WithoutG38(script)
NoG38 == ~probed /\ WithoutG38(todo)

LEMMA TailNoG38 ==
  ASSUME IInv, NoG38, todo # <<>>
  PROVE  Head(todo) # "G38" /\ WithoutG38(Tail(todo))
<1>1. todo \in Seq(Ops)
  BY DEF IInv, TypeOK, TypeControl
<1>2. Head(todo) = todo[1] /\ Len(todo) >= 1
  BY <1>1
<1>3. Len(Tail(todo)) = Len(todo) - 1 /\ \A i \in 1..Len(Tail(todo)) : Tail(todo)[i] = todo[i + 1]
  BY <1>1
<1> QED
  BY <1>1, <1>2, <1>3 DEF NoG38, WithoutG38

\* The line is another one, or loses its first operation.
LEMMA LineSteps ==
  ASSUME IInv, [Next]_vars
  PROVE  \/ todo' = todo
         \/ todo' = <<>>
         \/ todo # <<>> /\ todo' = Tail(todo)
         \/ todo' \in Lines \cup Startup
<1> USE DEF callVars
<1>1. CASE MainLoop
  BY <1>1 DEF MainLoop, Boot, Begin, ReadLine, IdleLoop, AfterLoop, Dispatch
<1>2. CASE ExecRtSystem
  BY <1>2 DEF ExecRtSystem, RtAlarm, RtSoftLimit, RtFlags, RtHold, RtStart, RtWake, WakeUp,
       RtStop, RtMotionOverride, RtAccessoryOverride, RtDryRun, RtDone
<1>3. CASE PrepBuffer \/ ExecRtSuspend
  BY <1>3 DEF PrepBuffer, PrepSegment, PrepHoldEnds, PrepDone, ExecRtSuspend, SuspExit, SuspWait,
       SuspRetract, SuspSleep, SuspDoor, SuspHold, SuspRestoreSpindle, SuspRestoreCoolant,
       SuspResume
<1>4. CASE LineOps
  BY <1>4, InLine DEF LineOps, OpUnlock, OpCheckMode, OpSleep, OpSync, AfterSync, SpindleSynced,
       CoolantSynced, ProgramPause, ProgramEnd, OpReturns, Op, Finish, Call, At, Synced, InOp,
       OpPoints
<1>5. CASE MotionOps
  BY <1>5, InLine DEF MotionOps, OpMove, McLine, McLineEnds, JogWake, WakeUp, OpSoftLimit,
       SoftWait, SoftKill, SoftAlarm, SoftReturns, ProbeBegin, ProbeWait, ProbeEnd, Op, Finish,
       Call, At, Synced, InOp, OpPoints
<1>6. CASE SerialIsr \/ LimitIsr \/ StepperIsr
  BY <1>6 DEF SerialIsr, LimitIsr, StepperIsr, StepSegment, StepEmpty, ProbeRead, ProbeWrite
<1>7. CASE UNCHANGED vars
  BY <1>7 DEF vars
<1> QED
  BY <1>1, <1>2, <1>3, <1>4, <1>5, <1>6, <1>7 DEF Next, Main

LEMMA NoG38Step ==
  ASSUME NoProbing, IInv, NoG38, [Next]_vars
  PROVE  NoG38'
<1>1. ~probed'
  <2> SUFFICES ASSUME probed' PROVE ProbeBegin
    BY TailNoG38, InLine DEF ProbeBegin, Synced, At, InOp, OpPoints
  <2> QED
    BY ProbedSteps DEF NoG38, Boot
<1>2. WithoutG38(todo')
  <2>1. CASE todo' = todo \/ todo' = <<>>
    BY <2>1 DEF NoG38, WithoutG38
  <2>2. CASE todo # <<>> /\ todo' = Tail(todo)
    BY <2>2, TailNoG38 DEF WithoutG38
  <2>3. CASE todo' \in Lines \cup Startup
    BY <2>3 DEF NoProbing, WithoutG38
  <2> QED
    BY <2>1, <2>2, <2>3, LineSteps
<1> QED
  BY <1>1, <1>2 DEF NoG38, WithoutG38

LEMMA MotionWithoutG38 == ASSUME NoProbing PROVE Spec => []MotionInv
<1>1. Init => NoG38
  BY DEF Init, NoG38, WithoutG38
<1>2. SessionInv /\ NoG38 /\ [Next]_vars => NoG38'
  BY NoG38Step, NoProbing DEF SessionInv
<1>3. SessionInv /\ NoG38 => MotionInv
  BY DEF SessionInv, NoG38
<1> QED
  BY <1>1, <1>2, <1>3, SessionHolds, PTL DEF Spec

LEMMA JogCancelStep ==
  ASSUME IInv, ProbeFree, ~probed', ResetInv, SuspendInv, StopInv, [Next]_vars
  PROVE  [("JOG_CANCEL" \in suspend /\ "JOG_CANCEL" \notin suspend') /\ pc # "boot"
            => queue' = <<>> /\ segs' = 0 /\ ~stepper' /\ ~loaded' /\ ~recalc']_vars
<1> USE DEF sysVars, ovrVars, reqVars, outVars, gcVars, prepVars, isrVars, callVars
<1>1. CASE MainLoop
  BY <1>1 DEF MainLoop, Boot, Begin, ReadLine, IdleLoop, AfterLoop, Dispatch, At, FlushMotion,
       Goto, BootLock, Call, AutoStart, Locked
<1>2. CASE ExecRtSystem
  <2>1. CASE RtAlarm
    BY <2>1 DEF RtAlarm, Goto
  <2>2. CASE RtSoftLimit
    BY <2>2 DEF RtSoftLimit, Goto
  <2>3. CASE RtFlags
    BY <2>3 DEF RtFlags, Goto
  <2>4. CASE RtHold
    BY <2>4 DEF RtHold, At, Goto, HoldFlags, DoorState, HeldState, HeldSuspend, StartsHold,
         UpdatePlanBlock, DoorSuspend, Moving, StopInv, Dying, ResetInv, AfterFlags
  <2>5. CASE RtStart
    BY <2>5 DEF RtStart, At, Starting, MayStart, RestoresSpindleFirst, StartCycle, Goto,
         DoorClosed, HoldFlags, DoorRestored, HasMotion, StopInv, Dying, ResetInv, AfterFlags
  <2>6. CASE RtWake
    BY <2>6 DEF RtWake, WakeUp, Goto
  <2>7. CASE RtStop
    BY <2>7 DEF RtStop, Goto, HoldCompletes, RtHoldComplete, RtMotionComplete, UpdatePlanBlock,
         FlushMotion
  <2>8. CASE RtMotionOverride
    BY <2>8 DEF RtMotionOverride, Goto, UpdatePlanBlock
  <2>9. CASE RtAccessoryOverride
    BY <2>9 DEF RtAccessoryOverride, Goto, SetSpindle, SetCoolant
  <2>10. CASE RtDryRun
    BY <2>10 DEF RtDryRun, Goto
  <2>11. CASE RtDone
    BY <2>11 DEF RtDone, Return, Goto, Poll
  <2> QED
    BY <1>2, <2>1, <2>2, <2>3, <2>4, <2>5, <2>6, <2>7, <2>8, <2>9, <2>10, <2>11 DEF ExecRtSystem
<1>3. CASE PrepBuffer
  BY <1>3 DEF PrepBuffer, PrepSegment, PrepHoldEnds, PrepDone, AtFill, FillDone, Goto, AfterFill
<1>4. CASE ExecRtSuspend
  BY <1>4 DEF ExecRtSuspend, SuspExit, SuspWait, SuspRetract, SuspSleep, SuspDoor, SuspHold,
       SuspRestoreSpindle, SuspRestoreCoolant, SuspResume, Return, Suspended, Poll, Parked,
       SetSpindle, SetCoolant, Goto, HoldComplete, Restoring, Delay
<1>5. CASE LineOps
  BY <1>5 DEF LineOps, OpUnlock, OpCheckMode, OpSleep, OpSync, AfterSync, SpindleSynced,
       CoolantSynced, ProgramPause, ProgramEnd, OpReturns, Op, Finish, McReset, AutoStart, Call,
       Goto, Synced, SetSpindle, SetCoolant, InMotion
<1>6. CASE MotionOps
  BY <1>6, NoProbeSteps DEF MotionOps, OpMove, McLine, JogWake, OpSoftLimit, SoftWait, SoftKill,
       SoftAlarm, SoftReturns, Op, Finish, Call, AutoStart, UpdatePlanBlock, WakeUp, Goto,
       McReset, Synced, FlushMotion, InMotion
<1>7. CASE SerialIsr \/ LimitIsr \/ StepperIsr
  BY <1>7, InterruptFrame
<1>8. CASE UNCHANGED vars
  BY <1>8 DEF vars
<1> QED
  BY <1>1, <1>2, <1>3, <1>4, <1>5, <1>6, <1>7, <1>8 DEF Next, Main

\* A cancelled jog leaves nothing of it behind: the planner and the segment buffer are empty
\* and the motors stopped when the cancellation ends (protocol.c:388), in programs that do not
\* probe.
THEOREM JogCancelTheorem == ASSUME NoProbing PROVE Spec => JogCancelFlushes
<1>1. MotionInv /\ MotionInv' /\ [Next]_vars
        => [("JOG_CANCEL" \in suspend /\ "JOG_CANCEL" \notin suspend') /\ pc # "boot"
              => queue' = <<>> /\ segs' = 0 /\ ~stepper' /\ ~loaded' /\ ~recalc']_vars
  BY JogCancelStep DEF MotionInv, ProbeFree
<1> QED
  BY <1>1, MotionWithoutG38, NoProbing, PTL DEF Spec, JogCancelFlushes

LEMMA ResetKeptStep ==
  ASSUME "RESET" \in flags, "RESET" \notin flags', [Next]_vars
  PROVE  \/ pc = "boot"
         \/ pc = "rt.alarm" /\ alarm = "soft"
         \/ busy /\ ~busy' /\ "RESET" \notin rmw
<1> USE DEF sysVars, ovrVars, reqVars, outVars, gcVars, prepVars, isrVars, callVars
<1>1. CASE MainLoop
  BY <1>1 DEF MainLoop, Boot, Begin, ReadLine, IdleLoop, AfterLoop, Dispatch, At, FlushMotion,
       Goto, BootLock, Call, AutoStart, Locked
<1>2. CASE ExecRtSystem
  <2>1. CASE RtAlarm
    BY <2>1 DEF RtAlarm, At, Goto
  <2>2. CASE RtSoftLimit
    BY <2>2 DEF RtSoftLimit, Goto
  <2>3. CASE RtFlags
    BY <2>3 DEF RtFlags, Goto
  <2>4. CASE RtHold
    BY <2>4 DEF RtHold, Goto, HoldFlags, DoorState, HeldState, HeldSuspend, StartsHold,
         UpdatePlanBlock, DoorSuspend, Moving
  <2>5. CASE RtStart
    BY <2>5 DEF RtStart, Starting, MayStart, RestoresSpindleFirst, StartCycle, Goto, DoorClosed,
         HoldFlags, DoorRestored, HasMotion
  <2>6. CASE RtWake
    BY <2>6 DEF RtWake, WakeUp, Goto
  <2>7. CASE RtStop
    BY <2>7 DEF RtStop, Goto, HoldCompletes, RtHoldComplete, RtMotionComplete, UpdatePlanBlock,
         FlushMotion
  <2>8. CASE RtMotionOverride
    BY <2>8 DEF RtMotionOverride, Goto, UpdatePlanBlock
  <2>9. CASE RtAccessoryOverride
    BY <2>9 DEF RtAccessoryOverride, Goto, SetSpindle, SetCoolant
  <2>10. CASE RtDryRun
    BY <2>10 DEF RtDryRun, Goto
  <2>11. CASE RtDone
    BY <2>11 DEF RtDone, Return, Goto, Poll
  <2> QED
    BY <1>2, <2>1, <2>2, <2>3, <2>4, <2>5, <2>6, <2>7, <2>8, <2>9, <2>10, <2>11 DEF ExecRtSystem
<1>3. CASE PrepBuffer
  BY <1>3 DEF PrepBuffer, PrepSegment, PrepHoldEnds, PrepDone, AtFill, FillDone, Goto, AfterFill
<1>4. CASE ExecRtSuspend
  BY <1>4 DEF ExecRtSuspend, SuspExit, SuspWait, SuspRetract, SuspSleep, SuspDoor, SuspHold,
       SuspRestoreSpindle, SuspRestoreCoolant, SuspResume, Return, Suspended, Poll, Parked,
       SetSpindle, SetCoolant, Goto, HoldComplete, Restoring, Delay
<1>5. CASE LineOps
  BY <1>5 DEF LineOps, OpUnlock, OpCheckMode, OpSleep, OpSync, AfterSync, SpindleSynced,
       CoolantSynced, ProgramPause, ProgramEnd, OpReturns, Op, Finish, McReset, AutoStart, Call,
       Goto, Synced, SetSpindle, SetCoolant, InMotion
<1>6. CASE MotionOps
  BY <1>6 DEF MotionOps, OpMove, McLine, McLineEnds, JogWake, OpSoftLimit, SoftWait, SoftKill,
       SoftAlarm, SoftReturns, ProbeBegin, ProbeWait, ProbeEnd, Op, Finish, Call, At, AutoStart,
       UpdatePlanBlock, WakeUp, Goto, McReset, Synced, FlushMotion, InMotion
<1>7. CASE SerialIsr \/ LimitIsr \/ StepperIsr
  BY <1>7 DEF SerialIsr, McReset, Request, Override, InMotion, LimitIsr, StepperIsr, StepSegment,
       StepEmpty, ProbeRead, ProbeWrite
<1>8. CASE UNCHANGED vars
  BY <1>8 DEF vars
<1> QED
  BY <1>1, <1>2, <1>3, <1>4, <1>5, <1>6, <1>7, <1>8 DEF Next, Main

\* A reset request is dropped in one place only: the probe interrupt, which writes back flags it
\* copied before the reset came in (probe.c:64).  Otherwise it stays until the re-initialization,
\* or the soft limit alarm that asks for a new one (motion_control.c:369).
THEOREM ResetTheorem == Spec => ResetNotDropped
<1>1. [Next]_vars => [("RESET" \in flags /\ "RESET" \notin flags')
        => \/ pc = "boot"
           \/ pc = "rt.alarm" /\ alarm = "soft"
           \/ busy /\ ~busy' /\ "RESET" \notin rmw]_vars
  BY ResetKeptStep
<1> QED
  BY <1>1, PTL DEF Spec, ResetNotDropped

-----------------------------------------------------------------------------
\* The segment generator's lock, which needs no assumption on the programs: whatever state a
\* hold ends in, the step control bits of it are cleared before a cycle starts, or its
\* cancellation is still in progress.
LockInv ==
  state = "CYCLE" /\ step_control \cap {"EXECUTE_HOLD", "END_MOTION"} # {}
    => "MOTION_CANCEL" \in suspend

LEMMA LockStep ==
  ASSUME LockInv, [Next]_vars
  PROVE  LockInv'
<1> USE DEF sysVars, ovrVars, reqVars, outVars, gcVars, prepVars, isrVars, callVars
<1>1. CASE MainLoop
  BY <1>1 DEF MainLoop, Boot, Begin, ReadLine, IdleLoop, AfterLoop, Dispatch, FlushMotion, Goto,
       BootLock, Call, AutoStart, Locked, LockInv
<1>2. CASE ExecRtSystem
  <2>1. CASE RtAlarm
    BY <2>1 DEF RtAlarm, Goto, LockInv
  <2>2. CASE RtSoftLimit
    BY <2>2 DEF RtSoftLimit, Goto, LockInv
  <2>3. CASE RtFlags
    BY <2>3 DEF RtFlags, Goto, LockInv
  <2>4. CASE RtHold
    BY <2>4 DEF RtHold, Goto, HoldFlags, DoorState, HeldState, HeldSuspend, StartsHold,
         UpdatePlanBlock, DoorSuspend, Moving, LockInv
  <2>5. CASE RtStart
    BY <2>5 DEF RtStart, Starting, MayStart, RestoresSpindleFirst, StartCycle, Goto, DoorClosed,
         HoldFlags, DoorRestored, HasMotion, LockInv
  <2>6. CASE RtWake
    BY <2>6 DEF RtWake, WakeUp, Goto, LockInv
  <2>7. CASE RtStop
    BY <2>7 DEF RtStop, Goto, HoldCompletes, RtHoldComplete, RtMotionComplete, UpdatePlanBlock,
         FlushMotion, LockInv
  <2>8. CASE RtMotionOverride
    BY <2>8 DEF RtMotionOverride, Goto, UpdatePlanBlock, LockInv
  <2>9. CASE RtAccessoryOverride
    BY <2>9 DEF RtAccessoryOverride, Goto, SetSpindle, SetCoolant, LockInv
  <2>10. CASE RtDryRun
    BY <2>10 DEF RtDryRun, Goto, LockInv
  <2>11. CASE RtDone
    BY <2>11 DEF RtDone, Return, Goto, Poll, LockInv
  <2> QED
    BY <1>2, <2>1, <2>2, <2>3, <2>4, <2>5, <2>6, <2>7, <2>8, <2>9, <2>10, <2>11 DEF ExecRtSystem
<1>3. CASE PrepBuffer
  BY <1>3 DEF PrepBuffer, PrepSegment, PrepHoldEnds, PrepDone, AtFill, FillDone, Goto, AfterFill,
       LockInv
<1>4. CASE ExecRtSuspend
  BY <1>4 DEF ExecRtSuspend, SuspExit, SuspWait, SuspRetract, SuspSleep, SuspDoor, SuspHold,
       SuspRestoreSpindle, SuspRestoreCoolant, SuspResume, Return, Suspended, Poll, Parked,
       SetSpindle, SetCoolant, Goto, HoldComplete, Restoring, Delay, LockInv
<1>5. CASE LineOps
  BY <1>5 DEF LineOps, OpUnlock, OpCheckMode, OpSleep, OpSync, AfterSync, SpindleSynced,
       CoolantSynced, ProgramPause, ProgramEnd, OpReturns, Op, Finish, McReset, AutoStart, Call,
       Goto, Synced, SetSpindle, SetCoolant, InMotion, LockInv
<1>6. CASE MotionOps
  BY <1>6 DEF MotionOps, OpMove, McLine, JogWake, OpSoftLimit, SoftWait, SoftKill, SoftAlarm,
       SoftReturns, ProbeBegin, ProbeWait, ProbeEnd, Op, Finish, Call, AutoStart, UpdatePlanBlock,
       WakeUp, Goto, McReset, Synced, FlushMotion, InMotion, LockInv, McLineEnds
<1>7. CASE StepperIsr
  BY <1>7 DEF StepperIsr, StepSegment, StepEmpty, ProbeRead, ProbeWrite, LockInv
<1>8. CASE SerialIsr
  BY <1>8 DEF SerialIsr, McReset, Request, Override, InMotion, LockInv
<1>9. CASE LimitIsr
  BY <1>9 DEF LimitIsr, InMotion, LockInv
<1>10. CASE UNCHANGED vars
  BY <1>10 DEF vars, LockInv
<1> QED
  BY <1>1, <1>2, <1>3, <1>4, <1>5, <1>6, <1>7, <1>8, <1>9, <1>10 DEF Next, Main

\* A cycle never runs with the segment generator locked by an earlier hold, unless that hold
\* is the cancellation of a motion (stepper.c:608).
THEOREM CycleNotLockedTheorem == Spec => []CycleNotLocked
<1>1. Init => LockInv
  BY DEF Init, LockInv
<1>2. LockInv /\ [Next]_vars => LockInv'
  BY LockStep
<1>3. LockInv => CycleNotLocked
  BY DEF LockInv, CycleNotLocked
<1> QED
  BY <1>1, <1>2, <1>3, PTL DEF Spec
=============================================================================
