------------------------- MODULE RealtimeExec_proofs -------------------------
(***************************************************************************)
(* Proofs about RealtimeExec, for every set of commands and lines and      *)
(* every size of planner and segment buffer.                               *)
(*                                                                         *)
(* TypeOK is not inductive: the segment generator takes the tail of the    *)
(* planner queue and counts the segments left of its first block down, so  *)
(* it relies on PartialBlockKept; and the operations of a line take the    *)
(* tail of the line, so they rely on being in one.  IInv adds the two, and *)
(* that a block is never both loaded and waiting to be reloaded.           *)
(***************************************************************************)
EXTENDS RealtimeExec, TLAPS

\* The points of the main program at which it executes an operation of a line.
OpPoints == {"op", "synced", "soft.kill", "soft.alarm", "jog.fill", "jog.wake", "mcline", "sync",
             "pause", "soft.wait", "soft.crit", "probe.init", "probe.wait", "probe.end"}
InOp == pc \in OpPoints \/ (pc \in RtPoints \cup SuspendPoints /\ ret \in OpPoints)
LineInv == InOp => todo # <<>>
PrepInv == PartialBlockKept /\ ~(loaded /\ recalc)
IInv == TypeOK /\ LineInv /\ PrepInv

-----------------------------------------------------------------------------
\* Types of the operators the steps are built from.

LEMMA BitFacts ==
  /\ {"RESET", "CYCLE_START", "CYCLE_STOP", "FEED_HOLD", "SAFETY_DOOR", "MOTION_CANCEL", "SLEEP"} \subseteq Flags
  /\ {"HOLD_COMPLETE", "RESTART_RETRACT", "RETRACT_COMPLETE", "INITIATE_RESTORE",
      "RESTORE_COMPLETE", "DOOR_AJAR", "MOTION_CANCEL", "JOG_CANCEL"} \subseteq SuspendBits
  /\ {"END_MOTION", "EXECUTE_HOLD", "UPDATE_PWM"} \subseteq StepControl
  /\ {"ENABLED", "INITIATE", "RESTORE", "RESTORE_CYCLE"} \subseteq StopOvrBits
  /\ {"SPEED", "STOP", "FLOOD"} \subseteq AccessoryBits
  BY DEF Flags, SuspendBits, StepControl, StopOvrBits, AccessoryBits

LEMMA SuspendType ==
  suspend \in SUBSET SuspendBits => HeldSuspend \in SUBSET SuspendBits
  BY BitFacts DEF HeldSuspend

LEMMA DoorSuspendType ==
  ASSUME NEW s, NEW u \in SUBSET SuspendBits PROVE DoorSuspend(s, u) \in SUBSET SuspendBits
  BY BitFacts DEF DoorSuspend

LEMMA Bounds == BlockSegs \in Nat \ {0} /\ SegCap \in Nat \ {0} /\ MaxQueue \in Nat \ {0}
  BY ConstantAssumption

LEMMA FlushType == FlushMotion => TypeMotion'
<1> SUFFICES ASSUME FlushMotion PROVE TypeMotion'
  OBVIOUS
<1>1. queue' \in Seq(BOOLEAN)
  BY DEF FlushMotion
<1>2. left' \in 0..BlockSegs /\ segs' \in 0..SegCap
  BY Bounds DEF FlushMotion
<1> QED
  BY <1>1, <1>2 DEF FlushMotion, TypeMotion

\* The operation of a line is followed by a call of the real-time execution, or it is done.
LEMMA CallType == ASSUME TypeControl, NEW r \in CallPoints, Call(r), UNCHANGED todo
                  PROVE  TypeControl'
  BY DEF TypeControl, Call, Goto, Inner, RtPoints

LEMMA FinishType == ASSUME TypeControl, todo # <<>>, Finish PROVE TypeControl'
<1>1. todo' \in Seq(Ops)
  BY DEF TypeControl, Finish
<1>2. pc' \in MainPoints
  BY DEF Finish, Goto, MainPoints
<1> QED
  BY <1>1, <1>2 DEF TypeControl, Finish, callVars

LEMMA ScriptType == Startup \subseteq Seq(Ops) /\ Lines \subseteq Seq(Ops)
<1>1. \A script \in Seq(GcOps) : script \in Seq(Ops)
  BY DEF Ops
<1>2. \A c \in SysOps : <<c>> \in Seq(Ops)
  BY DEF Ops
<1> QED
  BY <1>1, <1>2, ConstantAssumption

LEMMA RestoreType ==
  ASSUME TypeMotion, TypeOutputs PROVE RestoreCondition \in [spindle : BOOLEAN, coolant : BOOLEAN]
<1>1. CASE queue = <<>>
  BY <1>1 DEF RestoreCondition, TypeOutputs
<1>2. CASE queue # <<>>
  <2>1. Head(queue) \in BOOLEAN
    BY <1>2 DEF TypeMotion
  <2> QED
    BY <1>2, <2>1 DEF RestoreCondition, TypeOutputs
<1> QED
  BY <1>1, <1>2

LEMMA RtDoneOutputs == ASSUME IInv, RtDone PROVE TypeOutputs'
<1>1. restore' \in {restore, RestoreCondition, NoRestore}
  BY DEF RtDone, Return, Poll, callVars
<1>2. restore' \in [spindle : BOOLEAN, coolant : BOOLEAN]
  <2>1. RestoreCondition \in [spindle : BOOLEAN, coolant : BOOLEAN]
    BY RestoreType DEF IInv, TypeOK
  <2>2. restore \in [spindle : BOOLEAN, coolant : BOOLEAN]
    BY DEF IInv, TypeOK, TypeOutputs
  <2>3. NoRestore \in [spindle : BOOLEAN, coolant : BOOLEAN]
    BY DEF NoRestore
  <2> QED
    BY <1>1, <2>1, <2>2, <2>3
<1> QED
  BY <1>2 DEF IInv, TypeOK, TypeOutputs, RtDone, outVars, gcVars

LEMMA PrepSegmentMotion == ASSUME IInv, PrepSegment PROVE TypeMotion'
<1>1. queue # <<>> /\ Remaining \in 1..BlockSegs
  BY ConstantAssumption DEF IInv, TypeOK, TypeMotion, PrepInv, PartialBlockKept, PrepSegment,
     FillDone, Remaining
<1>2. segs' \in 0..SegCap
  BY ConstantAssumption DEF IInv, TypeOK, TypeMotion, PrepSegment, FillDone
<1>3. queue' \in Seq(BOOLEAN)
  BY <1>1 DEF IInv, TypeOK, TypeMotion, PrepSegment
<1>4. left' \in 0..BlockSegs /\ loaded' \in BOOLEAN
  <2>1. left' = 0 \/ left' = Remaining - 1
    BY DEF PrepSegment
  <2>2. left' \in 0..BlockSegs
    BY <1>1, <2>1, Bounds
  <2>3. loaded' \in BOOLEAN
    BY DEF PrepSegment
  <2> QED
    BY <2>2, <2>3
<1>5. recalc' \in BOOLEAN
  BY DEF PrepSegment
<1> QED
  BY <1>2, <1>3, <1>4, <1>5 DEF TypeMotion

\* What a synchronized line sets: the outputs take a Boolean value.
LEMMA TargetType == \A o : Target(o) \in BOOLEAN
  BY DEF Target

LEMMA SyncOutputs == ASSUME IInv, OpSync \/ SpindleSynced \/ CoolantSynced PROVE TypeOutputs'
<1> USE TargetType DEF IInv, TypeOK, TypeOutputs, callVars, outVars, gcVars, sysVars, reqVars
<1>1. CASE OpSync
  <2>1. gc_spindle' \in BOOLEAN /\ gc_coolant' \in BOOLEAN
    BY <1>1 DEF OpSync
  <2> QED
    BY <1>1, <2>1 DEF OpSync, Finish, Call
<1>2. CASE SpindleSynced
  <2>1. spindle' \in BOOLEAN /\ gc_spindle' \in BOOLEAN
    BY <1>2 DEF SpindleSynced, SetSpindle
  <2> QED
    BY <1>2, <2>1 DEF SpindleSynced, Finish
<1>3. CASE CoolantSynced
  <2>1. coolant' \in BOOLEAN /\ gc_coolant' \in BOOLEAN
    BY <1>3 DEF CoolantSynced, SetCoolant
  <2> QED
    BY <1>3, <2>1 DEF CoolantSynced, Finish
<1> QED
  BY <1>1, <1>2, <1>3

LEMMA McLineMotion == ASSUME IInv, McLine PROVE TypeMotion'
<1>1. queue' \in Seq(BOOLEAN)
  BY DEF IInv, TypeOK, TypeMotion, TypeOutputs, McLine
<1>2. loaded' \in BOOLEAN /\ recalc' \in BOOLEAN
  BY DEF IInv, TypeOK, TypeMotion, McLine, UpdatePlanBlock
<1> QED
  BY <1>1, <1>2 DEF IInv, TypeOK, TypeMotion, McLine

LEMMA McLineControl == ASSUME IInv, McLine PROVE TypeControl'
<1> USE DEF IInv, TypeOK, CallPoints
<1>1. TypeControl /\ todo # <<>>
  BY DEF LineInv, InOp, OpPoints, McLine, At
<1>2. CASE McLineEnds
  <2>1. CASE Finish
    BY <1>1, <2>1, FinishType
  <2>2. CASE Goto("jog.fill") /\ UNCHANGED <<todo, callVars>>
    BY <1>1, <2>2 DEF TypeControl, Goto, callVars, MainPoints
  <2>3. CASE Call("probe.wait") /\ UNCHANGED todo
    BY <1>1, <2>3, CallType
  <2> QED
    BY <1>2, <2>1, <2>2, <2>3 DEF McLineEnds
<1>3. CASE Call("mcline") /\ UNCHANGED todo
  BY <1>1, <1>3, CallType
<1> QED
  BY <1>2, <1>3 DEF McLine

LEMMA RtStopMotion == ASSUME IInv, RtStop PROVE TypeMotion'
<1>1. CASE FlushMotion
  BY <1>1, FlushType
<1>2. CASE UpdatePlanBlock /\ UNCHANGED <<queue, left, segs>>
  BY <1>2 DEF IInv, TypeOK, TypeMotion, UpdatePlanBlock
<1>3. CASE UNCHANGED prepVars
  BY <1>3 DEF IInv, TypeOK, TypeMotion, prepVars
<1> QED
  BY <1>1, <1>2, <1>3 DEF RtStop, RtHoldComplete, RtMotionComplete

LEMMA BeginControl == ASSUME IInv, Begin PROVE TypeControl'
<1>1. todo' \in Seq(Ops)
  BY ScriptType DEF IInv, TypeOK, TypeControl, Begin
<1>2. pc' \in MainPoints
  BY DEF Begin, Goto, MainPoints
<1> QED
  BY <1>1, <1>2 DEF IInv, TypeOK, TypeControl, Begin, callVars

LEMMA LineOpsControl == ASSUME IInv, LineOps PROVE TypeControl'
<1> USE DEF IInv, TypeOK
<1>1. TypeControl /\ todo # <<>>
  BY DEF LineInv, InOp, OpPoints, LineOps, OpUnlock, OpCheckMode, OpSleep, OpSync, AfterSync,
         SpindleSynced, CoolantSynced, ProgramPause, ProgramEnd, OpReturns, Op, Synced, At
<1>2. CASE Finish
  BY <1>1, <1>2, FinishType
<1>3. CASE AfterSync
  BY <1>1, <1>3, CallType DEF AfterSync, TypeControl, Goto, callVars, CallPoints, MainPoints
<1>4. CASE Call("sync") /\ UNCHANGED todo
  BY <1>1, <1>4, CallType DEF CallPoints
<1>5. CASE Call("pause") /\ UNCHANGED todo
  BY <1>1, <1>5, CallType DEF CallPoints
<1> QED
  BY <1>2, <1>3, <1>4, <1>5 DEF LineOps, OpUnlock, OpCheckMode, OpSleep, OpSync, SpindleSynced,
     CoolantSynced, ProgramPause, ProgramEnd, OpReturns

LEMMA MotionOpsControl == ASSUME IInv, MotionOps PROVE TypeControl'
<1> USE DEF IInv, TypeOK
<1>1. TypeControl /\ todo # <<>>
  BY DEF LineInv, InOp, OpPoints, MotionOps, OpMove, McLine, JogWake, WakeUp, OpSoftLimit,
         SoftWait, SoftKill, SoftAlarm, SoftReturns, ProbeBegin, ProbeWait, ProbeEnd, Op,
         Synced, At
<1>2. CASE Finish
  BY <1>1, <1>2, FinishType
<1>3. ASSUME NEW r \in CallPoints, Call(r), UNCHANGED todo PROVE TypeControl'
  BY <1>1, <1>3, CallType
<1>4. CASE Goto("soft.kill") /\ UNCHANGED <<callVars, todo>>
  BY <1>1, <1>4 DEF TypeControl, Goto, callVars, MainPoints
<1>5. CASE Goto("soft.alarm") /\ UNCHANGED <<callVars, todo>>
  BY <1>1, <1>5 DEF TypeControl, Goto, callVars, MainPoints
<1>6. CASE McLine
  BY <1>6, McLineControl
<1>7. \A r \in {"mcline", "soft.wait", "soft.crit", "probe.init", "probe.wait", "probe.end"} :
        Call(r) /\ UNCHANGED todo => TypeControl'
  BY <1>3 DEF CallPoints
<1> QED
  BY <1>2, <1>4, <1>5, <1>6, <1>7 DEF MotionOps, OpMove, JogWake, OpSoftLimit, SoftWait, SoftKill,
     SoftAlarm, SoftReturns, ProbeBegin, ProbeWait, ProbeEnd

-----------------------------------------------------------------------------
\* The inductive step, one lemma per section of the specification.

\* The main loop.
LEMMA MainLoopStep == ASSUME IInv, MainLoop PROVE IInv'
<1> USE ConstantAssumption, BitFacts DEF IInv, TypeOK, sysVars, ovrVars, reqVars, outVars, gcVars, prepVars, isrVars, callVars
<1> USE DEF MainLoop, Boot, Begin, ReadLine, IdleLoop, AfterLoop, Dispatch, At, FlushMotion,
            Goto, BootLock, Call, AutoStart, Locked
<1>1. TypeSystem'
  BY DEF TypeSystem, States
<1>2. TypeRequests'
  BY DEF TypeRequests, Alarms
<1>3. TypeOutputs'
  BY DEF TypeOutputs
<1>4. TypeMotion'
  <2>1. CASE Boot
    BY <2>1, FlushType DEF Boot
  <2>2. CASE Begin
    BY <2>2 DEF TypeMotion, PrepInv, PartialBlockKept
  <2>3. CASE ReadLine
    BY <2>3 DEF TypeMotion, PrepInv, PartialBlockKept
  <2>4. CASE IdleLoop
    BY <2>4 DEF TypeMotion, PrepInv, PartialBlockKept
  <2>5. CASE AfterLoop
    BY <2>5 DEF TypeMotion, PrepInv, PartialBlockKept
  <2>6. CASE Dispatch
    BY <2>6 DEF TypeMotion, PrepInv, PartialBlockKept
  <2> QED
    BY <2>1, <2>2, <2>3, <2>4, <2>5, <2>6
<1>5. TypeControl'
  <2>1. CASE Boot
    BY <2>1 DEF TypeControl, LineInv, InOp, OpPoints, RtPoints, SuspendPoints, CallPoints,
            MainPoints, Inner
  <2>2. CASE Begin
    BY <2>2, BeginControl
  <2>3. CASE ReadLine
    BY <2>3 DEF TypeControl, LineInv, InOp, OpPoints, RtPoints, SuspendPoints, CallPoints,
            MainPoints, Inner
  <2>4. CASE IdleLoop
    BY <2>4 DEF TypeControl, LineInv, InOp, OpPoints, RtPoints, SuspendPoints, CallPoints,
            MainPoints, Inner
  <2>5. CASE AfterLoop
    BY <2>5 DEF TypeControl, LineInv, InOp, OpPoints, RtPoints, SuspendPoints, CallPoints,
            MainPoints, Inner
  <2>6. CASE Dispatch
    BY <2>6, ScriptType DEF TypeControl, LineInv, InOp, OpPoints, RtPoints, SuspendPoints, CallPoints,
            MainPoints, Inner
  <2> QED
    BY <2>1, <2>2, <2>3, <2>4, <2>5, <2>6
<1>6. LineInv'
  BY DEF LineInv, InOp, OpPoints, TypeControl, RtPoints, SuspendPoints, CallPoints,
            MainPoints, Inner
<1>7. PrepInv'
  <2>1. CASE Boot
    BY <2>1 DEF PrepInv, PartialBlockKept, TypeMotion
  <2>2. CASE Begin
    BY <2>2 DEF PrepInv, PartialBlockKept, TypeMotion
  <2>3. CASE ReadLine
    BY <2>3 DEF PrepInv, PartialBlockKept, TypeMotion
  <2>4. CASE IdleLoop
    BY <2>4 DEF PrepInv, PartialBlockKept, TypeMotion
  <2>5. CASE AfterLoop
    BY <2>5 DEF PrepInv, PartialBlockKept, TypeMotion
  <2>6. CASE Dispatch
    BY <2>6 DEF PrepInv, PartialBlockKept, TypeMotion
  <2> QED
    BY <2>1, <2>2, <2>3, <2>4, <2>5, <2>6
<1> QED
  BY <1>1, <1>2, <1>3, <1>4, <1>5, <1>6, <1>7

\* Real-time execution.
LEMMA ExecRtSystemStep == ASSUME IInv, ExecRtSystem PROVE IInv'
<1> USE ConstantAssumption, BitFacts DEF IInv, TypeOK, sysVars, ovrVars, reqVars, outVars, gcVars, prepVars, isrVars, callVars
<1> USE DEF ExecRtSystem, RtAlarm, RtSoftLimit, RtFlags, RtHold, RtStart, RtWake, RtStop,
            RtMotionOverride, RtAccessoryOverride, RtDryRun, RtDone, At, Goto, HoldFlags,
            DoorState, HeldState, HeldSuspend, StartsHold, UpdatePlanBlock, DoorSuspend,
            Starting, MayStart, RestoresSpindleFirst, StartCycle, DoorClosed, WakeUp,
            HoldCompletes, RtHoldComplete, RtMotionComplete, SetSpindle, SetCoolant, Return,
            RestoreCondition, Poll, Moving, DoorRestored, HasMotion, FlushMotion, NoRestore
<1>1. TypeSystem'
  BY DEF TypeSystem, States
<1>2. TypeRequests'
  BY DEF TypeRequests, Alarms
<1>3. TypeOutputs'
  <2>1. CASE RtAlarm
    BY <2>1 DEF TypeOutputs
  <2>2. CASE RtSoftLimit
    BY <2>2 DEF TypeOutputs
  <2>3. CASE RtFlags
    BY <2>3 DEF TypeOutputs
  <2>4. CASE RtHold
    BY <2>4 DEF TypeOutputs
  <2>5. CASE RtStart
    BY <2>5 DEF TypeOutputs
  <2>6. CASE RtWake
    BY <2>6 DEF TypeOutputs
  <2>7. CASE RtStop
    BY <2>7 DEF TypeOutputs
  <2>8. CASE RtMotionOverride
    BY <2>8 DEF TypeOutputs
  <2>9. CASE RtAccessoryOverride
    BY <2>9 DEF TypeOutputs
  <2>10. CASE RtDryRun
    BY <2>10 DEF TypeOutputs
  <2>11. CASE RtDone
    BY <2>11, RtDoneOutputs
  <2> QED
    BY <2>1, <2>2, <2>3, <2>4, <2>5, <2>6, <2>7, <2>8, <2>9, <2>10, <2>11
<1>4. TypeMotion'
  <2>1. CASE RtAlarm
    BY <2>1 DEF TypeMotion, PrepInv, PartialBlockKept
  <2>2. CASE RtSoftLimit
    BY <2>2 DEF TypeMotion, PrepInv, PartialBlockKept
  <2>3. CASE RtFlags
    BY <2>3 DEF TypeMotion, PrepInv, PartialBlockKept
  <2>4. CASE RtHold
    BY <2>4 DEF TypeMotion, PrepInv, PartialBlockKept
  <2>5. CASE RtStart
    BY <2>5 DEF TypeMotion, PrepInv, PartialBlockKept
  <2>6. CASE RtWake
    BY <2>6 DEF TypeMotion, PrepInv, PartialBlockKept
  <2>7. CASE RtStop
    BY <2>7, RtStopMotion
  <2>8. CASE RtMotionOverride
    BY <2>8 DEF TypeMotion, PrepInv, PartialBlockKept
  <2>9. CASE RtAccessoryOverride
    BY <2>9 DEF TypeMotion, PrepInv, PartialBlockKept
  <2>10. CASE RtDryRun
    BY <2>10 DEF TypeMotion, PrepInv, PartialBlockKept
  <2>11. CASE RtDone
    BY <2>11 DEF TypeMotion, PrepInv, PartialBlockKept
  <2> QED
    BY <2>1, <2>2, <2>3, <2>4, <2>5, <2>6, <2>7, <2>8, <2>9, <2>10, <2>11
<1>5. TypeControl'
  <2>1. CASE RtAlarm
    BY <2>1 DEF TypeControl, LineInv, InOp, OpPoints, RtPoints, SuspendPoints, CallPoints,
            MainPoints, Inner
  <2>2. CASE RtSoftLimit
    BY <2>2 DEF TypeControl, LineInv, InOp, OpPoints, RtPoints, SuspendPoints, CallPoints,
            MainPoints, Inner
  <2>3. CASE RtFlags
    BY <2>3 DEF TypeControl, LineInv, InOp, OpPoints, RtPoints, SuspendPoints, CallPoints,
            MainPoints, Inner
  <2>4. CASE RtHold
    BY <2>4 DEF TypeControl, LineInv, InOp, OpPoints, RtPoints, SuspendPoints, CallPoints,
            MainPoints, Inner
  <2>5. CASE RtStart
    BY <2>5 DEF TypeControl, LineInv, InOp, OpPoints, RtPoints, SuspendPoints, CallPoints,
            MainPoints, Inner
  <2>6. CASE RtWake
    BY <2>6 DEF TypeControl, LineInv, InOp, OpPoints, RtPoints, SuspendPoints, CallPoints,
            MainPoints, Inner
  <2>7. CASE RtStop
    BY <2>7 DEF TypeControl, LineInv, InOp, OpPoints, RtPoints, SuspendPoints, CallPoints,
            MainPoints, Inner
  <2>8. CASE RtMotionOverride
    BY <2>8 DEF TypeControl, LineInv, InOp, OpPoints, RtPoints, SuspendPoints, CallPoints,
            MainPoints, Inner
  <2>9. CASE RtAccessoryOverride
    BY <2>9 DEF TypeControl, LineInv, InOp, OpPoints, RtPoints, SuspendPoints, CallPoints,
            MainPoints, Inner
  <2>10. CASE RtDryRun
    BY <2>10 DEF TypeControl, LineInv, InOp, OpPoints, RtPoints, SuspendPoints, CallPoints,
            MainPoints, Inner
  <2>11. CASE RtDone
    BY <2>11 DEF TypeControl, LineInv, InOp, OpPoints, RtPoints, SuspendPoints, CallPoints,
            MainPoints, Inner
  <2> QED
    BY <2>1, <2>2, <2>3, <2>4, <2>5, <2>6, <2>7, <2>8, <2>9, <2>10, <2>11
<1>6. LineInv'
  <2>1. CASE RtAlarm
    BY <2>1 DEF LineInv, InOp, OpPoints, TypeControl, RtPoints, SuspendPoints, CallPoints,
            MainPoints, Inner
  <2>2. CASE RtSoftLimit
    BY <2>2 DEF LineInv, InOp, OpPoints, TypeControl, RtPoints, SuspendPoints, CallPoints,
            MainPoints, Inner
  <2>3. CASE RtFlags
    BY <2>3 DEF LineInv, InOp, OpPoints, TypeControl, RtPoints, SuspendPoints, CallPoints,
            MainPoints, Inner
  <2>4. CASE RtHold
    BY <2>4 DEF LineInv, InOp, OpPoints, TypeControl, RtPoints, SuspendPoints, CallPoints,
            MainPoints, Inner
  <2>5. CASE RtStart
    BY <2>5 DEF LineInv, InOp, OpPoints, TypeControl, RtPoints, SuspendPoints, CallPoints,
            MainPoints, Inner
  <2>6. CASE RtWake
    BY <2>6 DEF LineInv, InOp, OpPoints, TypeControl, RtPoints, SuspendPoints, CallPoints,
            MainPoints, Inner
  <2>7. CASE RtStop
    BY <2>7 DEF LineInv, InOp, OpPoints, TypeControl, RtPoints, SuspendPoints, CallPoints,
            MainPoints, Inner
  <2>8. CASE RtMotionOverride
    BY <2>8 DEF LineInv, InOp, OpPoints, TypeControl, RtPoints, SuspendPoints, CallPoints,
            MainPoints, Inner
  <2>9. CASE RtAccessoryOverride
    BY <2>9 DEF LineInv, InOp, OpPoints, TypeControl, RtPoints, SuspendPoints, CallPoints,
            MainPoints, Inner
  <2>10. CASE RtDryRun
    BY <2>10 DEF LineInv, InOp, OpPoints, TypeControl, RtPoints, SuspendPoints, CallPoints,
            MainPoints, Inner
  <2>11. CASE RtDone
    BY <2>11 DEF LineInv, InOp, OpPoints, TypeControl, RtPoints, SuspendPoints, CallPoints,
            MainPoints, Inner
  <2> QED
    BY <2>1, <2>2, <2>3, <2>4, <2>5, <2>6, <2>7, <2>8, <2>9, <2>10, <2>11
<1>7. PrepInv'
  <2>1. CASE RtAlarm
    BY <2>1 DEF PrepInv, PartialBlockKept, TypeMotion
  <2>2. CASE RtSoftLimit
    BY <2>2 DEF PrepInv, PartialBlockKept, TypeMotion
  <2>3. CASE RtFlags
    BY <2>3 DEF PrepInv, PartialBlockKept, TypeMotion
  <2>4. CASE RtHold
    BY <2>4 DEF PrepInv, PartialBlockKept, TypeMotion
  <2>5. CASE RtStart
    BY <2>5 DEF PrepInv, PartialBlockKept, TypeMotion
  <2>6. CASE RtWake
    BY <2>6 DEF PrepInv, PartialBlockKept, TypeMotion
  <2>7. CASE RtStop
    BY <2>7 DEF PrepInv, PartialBlockKept, TypeMotion
  <2>8. CASE RtMotionOverride
    BY <2>8 DEF PrepInv, PartialBlockKept, TypeMotion
  <2>9. CASE RtAccessoryOverride
    BY <2>9 DEF PrepInv, PartialBlockKept, TypeMotion
  <2>10. CASE RtDryRun
    BY <2>10 DEF PrepInv, PartialBlockKept, TypeMotion
  <2>11. CASE RtDone
    BY <2>11 DEF PrepInv, PartialBlockKept, TypeMotion
  <2> QED
    BY <2>1, <2>2, <2>3, <2>4, <2>5, <2>6, <2>7, <2>8, <2>9, <2>10, <2>11
<1> QED
  BY <1>1, <1>2, <1>3, <1>4, <1>5, <1>6, <1>7

\* The segment generator.
LEMMA PrepBufferStep == ASSUME IInv, PrepBuffer PROVE IInv'
<1> USE ConstantAssumption, BitFacts DEF IInv, TypeOK, sysVars, ovrVars, reqVars, outVars, gcVars, prepVars, isrVars, callVars
<1> USE DEF PrepBuffer, PrepSegment, PrepHoldEnds, PrepDone, AtFill, FillDone, Remaining, Goto,
            AfterFill
<1>1. TypeSystem'
  BY DEF TypeSystem, States
<1>2. TypeRequests'
  BY DEF TypeRequests, Alarms
<1>3. TypeOutputs'
  BY DEF TypeOutputs
<1>4. TypeMotion'
  <2>1. CASE PrepSegment
    BY <2>1, PrepSegmentMotion
  <2>2. CASE PrepHoldEnds
    BY <2>2 DEF TypeMotion, PrepInv, PartialBlockKept
  <2>3. CASE PrepDone
    BY <2>3 DEF TypeMotion, PrepInv, PartialBlockKept
  <2> QED
    BY <2>1, <2>2, <2>3
<1>5. TypeControl'
  BY DEF TypeControl, LineInv, InOp, OpPoints, RtPoints, SuspendPoints, CallPoints,
            MainPoints, Inner
<1>6. LineInv'
  BY DEF LineInv, InOp, OpPoints, TypeControl, RtPoints, SuspendPoints, CallPoints,
            MainPoints, Inner
<1>7. PrepInv'
  BY DEF PrepInv, PartialBlockKept, TypeMotion
<1> QED
  BY <1>1, <1>2, <1>3, <1>4, <1>5, <1>6, <1>7

\* The suspend states.
LEMMA ExecRtSuspendStep == ASSUME IInv, ExecRtSuspend PROVE IInv'
<1> USE ConstantAssumption, BitFacts DEF IInv, TypeOK, sysVars, ovrVars, reqVars, outVars, gcVars, prepVars, isrVars, callVars
<1> USE DEF ExecRtSuspend, SuspExit, SuspWait, SuspRetract, SuspSleep, SuspDoor, SuspHold,
            SuspRestoreSpindle, SuspRestoreCoolant, SuspResume, At, Return, Suspended, Poll,
            Parked, SetSpindle, SetCoolant, Goto, HoldComplete, Restoring, Delay, NoRestore
<1>1. TypeSystem'
  BY DEF TypeSystem, States
<1>2. TypeRequests'
  BY DEF TypeRequests, Alarms
<1>3. TypeOutputs'
  <2>1. CASE SuspExit
    BY <2>1 DEF TypeOutputs
  <2>2. CASE SuspWait
    BY <2>2 DEF TypeOutputs
  <2>3. CASE SuspRetract
    BY <2>3 DEF TypeOutputs
  <2>4. CASE SuspSleep
    BY <2>4 DEF TypeOutputs
  <2>5. CASE SuspDoor
    BY <2>5 DEF TypeOutputs
  <2>6. CASE SuspHold
    BY <2>6 DEF TypeOutputs
  <2>7. CASE SuspRestoreSpindle
    BY <2>7 DEF TypeOutputs
  <2>8. CASE SuspRestoreCoolant
    BY <2>8 DEF TypeOutputs
  <2>9. CASE SuspResume
    BY <2>9 DEF TypeOutputs
  <2> QED
    BY <2>1, <2>2, <2>3, <2>4, <2>5, <2>6, <2>7, <2>8, <2>9
<1>4. TypeMotion'
  BY DEF TypeMotion, PrepInv, PartialBlockKept
<1>5. TypeControl'
  BY DEF TypeControl, LineInv, InOp, OpPoints, RtPoints, SuspendPoints, CallPoints,
            MainPoints, Inner
<1>6. LineInv'
  BY DEF LineInv, InOp, OpPoints, TypeControl, RtPoints, SuspendPoints, CallPoints,
            MainPoints, Inner
<1>7. PrepInv'
  BY DEF PrepInv, PartialBlockKept, TypeMotion
<1> QED
  BY <1>1, <1>2, <1>3, <1>4, <1>5, <1>6, <1>7

\* Lines without motion.
LEMMA LineOpsStep == ASSUME IInv, LineOps PROVE IInv'
<1> USE ConstantAssumption, BitFacts DEF IInv, TypeOK, sysVars, ovrVars, reqVars, outVars, gcVars, prepVars, isrVars, callVars
<1> USE DEF LineOps, OpUnlock, OpCheckMode, OpSleep, OpSync, AfterSync, SpindleSynced,
            CoolantSynced, ProgramPause, ProgramEnd, OpReturns, Op, Finish, McReset, SkipsSync,
            IsSpindle, Target, IsCoolant, AutoStart, Call, At, Goto, Synced, SetSpindle,
            SetCoolant, InMotion, Redundant
<1>1. TypeSystem'
  BY DEF TypeSystem, States
<1>2. TypeRequests'
  BY DEF TypeRequests, Alarms
<1>3. TypeOutputs'
  <2>1. CASE OpUnlock
    BY <2>1 DEF TypeOutputs
  <2>2. CASE OpCheckMode
    BY <2>2 DEF TypeOutputs
  <2>3. CASE OpSleep
    BY <2>3 DEF TypeOutputs
  <2>4. CASE OpSync
    BY <2>4, SyncOutputs
  <2>5. CASE AfterSync
    BY <2>5 DEF TypeOutputs
  <2>6. CASE SpindleSynced
    BY <2>6, SyncOutputs
  <2>7. CASE CoolantSynced
    BY <2>7, SyncOutputs
  <2>8. CASE ProgramPause
    BY <2>8 DEF TypeOutputs
  <2>9. CASE ProgramEnd
    BY <2>9 DEF TypeOutputs
  <2>10. CASE OpReturns
    BY <2>10 DEF TypeOutputs
  <2> QED
    BY <2>1, <2>2, <2>3, <2>4, <2>5, <2>6, <2>7, <2>8, <2>9, <2>10
<1>4. TypeMotion'
  BY DEF TypeMotion, PrepInv, PartialBlockKept
<1>5. TypeControl'
  BY LineOpsControl
<1>6. LineInv'
  BY DEF LineInv, InOp, OpPoints, TypeControl, RtPoints, SuspendPoints, CallPoints,
            MainPoints, Inner
<1>7. PrepInv'
  BY DEF PrepInv, PartialBlockKept, TypeMotion
<1> QED
  BY <1>1, <1>2, <1>3, <1>4, <1>5, <1>6, <1>7

\* Lines with motion.
LEMMA MotionOpsStep == ASSUME IInv, MotionOps PROVE IInv'
<1> USE ConstantAssumption, BitFacts DEF IInv, TypeOK, sysVars, ovrVars, reqVars, outVars, gcVars, prepVars, isrVars, callVars
<1> USE DEF MotionOps, OpMove, McLine, JogWake, OpSoftLimit, SoftWait, SoftKill, SoftAlarm,
            SoftReturns, ProbeBegin, ProbeWait, ProbeEnd, Op, Finish, Call, At, McLineEnds,
            AutoStart, UpdatePlanBlock, WakeUp, Goto, McReset, Synced, FlushMotion, InMotion
<1>1. TypeSystem'
  BY DEF TypeSystem, States
<1>2. TypeRequests'
  BY DEF TypeRequests, Alarms
<1>3. TypeOutputs'
  <2>1. CASE OpMove
    BY <2>1 DEF TypeOutputs
  <2>2. CASE McLine
    BY <2>2 DEF TypeOutputs
  <2>3. CASE JogWake
    BY <2>3 DEF TypeOutputs
  <2>4. CASE OpSoftLimit
    BY <2>4 DEF TypeOutputs
  <2>5. CASE SoftWait
    BY <2>5 DEF TypeOutputs
  <2>6. CASE SoftKill
    BY <2>6 DEF TypeOutputs
  <2>7. CASE SoftAlarm
    BY <2>7 DEF TypeOutputs
  <2>8. CASE SoftReturns
    BY <2>8 DEF TypeOutputs
  <2>9. CASE ProbeBegin
    BY <2>9 DEF TypeOutputs
  <2>10. CASE ProbeWait
    BY <2>10 DEF TypeOutputs
  <2>11. CASE ProbeEnd
    BY <2>11 DEF TypeOutputs
  <2> QED
    BY <2>1, <2>2, <2>3, <2>4, <2>5, <2>6, <2>7, <2>8, <2>9, <2>10, <2>11
<1>4. TypeMotion'
  <2>1. CASE OpMove
    BY <2>1 DEF TypeMotion, PrepInv, PartialBlockKept
  <2>2. CASE McLine
    BY <2>2, McLineMotion
  <2>3. CASE JogWake
    BY <2>3 DEF TypeMotion, PrepInv, PartialBlockKept
  <2>4. CASE OpSoftLimit
    BY <2>4 DEF TypeMotion, PrepInv, PartialBlockKept
  <2>5. CASE SoftWait
    BY <2>5 DEF TypeMotion, PrepInv, PartialBlockKept
  <2>6. CASE SoftKill
    BY <2>6 DEF TypeMotion, PrepInv, PartialBlockKept
  <2>7. CASE SoftAlarm
    BY <2>7 DEF TypeMotion, PrepInv, PartialBlockKept
  <2>8. CASE SoftReturns
    BY <2>8 DEF TypeMotion, PrepInv, PartialBlockKept
  <2>9. CASE ProbeBegin
    BY <2>9 DEF TypeMotion, PrepInv, PartialBlockKept
  <2>10. CASE ProbeWait
    BY <2>10 DEF TypeMotion, PrepInv, PartialBlockKept
  <2>11. CASE ProbeEnd
    BY <2>11, FlushType DEF ProbeEnd
  <2> QED
    BY <2>1, <2>2, <2>3, <2>4, <2>5, <2>6, <2>7, <2>8, <2>9, <2>10, <2>11
<1>5. TypeControl'
  BY MotionOpsControl
<1>6. LineInv'
  BY DEF LineInv, InOp, OpPoints, TypeControl, RtPoints, SuspendPoints, CallPoints,
            MainPoints, Inner
<1>7. PrepInv'
  BY DEF PrepInv, PartialBlockKept, TypeMotion
<1> QED
  BY <1>1, <1>2, <1>3, <1>4, <1>5, <1>6, <1>7

\* The stepper interrupt.
LEMMA StepperIsrStep == ASSUME IInv, StepperIsr PROVE IInv'
<1> USE ConstantAssumption, BitFacts DEF IInv, TypeOK, sysVars, ovrVars, reqVars, outVars, gcVars, prepVars, isrVars, callVars
<1> USE DEF StepperIsr, StepSegment, StepEmpty, ProbeRead, ProbeWrite
<1>1. TypeSystem'
  BY DEF TypeSystem, States
<1>2. TypeRequests'
  BY DEF TypeRequests, Alarms
<1>3. TypeOutputs'
  BY DEF TypeOutputs
<1>4. TypeMotion'
  BY DEF TypeMotion, PrepInv, PartialBlockKept
<1>5. TypeControl'
  BY DEF TypeControl, LineInv, InOp, OpPoints, RtPoints, SuspendPoints, CallPoints,
            MainPoints, Inner
<1>6. LineInv'
  BY DEF LineInv, InOp, OpPoints, TypeControl, RtPoints, SuspendPoints, CallPoints,
            MainPoints, Inner
<1>7. PrepInv'
  BY DEF PrepInv, PartialBlockKept, TypeMotion
<1> QED
  BY <1>1, <1>2, <1>3, <1>4, <1>5, <1>6, <1>7

\* The serial interrupt.
LEMMA SerialIsrStep == ASSUME IInv, SerialIsr PROVE IInv'
<1> USE ConstantAssumption, BitFacts DEF IInv, TypeOK, sysVars, ovrVars, reqVars, outVars, gcVars, prepVars, isrVars, callVars
<1> USE DEF SerialIsr, McReset, Request, Override, InMotion
<1>1. TypeSystem'
  BY DEF TypeSystem, States
<1>2. TypeRequests'
  BY DEF TypeRequests, Alarms
<1>3. TypeOutputs'
  BY DEF TypeOutputs
<1>4. TypeMotion'
  BY DEF TypeMotion, PrepInv, PartialBlockKept
<1>5. TypeControl'
  BY DEF TypeControl, LineInv, InOp, OpPoints, RtPoints, SuspendPoints, CallPoints,
            MainPoints, Inner
<1>6. LineInv'
  BY DEF LineInv, InOp, OpPoints, TypeControl, RtPoints, SuspendPoints, CallPoints,
            MainPoints, Inner
<1>7. PrepInv'
  BY DEF PrepInv, PartialBlockKept, TypeMotion
<1> QED
  BY <1>1, <1>2, <1>3, <1>4, <1>5, <1>6, <1>7

\* The limit interrupt.
LEMMA LimitIsrStep == ASSUME IInv, LimitIsr PROVE IInv'
<1> USE ConstantAssumption, BitFacts DEF IInv, TypeOK, sysVars, ovrVars, reqVars, outVars, gcVars, prepVars, isrVars, callVars
<1> USE DEF LimitIsr, InMotion
<1>1. TypeSystem'
  BY DEF TypeSystem, States
<1>2. TypeRequests'
  BY DEF TypeRequests, Alarms
<1>3. TypeOutputs'
  BY DEF TypeOutputs
<1>4. TypeMotion'
  BY DEF TypeMotion, PrepInv, PartialBlockKept
<1>5. TypeControl'
  BY DEF TypeControl, LineInv, InOp, OpPoints, RtPoints, SuspendPoints, CallPoints,
            MainPoints, Inner
<1>6. LineInv'
  BY DEF LineInv, InOp, OpPoints, TypeControl, RtPoints, SuspendPoints, CallPoints,
            MainPoints, Inner
<1>7. PrepInv'
  BY DEF PrepInv, PartialBlockKept, TypeMotion
<1> QED
  BY <1>1, <1>2, <1>3, <1>4, <1>5, <1>6, <1>7

-----------------------------------------------------------------------------
LEMMA InitIInv == Init => IInv
<1> SUFFICES ASSUME Init PROVE IInv
  OBVIOUS
<1> USE Bounds DEF Init
<1>1. TypeSystem /\ TypeRequests
  BY DEF TypeSystem, TypeRequests, States, Alarms
<1>2. TypeOutputs
  BY DEF TypeOutputs, NoRestore
<1>3. TypeMotion
  <2>1. queue \in Seq(BOOLEAN)
    OBVIOUS
  <2>2. left \in 0..BlockSegs /\ segs \in 0..SegCap
    OBVIOUS
  <2> QED
    BY <2>1, <2>2 DEF TypeMotion
<1>4. TypeControl
  BY DEF TypeControl, MainPoints, CallPoints, Inner
<1>5. LineInv /\ PrepInv
  BY DEF LineInv, InOp, OpPoints, RtPoints, SuspendPoints, PrepInv, PartialBlockKept
<1> QED
  BY <1>1, <1>2, <1>3, <1>4, <1>5 DEF IInv, TypeOK

LEMMA StepIInv == IInv /\ [Next]_vars => IInv'
<1> SUFFICES ASSUME IInv, [Next]_vars PROVE IInv'
  OBVIOUS
<1>1. CASE Next
  BY <1>1, MainLoopStep, ExecRtSystemStep, PrepBufferStep, ExecRtSuspendStep, LineOpsStep,
     MotionOpsStep, StepperIsrStep, SerialIsrStep, LimitIsrStep DEF Next, Main
<1>2. CASE UNCHANGED vars
  BY <1>2 DEF vars, sysVars, ovrVars, reqVars, outVars, gcVars, prepVars, isrVars, callVars,
     IInv, TypeOK, TypeSystem, TypeRequests, TypeOutputs, TypeMotion, TypeControl, LineInv,
     InOp, PrepInv, PartialBlockKept
<1> QED
  BY <1>1, <1>2

\* IInv holds in every reachable state.
THEOREM IInvHolds == Spec => []IInv
  BY InitIInv, StepIInv, PTL DEF Spec

\* Every variable keeps its type; in particular the counters of the segment generator
\* (stepper.c, st_prep_buffer) never leave their range.
THEOREM TypeCorrect == Spec => []TypeOK
<1>1. IInv => TypeOK
  BY DEF IInv
<1> QED
  BY <1>1, IInvHolds, PTL

\* A block whose steps are partly prepared stays at the head of the planner, whatever holds,
\* overrides, resets and re-plans come in between (stepper.c:625).
THEOREM PartialBlockTheorem == Spec => []PartialBlockKept
<1>1. IInv => PartialBlockKept
  BY DEF IInv, PrepInv
<1> QED
  BY <1>1, IInvHolds, PTL

-----------------------------------------------------------------------------
\* The dry run, which rests on the types only: every step that switches the torch on passes
\* the dry run gate of the setter, and the step that starts a dry run switches it off.

LEMMA DryRunStep == IInv /\ DryRunTorchOff /\ [Next]_vars => DryRunTorchOff'
<1> SUFFICES ASSUME IInv, DryRunTorchOff, [Next]_vars PROVE DryRunTorchOff'
  OBVIOUS
<1> USE DEF DryRunTorchOff, sysVars, ovrVars, reqVars, outVars, gcVars, prepVars, isrVars, callVars
<1>1. CASE MainLoop
  BY <1>1 DEF MainLoop, Boot, Begin, ReadLine, IdleLoop, AfterLoop, Dispatch, At, FlushMotion, Goto,
          BootLock, Call, AutoStart, Locked
<1>2. CASE ExecRtSystem
  <2>1. CASE RtAlarm
    BY <2>1 DEF RtAlarm, At, Goto
  <2>2. CASE RtSoftLimit
    BY <2>2 DEF RtSoftLimit, At, Goto
  <2>3. CASE RtFlags
    BY <2>3 DEF RtFlags, At, Goto
  <2>4. CASE RtHold
    BY <2>4 DEF RtHold, At, Goto, HoldFlags, DoorState, HeldState, HeldSuspend, StartsHold,
          UpdatePlanBlock, DoorSuspend, Moving
  <2>5. CASE RtStart
    BY <2>5 DEF RtStart, At, Starting, MayStart, RestoresSpindleFirst, StartCycle, Goto, DoorClosed,
          HoldFlags, DoorRestored, HasMotion
  <2>6. CASE RtWake
    BY <2>6 DEF RtWake, WakeUp, Goto, At
  <2>7. CASE RtStop
    BY <2>7 DEF RtStop, At, Goto, HoldCompletes, RtHoldComplete, RtMotionComplete, UpdatePlanBlock,
          FlushMotion
  <2>8. CASE RtMotionOverride
    BY <2>8 DEF RtMotionOverride, At, Goto, UpdatePlanBlock
  <2>9. CASE RtAccessoryOverride
    BY <2>9 DEF RtAccessoryOverride, SetSpindle, At, Goto
  <2>10. CASE RtDryRun
    BY <2>10 DEF RtDryRun, At, Goto, IInv, TypeOK, TypeOutputs, TypeRequests
  <2>11. CASE RtDone
    BY <2>11 DEF RtDone, At, Return, Goto, RestoreCondition, Poll, NoRestore
  <2> QED
    BY <1>2, <2>1, <2>2, <2>3, <2>4, <2>5, <2>6, <2>7, <2>8, <2>9, <2>10, <2>11 DEF ExecRtSystem
<1>3. CASE PrepBuffer
  BY <1>3 DEF PrepBuffer, PrepSegment, PrepHoldEnds, PrepDone, AtFill, FillDone, Remaining, Goto,
          AfterFill
<1>4. CASE ExecRtSuspend
  BY <1>4 DEF ExecRtSuspend, SuspExit, SuspWait, SuspRetract, SuspSleep, SuspDoor, SuspHold,
          SuspRestoreSpindle, SuspRestoreCoolant, SuspResume, At, Return, Suspended, Poll,
          Parked, SetSpindle, SetCoolant, Goto, HoldComplete, Restoring, Delay, NoRestore
<1>5. CASE LineOps
  BY <1>5 DEF LineOps, OpUnlock, OpCheckMode, OpSleep, OpSync, AfterSync, SpindleSynced,
          CoolantSynced, ProgramPause, ProgramEnd, OpReturns, Op, Finish, McReset, SkipsSync,
          IsSpindle, Target, IsCoolant, AutoStart, Call, At, Goto, Synced, SetSpindle,
          SetCoolant, InMotion, Redundant
<1>6. CASE MotionOps
  BY <1>6 DEF MotionOps, OpMove, McLine, JogWake, OpSoftLimit, SoftWait, SoftKill, SoftAlarm,
          SoftReturns, ProbeBegin, ProbeWait, ProbeEnd, Op, Finish, Call, At, McLineEnds,
          AutoStart, UpdatePlanBlock, WakeUp, Goto, McReset, Synced, FlushMotion, InMotion
<1>7. CASE StepperIsr
  BY <1>7 DEF StepperIsr, StepSegment, StepEmpty, ProbeRead, ProbeWrite
<1>8. CASE SerialIsr
  BY <1>8 DEF SerialIsr, McReset, Request, Override, InMotion
<1>9. CASE LimitIsr
  BY <1>9 DEF LimitIsr, InMotion
<1>10. CASE UNCHANGED vars
  BY <1>10 DEF vars
<1> QED
  BY <1>1, <1>2, <1>3, <1>4, <1>5, <1>6, <1>7, <1>8, <1>9, <1>10 DEF Next, Main

\* During a dry run the torch is off, whatever the program, the holds, the door and the
\* overrides do (spindle_control.c:228, protocol.c:527).
THEOREM DryRunTheorem == Spec => []DryRunTorchOff
<1>1. Init => DryRunTorchOff
  BY DEF Init, DryRunTorchOff
<1> QED
  BY <1>1, DryRunStep, IInvHolds, PTL DEF Spec
=============================================================================
