---------------------------- MODULE RealtimeExec ----------------------------
(***************************************************************************)
(* The real-time command state machine of the firmware: the main program   *)
(* (main.c, protocol.c, the blocking parts of motion_control.c, jog.c and  *)
(* limits.c) against the interrupts that post requests to it (serial RX,   *)
(* control pins, limit pins, the stepper driver interrupt).                *)
(*                                                                         *)
(* The main program is one process with a program counter; a step of it is *)
(* a stretch of code between two places where an interrupt makes a         *)
(* difference.  An interrupt handler is one step, except that the stepper  *)
(* interrupt re-enables interrupts (sei), so its read-modify-write of the  *)
(* request flags in probe_state_monitor() is two.                          *)
(*                                                                         *)
(* Abstractions: a planner block is the spindle condition it was planned   *)
(* with and takes BlockSegs segments; a line of g-code is the sequence of  *)
(* operations gc_execute_line() performs for it; override values are       *)
(* reduced to "it changed" (Overrides has the arithmetic).                 *)
(***************************************************************************)
EXTENDS Naturals, Sequences

CONSTANTS
  RtCommands,   \* the real-time characters the operator may send
  Lines,        \* the lines the host may send, each a sequence of operations
  Startup,      \* the startup scripts that may be stored ($N)
  MaxQueue,     \* blocks the planner holds when plan_check_full_buffer()
  BlockSegs,    \* segments one block is cut into
  SegCap,       \* segments the segment buffer holds
  HardLimits    \* settings.flags has BITFLAG_HARD_LIMIT_ENABLE

SysOps  == {"X", "C", "SLP", "J"}
GcOps   == {"M3", "M5", "M8", "M9", "G1", "G1far", "G38", "M0", "M30"}
Ops     == SysOps \cup GcOps
Commands == {"reset", "start", "hold", "door", "jogcancel",
             "speed", "stopovr", "flood", "feed", "dryrun"}

\* A '$' command is a line of its own (protocol.c:96).
ASSUME ConstantAssumption ==
  /\ RtCommands \subseteq Commands
  /\ Lines \subseteq {<<c>> : c \in SysOps} \cup (Seq(GcOps) \ {<<>>})
  /\ Startup \subseteq Seq(GcOps)
  /\ MaxQueue \in Nat \ {0} /\ BlockSegs \in Nat \ {0} /\ SegCap \in Nat \ {0}
  /\ HardLimits \in BOOLEAN

States  == {"IDLE", "ALARM", "CHECK", "CYCLE", "HOLD", "JOG", "DOOR", "SLEEP"}
Flags   == {"RESET", "CYCLE_START", "CYCLE_STOP", "FEED_HOLD", "SAFETY_DOOR",
            "MOTION_CANCEL", "SLEEP"}
HoldFlagsAll == {"MOTION_CANCEL", "FEED_HOLD", "SAFETY_DOOR", "SLEEP", "RESET"}    \* mutant
HoldFlags == {"MOTION_CANCEL", "FEED_HOLD", "SAFETY_DOOR", "SLEEP"}
Alarms  == {"none", "abort", "hard", "soft", "probe"}
SuspendBits == {"HOLD_COMPLETE", "RESTART_RETRACT", "RETRACT_COMPLETE",
                "INITIATE_RESTORE", "RESTORE_COMPLETE", "DOOR_AJAR",
                "MOTION_CANCEL", "JOG_CANCEL"}
StepControl == {"END_MOTION", "EXECUTE_HOLD", "UPDATE_PWM"}
AccessoryBits == {"SPEED", "STOP", "FLOOD"}
StopOvrBits == {"ENABLED", "INITIATE", "RESTORE", "RESTORE_CYCLE"}

VARIABLES
  state, abort, suspend, step_control, soft_limit, stop_ovr,   \* system_t sys
  flags, alarm, motion_ovr, acc_ovr, dry_req,                  \* sys_rt_exec_*
  probing,                                                     \* sys_probe_state
  probed,                       \* history: a G38 has been begun since the last re-initialization
  spindle, coolant,                                            \* output pins
  gc_spindle, gc_coolant, dry_run,                             \* gc_state, settings
  queue,                        \* planner blocks, the first one executing
  loaded, recalc, left, segs,   \* pl_block # NULL, prep flag, segments to prep, segment buffer
  stepper,                      \* the stepper interrupt is enabled
  busy, rmw,                    \* a stepper ISR is interrupted, its copy of flags
  pc, ret, inner, todo, rt, restore    \* control state and locals of the main program

sysVars    == <<state, abort, suspend, step_control, soft_limit, stop_ovr>>
ovrVars    == <<motion_ovr, acc_ovr, dry_req>>
reqVars    == <<flags, alarm, ovrVars>>
outVars    == <<spindle, coolant>>
gcVars     == <<gc_spindle, gc_coolant, dry_run>>
prepVars   == <<queue, loaded, recalc, left, segs>>
isrVars    == <<probing, probed, busy, rmw>>
callVars   == <<ret, inner, restore>>
vars == <<sysVars, reqVars, outVars, gcVars, prepVars, isrVars, callVars,
          stepper, pc, todo, rt>>

RtPoints == {"rt.alarm", "rt.soft", "rt.flags", "rt.hold", "rt.start", "start.fill",
             "start.wake", "rt.stop", "rt.motion", "rt.acc", "rt.dry", "rt.fill", "rt.done"}
SuspendPoints == {"susp", "susp.spindle", "susp.coolant", "susp.resume"}
CallPoints == {"line", "loop", "mcline", "sync", "pause", "soft.wait", "soft.crit",
               "probe.init", "probe.wait", "probe.end"}
MainPoints == {"boot", "begin", "idle", "op", "synced", "soft.kill", "soft.alarm", "jog.fill", "jog.wake"}
Inner == {"none", "suspend", "sleep", "susp.coolant", "susp.resume"}

TypeSystem ==
  /\ state \in States /\ abort \in BOOLEAN /\ suspend \in SUBSET SuspendBits
  /\ step_control \in SUBSET StepControl /\ soft_limit \in BOOLEAN
  /\ stop_ovr \in SUBSET StopOvrBits
TypeRequests ==
  /\ flags \in SUBSET Flags /\ alarm \in Alarms /\ motion_ovr \in BOOLEAN
  /\ acc_ovr \in SUBSET AccessoryBits /\ dry_req \in BOOLEAN
  /\ probing \in BOOLEAN /\ probed \in BOOLEAN /\ busy \in BOOLEAN
  /\ rmw \in SUBSET Flags /\ rt \in SUBSET Flags
TypeOutputs ==
  /\ spindle \in BOOLEAN /\ coolant \in BOOLEAN /\ stepper \in BOOLEAN
  /\ gc_spindle \in BOOLEAN /\ gc_coolant \in BOOLEAN /\ dry_run \in BOOLEAN
  /\ restore \in [spindle : BOOLEAN, coolant : BOOLEAN]
TypeMotion ==
  /\ queue \in Seq(BOOLEAN) /\ loaded \in BOOLEAN /\ recalc \in BOOLEAN
  /\ left \in 0..BlockSegs /\ segs \in 0..SegCap
TypeControl ==
  /\ pc \in RtPoints \cup SuspendPoints \cup CallPoints \cup MainPoints
  /\ ret \in CallPoints /\ inner \in Inner /\ todo \in Seq(Ops)
TypeOK == TypeSystem /\ TypeRequests /\ TypeOutputs /\ TypeMotion /\ TypeControl

-----------------------------------------------------------------------------
\* Building blocks shared by the main program and the interrupts.

\* The main program runs only when no interrupt handler is in progress.
At(p) == pc = p /\ ~busy
Goto(p) == pc' = p

\* Conditions under which mc_reset() kills the steppers.
InMotion == state \in {"CYCLE", "JOG"} \/ "EXECUTE_HOLD" \in step_control

\* mc_reset(): post a reset once, stop the outputs, kill a motion in progress.
McReset ==
  IF "RESET" \in flags
  THEN UNCHANGED <<flags, alarm, stepper, outVars>>
  ELSE /\ flags' = flags \cup {"RESET"}
       /\ spindle' = FALSE /\ coolant' = FALSE
       /\ alarm'   = IF InMotion THEN "abort" ELSE alarm
       /\ stepper' = (stepper /\ ~InMotion)

\* spindle_set_state(on) and coolant_set_state(on).
SetSpindleDry(on) == IF abort THEN UNCHANGED spindle ELSE spindle' = on    \* mutant
SetSpindle(on) == IF abort \/ dry_run THEN UNCHANGED spindle ELSE spindle' = on
SetCoolant(on) == IF abort THEN UNCHANGED coolant ELSE coolant' = on

\* protocol_auto_cycle_start().
AutoStartFull ==                                         \* mutant
  flags' = IF Len(queue) = MaxQueue THEN flags \cup {"CYCLE_START"} ELSE flags
AutoStart == flags' = IF queue # <<>> THEN flags \cup {"CYCLE_START"} ELSE flags

\* st_update_plan_block_parameters(): let the segment generator re-plan the block it holds.
UpdatePlanBlockForgets == loaded' = FALSE /\ UNCHANGED recalc    \* mutant
UpdatePlanBlock == recalc' = (recalc \/ loaded) /\ loaded' = FALSE

\* Call protocol_execute_realtime() and continue at r.
Call(r) == ret' = r /\ inner' = "none" /\ Goto("rt.alarm") /\ UNCHANGED restore

\* plan_reset() and st_reset(): nothing of the motion is left.
FlushPlanOnly == /\ queue' = <<>> /\ loaded' = FALSE /\ recalc' = FALSE /\ left' = 0   \* mutant
                 /\ UNCHANGED <<segs, stepper>>
FlushMotion == /\ queue' = <<>> /\ loaded' = FALSE /\ recalc' = FALSE /\ left' = 0
               /\ segs' = 0 /\ stepper' = FALSE

\* Return from protocol_execute_realtime(); its locals go out of scope.
NoRestore == [spindle |-> FALSE, coolant |-> FALSE]
Return == Goto(ret) /\ ret' = "loop" /\ inner' = "none" /\ restore' = NoRestore

\* The operation at the head of the line is done.
Finish == /\ todo' = Tail(todo)
          /\ Goto(IF Tail(todo) = <<>> THEN "idle" ELSE "op")
          /\ UNCHANGED callVars

-----------------------------------------------------------------------------
\* main(): the re-initialization loop, and the head of protocol_main_loop().

Boot ==
  /\ At("boot")
  /\ abort' = FALSE /\ suspend' = {} /\ step_control' = {} /\ soft_limit' = FALSE
  /\ stop_ovr' = {} /\ UNCHANGED state
  /\ flags' = {} /\ alarm' = "none" /\ motion_ovr' = FALSE /\ acc_ovr' = {} /\ dry_req' = FALSE
  /\ probing' = FALSE /\ probed' = FALSE /\ spindle' = FALSE /\ coolant' = FALSE
  /\ gc_spindle' = FALSE /\ gc_coolant' = FALSE /\ dry_run' = FALSE
  /\ FlushMotion
  /\ todo' = <<>> /\ Goto("begin")
  /\ UNCHANGED <<busy, rmw, callVars, rt>>

\* The limit check, the alarm lock, or the startup script.
BootLockSleepOnly == state = "SLEEP"                     \* mutant
BootLock == state \in {"ALARM", "SLEEP"}
Begin ==
  /\ At("begin")
  /\ \E limit \in IF HardLimits THEN BOOLEAN ELSE {FALSE} :
       IF limit \/ BootLock
       THEN state' = "ALARM" /\ Goto("idle") /\ UNCHANGED todo
       ELSE /\ state' = "IDLE"
            /\ \E script \in Startup :
                 todo' = script /\ Goto(IF script = <<>> THEN "idle" ELSE "op")
  /\ UNCHANGED <<abort, suspend, step_control, soft_limit, stop_ovr, reqVars, outVars, gcVars,
                 prepVars, isrVars, callVars, stepper, rt>>

\* protocol_main_loop(): a complete line has been read (which one, Dispatch chooses).
ReadLine ==
  /\ At("idle") /\ Lines # {}
  /\ Call("line")
  /\ UNCHANGED <<sysVars, reqVars, outVars, gcVars, prepVars, isrVars, stepper, todo, rt>>

\* protocol_main_loop(): the serial buffer is empty.
IdleLoop ==
  /\ At("idle")
  /\ AutoStart /\ Call("loop")
  /\ UNCHANGED <<sysVars, alarm, ovrVars, outVars, gcVars, prepVars, isrVars, stepper,
                 todo, rt>>

AfterLoop ==
  /\ At("loop")
  /\ Goto(IF abort THEN "boot" ELSE "idle")
  /\ UNCHANGED <<sysVars, reqVars, outVars, gcVars, prepVars, isrVars, callVars, stepper,
                 todo, rt>>

\* '$' commands are not blocked here; g-code is, in alarm and jog states.
LockedJog(line) == Head(line) \in GcOps /\ state = "JOG"    \* mutant
Locked(line) == Head(line) \in GcOps /\ state \in {"ALARM", "JOG"}
Dispatch ==
  /\ At("line")
  /\ IF abort THEN Goto("boot") /\ UNCHANGED todo
     ELSE \E line \in Lines :
            IF Locked(line) THEN Goto("idle") /\ UNCHANGED todo ELSE Goto("op") /\ todo' = line
  /\ UNCHANGED <<sysVars, reqVars, outVars, gcVars, prepVars, isrVars, callVars, stepper, rt>>

-----------------------------------------------------------------------------
\* protocol_exec_rt_system(), in its order of execution.

\* Alarms first.  A soft limit waits for a reset of the user's own.
RtAlarm ==
  /\ At("rt.alarm")
  /\ CASE alarm = "none" -> Goto("rt.flags") /\ UNCHANGED <<state, alarm, flags>>
       [] alarm = "soft" -> /\ flags' = flags \ {"RESET"} /\ Goto("rt.soft")
                            /\ UNCHANGED <<state, alarm>>
       [] OTHER -> state' = "ALARM" /\ alarm' = "none" /\ Goto("rt.flags") /\ UNCHANGED flags
  /\ UNCHANGED <<abort, suspend, step_control, soft_limit, stop_ovr, ovrVars, outVars, gcVars,
                 prepVars, isrVars, callVars, stepper, todo, rt>>

RtSoftLimit ==
  /\ At("rt.soft") /\ "RESET" \in flags
  /\ state' = "ALARM" /\ alarm' = "none" /\ Goto("rt.flags")
  /\ UNCHANGED <<abort, suspend, step_control, soft_limit, stop_ovr, flags, ovrVars, outVars,
                 gcVars, prepVars, isrVars, callVars, stepper, todo, rt>>

\* Copy the volatile flags; a reset aborts at once.
RtFlags ==
  /\ At("rt.flags")
  /\ rt' = flags
  /\ abort' = (abort \/ "RESET" \in flags)
  /\ Goto(IF "RESET" \in flags THEN "rt.done" ELSE IF flags = {} THEN "rt.motion" ELSE "rt.hold")
  /\ UNCHANGED <<state, suspend, step_control, soft_limit, stop_ovr, reqVars, outVars, gcVars,
                 prepVars, isrVars, callVars, stepper, todo>>

\* What the hold group makes of sys.state and sys.suspend, in the order of the code.
Moving == state \in {"CYCLE", "JOG"}
StartsHold == Moving /\ suspend \cap {"MOTION_CANCEL", "JOG_CANCEL"} = {}
HeldSuspendEager == suspend \cup {"HOLD_COMPLETE"}       \* mutant
HeldSuspendMoving ==                                     \* mutant
  IF StartsHold /\ state = "JOG" THEN suspend \cup {"JOG_CANCEL"} ELSE suspend
HeldSuspend ==
  LET jogged == IF StartsHold /\ state = "JOG" /\ "SLEEP" \notin rt
                THEN suspend \cup {"JOG_CANCEL"} ELSE suspend
      idled  == IF state = "IDLE" THEN {"HOLD_COMPLETE"} ELSE jogged
  IN IF "MOTION_CANCEL" \in rt /\ state # "JOG" THEN idled \cup {"MOTION_CANCEL"} ELSE idled
HeldState ==
  IF "FEED_HOLD" \in rt /\ state \notin {"DOOR", "JOG", "SLEEP"} THEN "HOLD" ELSE state

\* The safety door command on top of that (state s, suspend bits u).
DoorSuspendParked(s, u) ==                               \* mutant
  IF "JOG_CANCEL" \notin u /\ s = "DOOR" /\ "INITIATE_RESTORE" \in u
  THEN (u \ {"INITIATE_RESTORE", "RESTORE_COMPLETE"}) \cup {"RESTART_RETRACT", "DOOR_AJAR"}
  ELSE u \cup {"DOOR_AJAR"}
DoorSuspend(s, u) ==
  IF "JOG_CANCEL" \notin u /\ s = "DOOR" /\ "INITIATE_RESTORE" \in u
  THEN (u \ {"RETRACT_COMPLETE", "INITIATE_RESTORE", "RESTORE_COMPLETE"})
         \cup {"RESTART_RETRACT", "DOOR_AJAR"}
  ELSE u \cup {"DOOR_AJAR"}
DoorState(s, u) == IF "JOG_CANCEL" \notin u /\ s # "SLEEP" THEN "DOOR" ELSE s

\* EXEC_MOTION_CANCEL, EXEC_FEED_HOLD, EXEC_SAFETY_DOOR and EXEC_SLEEP.
RtHold ==
  /\ At("rt.hold") /\ Goto("rt.start")
  /\ IF rt \cap HoldFlags = {}
     THEN UNCHANGED <<state, suspend, step_control, spindle, flags, loaded, recalc>>
     ELSE /\ IF state \in {"ALARM", "CHECK"}
             THEN /\ suspend' = IF "SLEEP" \in rt /\ state = "ALARM"
                                THEN suspend \cup {"RETRACT_COMPLETE", "HOLD_COMPLETE"}
                                ELSE suspend
                  /\ state' = IF "SLEEP" \in rt THEN "SLEEP" ELSE state
                  /\ UNCHANGED <<step_control, spindle, loaded, recalc>>
             ELSE LET door == "SAFETY_DOOR" \in rt
                      held == IF door THEN DoorState(HeldState, HeldSuspend) ELSE HeldState
                  IN /\ IF StartsHold
                        THEN UpdatePlanBlock /\ step_control' = {"EXECUTE_HOLD"}
                        ELSE UNCHANGED <<step_control, loaded, recalc>>
                     /\ spindle' = (spindle /\ "FEED_HOLD" \notin rt)
                     /\ suspend' = IF door THEN DoorSuspend(HeldState, HeldSuspend)
                                           ELSE HeldSuspend
                     /\ state' = IF "SLEEP" \in rt THEN "SLEEP" ELSE held
          /\ flags' = flags \ HoldFlags
  /\ UNCHANGED <<abort, soft_limit, stop_ovr, alarm, ovrVars, coolant, gcVars, queue, left, segs,
                 isrVars, callVars, stepper, todo, rt>>

\* EXEC_CYCLE_START: resume a closed door, then start or resume the cycle.
DoorClosed   == state = "DOOR" /\ "DOOR_AJAR" \notin suspend
DoorRestoring == DoorClosed /\ "INITIATE_RESTORE" \in suspend    \* mutant
DoorRestored == DoorClosed /\ "RESTORE_COMPLETE" \in suspend
MayStartHeld == state \in {"IDLE", "HOLD"} \/ DoorRestored    \* mutant
MayStart == \/ state = "IDLE" \/ DoorRestored
            \/ state = "HOLD" /\ "HOLD_COMPLETE" \in suspend
Starting == "CYCLE_START" \in rt /\ rt \cap (HoldFlags \ {"SLEEP"}) = {}
RestoresSpindleFirst == state = "HOLD" /\ stop_ovr # {}
HasMotion == queue # <<>> /\ "MOTION_CANCEL" \notin suspend

StartCycleLocked ==                                      \* mutant
  /\ suspend' = {} /\ UNCHANGED step_control
  /\ state' = IF HasMotion THEN "CYCLE" ELSE "IDLE"
  /\ Goto(IF HasMotion THEN "start.fill" ELSE "rt.stop")
StartCycle ==
  /\ suspend' = {} /\ step_control' = {}
  /\ state' = IF HasMotion THEN "CYCLE" ELSE "IDLE"
  /\ Goto(IF HasMotion THEN "start.fill" ELSE "rt.stop")

RtStart ==
  /\ At("rt.start")
  /\ flags' = IF "CYCLE_START" \in rt THEN flags \ {"CYCLE_START"} ELSE flags
  /\ \/ Starting /\ MayStart /\ ~RestoresSpindleFirst /\ StartCycle /\ UNCHANGED stop_ovr
     \/ /\ Starting /\ MayStart /\ RestoresSpindleFirst
        /\ stop_ovr' = stop_ovr \cup {"RESTORE_CYCLE"}
        /\ Goto("rt.stop") /\ UNCHANGED <<state, suspend, step_control>>
     \/ /\ ~(Starting /\ MayStart)
        /\ suspend' = IF Starting /\ DoorClosed /\ "RETRACT_COMPLETE" \in suspend
                      THEN suspend \cup {"INITIATE_RESTORE"} ELSE suspend
        /\ Goto("rt.stop") /\ UNCHANGED <<state, step_control, stop_ovr>>
  /\ UNCHANGED <<abort, soft_limit, alarm, ovrVars, outVars, gcVars, prepVars, isrVars, callVars,
                 stepper, todo, rt>>

\* st_wake_up().
WakeUp(from) ==
  /\ At(from) /\ stepper' = TRUE
  /\ UNCHANGED <<sysVars, reqVars, outVars, gcVars, prepVars, isrVars, rt>>
RtWake == WakeUp("start.wake") /\ Goto("rt.stop") /\ UNCHANGED <<callVars, todo>>

\* EXEC_CYCLE_STOP: a hold has completed, or a motion has ended.
HoldCompletes == /\ state \in {"HOLD", "DOOR", "SLEEP"}
                 /\ ~soft_limit /\ "JOG_CANCEL" \notin suspend
RtHoldComplete ==
  /\ UpdatePlanBlock
  /\ suspend' = IF "EXECUTE_HOLD" \in step_control THEN suspend \cup {"HOLD_COMPLETE"} ELSE suspend
  /\ step_control' = step_control \ {"EXECUTE_HOLD"}
  /\ UNCHANGED <<state, queue, left, segs, stepper>>
RtMotionComplete ==
  /\ IF "JOG_CANCEL" \in suspend
     THEN step_control' = {} /\ FlushMotion
     ELSE UNCHANGED <<step_control, prepVars, stepper>>
  /\ IF "DOOR_AJAR" \in suspend
     THEN /\ suspend' = (suspend \ {"JOG_CANCEL"}) \cup {"HOLD_COMPLETE"}
          /\ state' = "DOOR"
     ELSE suspend' = {} /\ state' = "IDLE"
RtStop ==
  /\ At("rt.stop") /\ Goto("rt.motion")
  /\ IF "CYCLE_STOP" \in rt
     THEN /\ flags' = flags \ {"CYCLE_STOP"}
          /\ \/ HoldCompletes /\ RtHoldComplete
             \/ ~HoldCompletes /\ RtMotionComplete
     ELSE UNCHANGED <<state, suspend, step_control, flags, prepVars, stepper>>
  /\ UNCHANGED <<abort, soft_limit, stop_ovr, alarm, ovrVars, outVars, gcVars, isrVars, callVars,
                 todo, rt>>

\* Motion overrides: plan_cycle_reinitialize() when a value really changed.
RtMotionOverride ==
  /\ At("rt.motion") /\ Goto("rt.acc")
  /\ motion_ovr' = FALSE
  /\ \/ motion_ovr /\ UpdatePlanBlock
     \/ UNCHANGED <<loaded, recalc>>
  /\ UNCHANGED <<sysVars, flags, alarm, acc_ovr, dry_req, outVars, gcVars, queue, left, segs,
                 isrVars, callVars, stepper, todo, rt>>

\* Spindle speed, spindle stop and coolant toggle overrides.
RtAccessoryOverride ==
  /\ At("rt.acc") /\ Goto("rt.dry")
  /\ acc_ovr' = {}
  /\ \E changed \in IF "SPEED" \in acc_ovr THEN BOOLEAN ELSE {FALSE} :
       /\ IF changed /\ state = "IDLE" THEN SetSpindle(gc_spindle) ELSE UNCHANGED spindle
       /\ step_control' = IF changed /\ state # "IDLE"
                          THEN step_control \cup {"UPDATE_PWM"} ELSE step_control
  /\ stop_ovr' = IF "STOP" \notin acc_ovr \/ state # "HOLD" THEN stop_ovr
                 ELSE IF stop_ovr = {} THEN {"INITIATE"}
                 ELSE IF "ENABLED" \in stop_ovr THEN stop_ovr \cup {"RESTORE"} ELSE stop_ovr
  /\ IF "FLOOD" \in acc_ovr /\ state \in {"IDLE", "CYCLE", "HOLD", "JOG"}
     THEN SetCoolant(~gc_coolant) /\ gc_coolant' = ~gc_coolant
     ELSE UNCHANGED <<coolant, gc_coolant>>
  /\ UNCHANGED <<state, abort, suspend, soft_limit, flags, alarm, motion_ovr, dry_req, gc_spindle,
                 dry_run, prepVars, isrVars, callVars, stepper, todo, rt>>

\* The dry run toggle; then the segment buffer is reloaded in the motion states.
RtDryRun ==
  /\ At("rt.dry")
  /\ Goto(IF state \in {"CYCLE", "HOLD", "DOOR", "SLEEP", "JOG"} THEN "rt.fill" ELSE "rt.done")
  /\ dry_req' = FALSE
  /\ dry_run' = (dry_run # dry_req)
  /\ spindle' = (spindle /\ ~(dry_req /\ ~dry_run))
  /\ UNCHANGED <<sysVars, flags, alarm, motion_ovr, acc_ovr, coolant, gc_spindle, gc_coolant,
                 prepVars, isrVars, callVars, stepper, todo, rt>>

-----------------------------------------------------------------------------
\* st_prep_buffer(): one round of its loop, and its exits.

FillDone == "END_MOTION" \in step_control \/ segs = SegCap \/ (~loaded /\ queue = <<>>)
AfterFill == CASE pc = "rt.fill" -> "rt.done" [] pc = "start.fill" -> "start.wake"
               [] pc = "jog.fill" -> "jog.wake"
AtFill == pc \in {"rt.fill", "start.fill", "jog.fill"} /\ ~busy

\* Segments of the block that remain to be prepared when this round begins.
Remaining == IF loaded \/ recalc THEN left ELSE BlockSegs

PrepSegment ==
  /\ AtFill /\ ~FillDone
  /\ IF Remaining = 1
     THEN /\ left' = 0 /\ loaded' = FALSE /\ queue' = Tail(queue)   \* plan_discard_current_block()
     ELSE /\ left' = Remaining - 1 /\ loaded' = TRUE /\ UNCHANGED queue
  /\ segs' = segs + 1
  /\ recalc' = (recalc /\ loaded)
  /\ UNCHANGED <<sysVars, reqVars, outVars, gcVars, isrVars, callVars, stepper, pc, todo, rt>>

\* A hold decelerates to zero inside the block: with a last segment, or without one.
PrepHoldEnds ==
  /\ AtFill /\ ~FillDone /\ "EXECUTE_HOLD" \in step_control
  /\ \/ segs' = segs + 1 /\ left' = IF Remaining = 1 THEN 1 ELSE Remaining - 1
     \/ segs' = segs /\ left' = Remaining
  /\ loaded' = TRUE /\ recalc' = (recalc /\ loaded)
  /\ step_control' = step_control \cup {"END_MOTION"}
  /\ Goto(AfterFill)
  /\ UNCHANGED <<state, abort, suspend, soft_limit, stop_ovr, reqVars, outVars, gcVars, queue,
                 isrVars, callVars, stepper, todo, rt>>

PrepDone ==
  /\ AtFill /\ FillDone /\ Goto(AfterFill)
  /\ UNCHANGED <<sysVars, reqVars, outVars, gcVars, prepVars, isrVars, callVars, stepper,
                 todo, rt>>

-----------------------------------------------------------------------------
\* Return from protocol_exec_rt_system(), and protocol_exec_rt_suspend().

Poll == Goto("rt.alarm") /\ UNCHANGED callVars
RestoreCondition ==
  [spindle |-> IF queue = <<>> THEN gc_spindle ELSE Head(queue),
   coolant |-> IF queue = <<>> THEN gc_coolant ELSE coolant]

RtDone ==
  /\ At("rt.done") /\ rt' = {}
  /\ CASE inner = "none" ->
            IF suspend = {} THEN Return
            ELSE Goto("susp") /\ inner' = "suspend" /\ restore' = RestoreCondition /\ UNCHANGED ret
       [] inner = "suspend" -> Goto("susp") /\ UNCHANGED callVars
       [] inner = "sleep"   -> IF abort THEN Return ELSE Poll
       [] OTHER ->            \* delay_sec() of the door's power-up delays
            \/ Goto(inner) /\ inner' = "suspend" /\ UNCHANGED <<ret, restore>>
            \/ ~abort /\ "RESTART_RETRACT" \notin suspend /\ Poll
  /\ UNCHANGED <<sysVars, reqVars, outVars, gcVars, prepVars, isrVars, stepper, todo>>

Suspended == At("susp") /\ suspend # {} /\ ~abort
HoldComplete == Suspended /\ "HOLD_COMPLETE" \in suspend
Parked == HoldComplete /\ state \in {"DOOR", "SLEEP"}

SuspExit ==
  /\ At("susp") /\ (suspend = {} \/ abort) /\ Return
  /\ UNCHANGED <<sysVars, reqVars, outVars, gcVars, prepVars, isrVars, stepper, todo, rt>>

SuspWait ==
  /\ Suspended /\ "HOLD_COMPLETE" \notin suspend /\ Poll
  /\ UNCHANGED <<sysVars, reqVars, outVars, gcVars, prepVars, isrVars, stepper, todo, rt>>

SuspRetract ==
  /\ Parked /\ "RETRACT_COMPLETE" \notin suspend /\ Poll
  /\ stop_ovr' = {} /\ SetSpindle(FALSE) /\ SetCoolant(FALSE)
  /\ suspend' = (suspend \ {"RESTART_RETRACT"}) \cup {"RETRACT_COMPLETE"}
  /\ UNCHANGED <<state, abort, step_control, soft_limit, reqVars, gcVars, prepVars, isrVars,
                 stepper, todo, rt>>

SuspSleep ==
  /\ Parked /\ "RETRACT_COMPLETE" \in suspend /\ state = "SLEEP"
  /\ SetSpindle(FALSE) /\ SetCoolant(FALSE) /\ stepper' = FALSE
  /\ inner' = "sleep" /\ Goto("rt.alarm")
  /\ UNCHANGED <<sysVars, reqVars, gcVars, prepVars, isrVars, ret, restore, todo, rt>>

\* The door pin is not compiled in, so the door counts as closed from here on.
SuspDoor ==
  /\ Parked /\ "RETRACT_COMPLETE" \in suspend /\ state = "DOOR"
  /\ suspend' = suspend \ {"DOOR_AJAR"}
  /\ Goto(IF "INITIATE_RESTORE" \in suspend THEN "susp.spindle" ELSE "rt.alarm")
  /\ UNCHANGED <<state, abort, step_control, soft_limit, stop_ovr, reqVars, outVars, gcVars,
                 prepVars, isrVars, callVars, stepper, todo, rt>>

\* delay_sec(DELAY_MODE_SYS_SUSPEND), continuing at p.
Delay(p) == IF abort THEN Goto(p) /\ UNCHANGED callVars
            ELSE inner' = p /\ Goto("rt.alarm") /\ UNCHANGED <<ret, restore>>

SuspRestoreSpindle ==
  /\ At("susp.spindle")
  /\ IF gc_spindle /\ "RESTART_RETRACT" \notin suspend
     THEN SetSpindle(restore.spindle) /\ Delay("susp.coolant")
     ELSE Goto("susp.coolant") /\ UNCHANGED <<spindle, callVars>>
  /\ UNCHANGED <<sysVars, reqVars, coolant, gcVars, prepVars, isrVars, stepper, todo, rt>>

SuspRestoreCoolant ==
  /\ At("susp.coolant")
  /\ IF gc_coolant /\ "RESTART_RETRACT" \notin suspend
     THEN SetCoolant(restore.coolant) /\ Delay("susp.resume")
     ELSE Goto("susp.resume") /\ UNCHANGED <<coolant, callVars>>
  /\ UNCHANGED <<sysVars, reqVars, spindle, gcVars, prepVars, isrVars, stepper, todo, rt>>

SuspResume ==
  /\ At("susp.resume") /\ Poll
  /\ IF "RESTART_RETRACT" \notin suspend
     THEN suspend' = suspend \cup {"RESTORE_COMPLETE"} /\ flags' = flags \cup {"CYCLE_START"}
     ELSE UNCHANGED <<suspend, flags>>
  /\ UNCHANGED <<state, abort, step_control, soft_limit, stop_ovr, alarm, ovrVars, outVars, gcVars,
                 prepVars, isrVars, stepper, todo, rt>>

\* The feed hold manager: spindle stop override, or a spindle update during the hold.
Restoring == stop_ovr \cap {"RESTORE", "RESTORE_CYCLE"} # {}
SuspHold ==
  /\ HoldComplete /\ state \notin {"DOOR", "SLEEP"} /\ Poll
  /\ CASE "INITIATE" \in stop_ovr ->
            /\ IF gc_spindle THEN SetSpindle(FALSE) ELSE UNCHANGED spindle
            /\ stop_ovr' = IF gc_spindle THEN {"ENABLED"} ELSE {}
            /\ UNCHANGED <<flags, step_control>>
       [] "INITIATE" \notin stop_ovr /\ Restoring ->
            /\ IF gc_spindle THEN SetSpindle(restore.spindle) ELSE UNCHANGED spindle
            /\ flags' = IF "RESTORE_CYCLE" \in stop_ovr THEN flags \cup {"CYCLE_START"} ELSE flags
            /\ stop_ovr' = {} /\ UNCHANGED step_control
       [] stop_ovr = {} /\ "UPDATE_PWM" \in step_control ->
            /\ SetSpindle(restore.spindle) /\ step_control' = step_control \ {"UPDATE_PWM"}
            /\ UNCHANGED <<flags, stop_ovr>>
       [] OTHER -> UNCHANGED <<spindle, flags, stop_ovr, step_control>>
  /\ UNCHANGED <<state, abort, suspend, soft_limit, alarm, ovrVars, coolant, gcVars, prepVars,
                 isrVars, stepper, todo, rt>>

-----------------------------------------------------------------------------
\* The operations of a line.

Op(o)     == At("op") /\ Head(todo) = o
Synced(o) == At("synced") /\ Head(todo) = o

\* $X and $C of system_execute_line(); $SLP.
OpUnlock ==
  /\ Op("X") /\ Finish
  /\ state' = IF state = "ALARM" THEN "IDLE" ELSE state
  /\ UNCHANGED <<abort, suspend, step_control, soft_limit, stop_ovr, reqVars, outVars, gcVars,
                 prepVars, isrVars, stepper, rt>>

OpCheckMode ==
  /\ Op("C") /\ Finish
  /\ IF state = "CHECK" THEN McReset ELSE UNCHANGED <<flags, alarm, stepper, outVars>>
  /\ state' = IF state = "IDLE" THEN "CHECK" ELSE state
  /\ UNCHANGED <<abort, suspend, step_control, soft_limit, stop_ovr, ovrVars, gcVars, prepVars,
                 isrVars, rt>>

OpSleep ==
  /\ Op("SLP") /\ Finish
  /\ flags' = IF state \in {"IDLE", "ALARM"} THEN flags \cup {"SLEEP"} ELSE flags
  /\ UNCHANGED <<sysVars, alarm, ovrVars, outVars, gcVars, prepVars, isrVars, stepper, rt>>

\* protocol_buffer_synchronize(), entered by the operations that need it.
Target(o) == o \in {"M3", "M8"}
IsSpindle(o) == o \in {"M3", "M5"}
IsCoolant(o) == o \in {"M8", "M9"}
Redundant(o) == \/ IsSpindle(o) /\ gc_spindle = Target(o)
                \/ IsCoolant(o) /\ gc_coolant = Target(o)
SkipsSync(o) == Redundant(o) \/ (state = "CHECK" /\ o \notin {"M0", "M30"})

OpSync ==
  /\ \E o \in {"M3", "M5", "M8", "M9", "G38", "M0", "M30"} : Op(o)
  /\ LET o == Head(todo) IN
     IF SkipsSync(o)
     THEN /\ Finish /\ UNCHANGED flags
          /\ gc_spindle' = IF IsSpindle(o) THEN Target(o) ELSE gc_spindle
          /\ gc_coolant' = IF IsCoolant(o) THEN Target(o) ELSE gc_coolant
     ELSE AutoStart /\ Call("sync") /\ UNCHANGED <<todo, gc_spindle, gc_coolant>>
  /\ UNCHANGED <<sysVars, alarm, ovrVars, outVars, dry_run, prepVars, isrVars, stepper, rt>>

AfterSyncOnce ==                                         \* mutant
  /\ At("sync") /\ Goto("synced")
  /\ UNCHANGED <<sysVars, reqVars, outVars, gcVars, prepVars, isrVars, callVars, stepper, todo,
                 rt>>
AfterSync ==
  /\ At("sync")
  /\ IF ~abort /\ (queue # <<>> \/ state = "CYCLE")
     THEN Call("sync") ELSE Goto("synced") /\ UNCHANGED callVars
  /\ UNCHANGED <<sysVars, reqVars, outVars, gcVars, prepVars, isrVars, stepper, todo, rt>>

SpindleSynced ==
  /\ \E o \in {"M3", "M5"} : Synced(o) /\ SetSpindle(Target(o)) /\ gc_spindle' = Target(o)
  /\ Finish
  /\ UNCHANGED <<sysVars, reqVars, coolant, gc_coolant, dry_run, prepVars, isrVars, stepper,
                 rt>>

CoolantSynced ==
  /\ \E o \in {"M8", "M9"} : Synced(o) /\ SetCoolant(Target(o)) /\ gc_coolant' = Target(o)
  /\ Finish
  /\ UNCHANGED <<sysVars, reqVars, spindle, gc_spindle, dry_run, prepVars, isrVars, stepper,
                 rt>>

\* M0: a feed hold is the pause.  M30: back to M5 and M9.
ProgramPause ==
  /\ Synced("M0")
  /\ IF state # "CHECK"
     THEN flags' = flags \cup {"FEED_HOLD"} /\ Call("pause") /\ UNCHANGED todo
     ELSE Finish /\ UNCHANGED flags
  /\ UNCHANGED <<sysVars, alarm, ovrVars, outVars, gcVars, prepVars, isrVars, stepper, rt>>

ProgramEnd ==
  /\ Synced("M30") /\ Finish
  /\ gc_spindle' = FALSE /\ gc_coolant' = FALSE
  /\ IF state # "CHECK" THEN SetSpindle(FALSE) /\ SetCoolant(FALSE) ELSE UNCHANGED outVars
  /\ UNCHANGED <<sysVars, reqVars, dry_run, prepVars, isrVars, stepper, rt>>

\* The last call of the operation has returned.
OpReturns ==
  /\ \E p \in {"pause", "probe.init"} : At(p)
  /\ Finish
  /\ UNCHANGED <<sysVars, reqVars, outVars, gcVars, prepVars, isrVars, stepper, rt>>

-----------------------------------------------------------------------------
\* mc_line(), limits_soft_check(), jog_execute() and mc_probe_cycle().

OpMove ==
  /\ \/ Op("G1") /\ (IF state = "CHECK" THEN Finish ELSE Call("mcline") /\ UNCHANGED todo)
     \/ Op("J") /\ (IF state \in {"IDLE", "JOG"} THEN Call("mcline") /\ UNCHANGED todo ELSE Finish)
  /\ UNCHANGED <<sysVars, reqVars, outVars, gcVars, prepVars, isrVars, stepper, rt>>

\* mc_line() is done: a jog starts its cycle by hand, a probe move waits for its end.
McLineEnds ==
  LET jogs == Head(todo) = "J" /\ state = "IDLE" /\ queue' # <<>>
      probes == Head(todo) = "G38"
  IN /\ state' = IF jogs THEN "JOG" ELSE state
     /\ probing' = (probing \/ probes)
     /\ flags' = IF probes THEN flags \cup {"CYCLE_START"} ELSE flags
     /\ CASE jogs -> Goto("jog.fill") /\ UNCHANGED <<todo, callVars>>
          [] probes -> Call("probe.wait") /\ UNCHANGED todo
          [] OTHER -> Finish

McLine ==
  /\ At("mcline")
  /\ \/ /\ abort
        /\ UNCHANGED <<queue, loaded, recalc>> /\ McLineEnds
     \/ /\ ~abort /\ Len(queue) = MaxQueue
        /\ AutoStart /\ Call("mcline")
        /\ UNCHANGED <<queue, loaded, recalc, state, probing, todo>>
     \/ /\ ~abort /\ Len(queue) < MaxQueue
        /\ queue' = Append(queue, gc_spindle)
        /\ (UpdatePlanBlock \/ UNCHANGED <<loaded, recalc>>)    \* planner_recalculate()
        /\ McLineEnds
  /\ UNCHANGED <<abort, suspend, step_control, soft_limit, stop_ovr, alarm, ovrVars, outVars,
                 gcVars, left, segs, probed, busy, rmw, stepper, rt>>

JogWake == WakeUp("jog.wake") /\ Finish

\* limits_soft_check() of a target outside the work envelope.
OpSoftLimit ==
  /\ Op("G1far") /\ soft_limit' = TRUE
  /\ IF state = "CYCLE"
     THEN flags' = flags \cup {"FEED_HOLD"} /\ Call("soft.wait")
     ELSE Goto("soft.kill") /\ UNCHANGED <<flags, callVars>>
  /\ UNCHANGED <<state, abort, suspend, step_control, stop_ovr, alarm, ovrVars, outVars, gcVars,
                 prepVars, isrVars, stepper, todo, rt>>

SoftWaitForever ==                                       \* mutant
  /\ At("soft.wait")
  /\ IF state # "IDLE" THEN Call("soft.wait") ELSE Goto("soft.kill") /\ UNCHANGED callVars
  /\ UNCHANGED <<sysVars, reqVars, outVars, gcVars, prepVars, isrVars, stepper, todo, rt>>
SoftWait ==
  /\ At("soft.wait")
  /\ CASE abort -> Call("mcline")
       [] ~abort /\ state # "IDLE" -> Call("soft.wait")
       [] OTHER -> Goto("soft.kill") /\ UNCHANGED callVars
  /\ UNCHANGED <<sysVars, reqVars, outVars, gcVars, prepVars, isrVars, stepper, todo, rt>>

SoftKill ==
  /\ At("soft.kill") /\ McReset /\ Goto("soft.alarm")
  /\ UNCHANGED <<sysVars, ovrVars, gcVars, prepVars, isrVars, callVars, todo, rt>>

SoftAlarm ==
  /\ At("soft.alarm") /\ alarm' = "soft" /\ Call("soft.crit")
  /\ UNCHANGED <<sysVars, flags, ovrVars, outVars, gcVars, prepVars, isrVars, stepper,
                 todo, rt>>

\* Back in mc_line().
SoftReturns ==
  /\ At("soft.crit")
  /\ IF state = "CHECK" THEN Finish ELSE Call("mcline") /\ UNCHANGED todo
  /\ UNCHANGED <<sysVars, reqVars, outVars, gcVars, prepVars, isrVars, stepper, rt>>

\* mc_probe_cycle() after its synchronization.
ProbeBegin ==
  /\ Synced("G38") /\ probed' = TRUE
  /\ IF abort THEN Finish /\ UNCHANGED alarm
     ELSE \/ alarm' = "probe" /\ Call("probe.init") /\ UNCHANGED todo   \* already in contact
          \/ Call("mcline") /\ UNCHANGED <<todo, alarm>>
  /\ UNCHANGED <<sysVars, flags, ovrVars, outVars, gcVars, prepVars, probing, busy, rmw,
                 stepper, rt>>

ProbeWaitContact ==                                      \* mutant
  /\ At("probe.wait")
  /\ CASE abort -> Finish /\ UNCHANGED <<alarm, probing>>
       [] ~abort /\ (probing \/ state # "IDLE") ->
            Call("probe.wait") /\ UNCHANGED <<todo, alarm, probing>>
       [] OTHER -> UNCHANGED <<alarm, probing>> /\ Call("probe.end") /\ UNCHANGED todo
  /\ UNCHANGED <<sysVars, flags, ovrVars, outVars, gcVars, prepVars, probed, busy, rmw,
                 stepper, rt>>
ProbeWait ==
  /\ At("probe.wait")
  /\ CASE abort -> Finish /\ UNCHANGED <<alarm, probing>>
       [] ~abort /\ state # "IDLE" -> Call("probe.wait") /\ UNCHANGED <<todo, alarm, probing>>
       [] OTHER -> /\ alarm' \in IF probing THEN {alarm, "probe"} ELSE {alarm}
                   /\ probing' = FALSE /\ Call("probe.end") /\ UNCHANGED todo
  /\ UNCHANGED <<sysVars, flags, ovrVars, outVars, gcVars, prepVars, probed, busy, rmw,
                 stepper, rt>>

\* st_reset() and plan_reset() drop the rest of the probing motion.
ProbeEnd ==
  /\ At("probe.end") /\ Finish /\ FlushMotion
  /\ UNCHANGED <<sysVars, reqVars, outVars, gcVars, isrVars, rt>>

-----------------------------------------------------------------------------
\* Interrupts.

Request(f) ==
  /\ flags' = flags \cup {f}
  /\ UNCHANGED <<alarm, ovrVars, outVars, stepper>>
Override(m, a, d) ==
  /\ motion_ovr' = (motion_ovr \/ m) /\ acc_ovr' = acc_ovr \cup a /\ dry_req' = (dry_req \/ d)
  /\ UNCHANGED <<flags, alarm, outVars, stepper>>

\* ISR(SERIAL_RX): a real-time character, c in RtCommands.
SerialIsr ==
  /\ \/ "reset"   \in RtCommands /\ McReset /\ UNCHANGED ovrVars
     \/ "start"   \in RtCommands /\ Request("CYCLE_START")
     \/ "hold"    \in RtCommands /\ Request("FEED_HOLD")
     \/ "door"    \in RtCommands /\ Request("SAFETY_DOOR")
     \/ "jogcancel" \in RtCommands /\ state = "JOG" /\ Request("MOTION_CANCEL")
     \/ "feed"    \in RtCommands /\ Override(TRUE, {}, FALSE)
     \/ "speed"   \in RtCommands /\ Override(FALSE, {"SPEED"}, FALSE)
     \/ "stopovr" \in RtCommands /\ Override(FALSE, {"STOP"}, FALSE)
     \/ "flood"   \in RtCommands /\ Override(FALSE, {"FLOOD"}, FALSE)
     \/ "dryrun"  \in RtCommands /\ Override(FALSE, {}, TRUE)
  /\ UNCHANGED <<sysVars, gcVars, prepVars, isrVars, callVars, pc, todo, rt>>

\* ISR(LIMIT_INT_vect): enabled only with hard limits.
LimitIsr ==
  /\ HardLimits /\ state # "ALARM" /\ alarm = "none"
  /\ alarm' = "hard"
  /\ IF "RESET" \in flags THEN UNCHANGED <<flags, stepper, outVars>>
     ELSE /\ flags' = flags \cup {"RESET"} /\ spindle' = FALSE /\ coolant' = FALSE
          /\ stepper' = (stepper /\ ~InMotion)
  /\ UNCHANGED <<sysVars, ovrVars, gcVars, prepVars, isrVars, callVars, pc, todo, rt>>

\* ISR(TIMER1_COMPA_vect): a segment is stepped out, or there is none and the cycle stops.
StepSegmentUnderflow ==                                  \* mutant
  /\ stepper /\ ~busy
  /\ segs' = segs - 1
  /\ UNCHANGED <<flags, stepper, isrVars>>
StepSegment ==
  /\ stepper /\ ~busy /\ segs > 0
  /\ segs' = segs - 1
  /\ UNCHANGED <<flags, stepper, isrVars>>
StepEmptyAwake ==                                        \* mutant
  /\ stepper /\ ~busy /\ segs = 0
  /\ flags' = flags \cup {"CYCLE_STOP"}
  /\ UNCHANGED <<stepper, segs, isrVars>>
StepEmpty ==
  /\ stepper /\ ~busy /\ segs = 0
  /\ stepper' = FALSE /\ flags' = flags \cup {"CYCLE_STOP"}
  /\ UNCHANGED <<segs, isrVars>>
\* The probe closes: probe_state_monitor() reads the flags ...
ProbeRead ==
  /\ stepper /\ ~busy /\ segs > 0 /\ probing
  /\ busy' = TRUE /\ rmw' = flags /\ probing' = FALSE
  /\ UNCHANGED <<flags, stepper, segs, probed>>
\* ... and writes them back with EXEC_MOTION_CANCEL set.
ProbeWrite ==
  /\ busy /\ busy' = FALSE /\ rmw' = {}
  /\ flags' = rmw \cup {"MOTION_CANCEL"}
  /\ segs' \in {segs, segs - 1} \cap Nat
  /\ UNCHANGED <<stepper, probing, probed>>
StepperIsr ==
  /\ StepSegment \/ StepEmpty \/ ProbeRead \/ ProbeWrite
  /\ UNCHANGED <<sysVars, alarm, ovrVars, outVars, gcVars, queue, loaded, recalc, left,
                 callVars, pc, todo, rt>>

-----------------------------------------------------------------------------
Init ==
  /\ state \in {"IDLE", "ALARM"}          \* HOMING_INIT_LOCK, or not
  /\ abort = FALSE /\ suspend = {} /\ step_control = {} /\ soft_limit = FALSE /\ stop_ovr = {}
  /\ flags = {} /\ alarm = "none" /\ motion_ovr = FALSE /\ acc_ovr = {} /\ dry_req = FALSE
  /\ probing = FALSE /\ probed = FALSE /\ busy = FALSE /\ rmw = {}
  /\ spindle = FALSE /\ coolant = FALSE
  /\ gc_spindle = FALSE /\ gc_coolant = FALSE /\ dry_run = FALSE
  /\ queue = <<>> /\ loaded = FALSE /\ recalc = FALSE /\ left = 0 /\ segs = 0 /\ stepper = FALSE
  /\ pc = "boot" /\ ret = "loop" /\ inner = "none" /\ todo = <<>> /\ rt = {}
  /\ restore = NoRestore

MainLoop == Boot \/ Begin \/ ReadLine \/ IdleLoop \/ AfterLoop \/ Dispatch
ExecRtSystem == \/ RtAlarm \/ RtSoftLimit \/ RtFlags \/ RtHold \/ RtStart \/ RtWake \/ RtStop
                \/ RtMotionOverride \/ RtAccessoryOverride \/ RtDryRun \/ RtDone
PrepBuffer == PrepSegment \/ PrepHoldEnds \/ PrepDone
ExecRtSuspend == \/ SuspExit \/ SuspWait \/ SuspRetract \/ SuspSleep \/ SuspDoor \/ SuspHold
                 \/ SuspRestoreSpindle \/ SuspRestoreCoolant \/ SuspResume
LineOps == \/ OpUnlock \/ OpCheckMode \/ OpSleep \/ OpSync \/ AfterSync \/ SpindleSynced
           \/ CoolantSynced \/ ProgramPause \/ ProgramEnd \/ OpReturns
MotionOps == \/ OpMove \/ McLine \/ JogWake \/ OpSoftLimit \/ SoftWait \/ SoftKill \/ SoftAlarm
             \/ SoftReturns \/ ProbeBegin \/ ProbeWait \/ ProbeEnd

Main == MainLoop \/ ExecRtSystem \/ PrepBuffer \/ ExecRtSuspend \/ LineOps \/ MotionOps
Next == Main \/ SerialIsr \/ LimitIsr \/ StepperIsr
Spec == Init /\ [][Next]_vars

\* The main program never waits for anything but flags, and a timer drives the stepper.
FairSpec == Spec /\ WF_vars(Main) /\ WF_vars(StepperIsr)

\* And a deceleration ends: the speed falls with every segment of it.
HoldSpec == FairSpec /\ SF_vars(PrepHoldEnds)

-----------------------------------------------------------------------------
\* Properties.

\* Nothing steps the motors while the firmware reports that no motion is in progress
\* (protocol.c: IDLE is entered only when the stepper interrupt has shut itself down).
StoppedWhenIdle == state \in {"IDLE", "CHECK"} => ~stepper

\* A hold is declared complete only when the motors have stopped: what de-energizes, parks or
\* resumes the machine relies on it (protocol.c:593).  A jog whose planner call a reset aborts
\* still starts its cycle (jog.c:40); it runs until main() re-initializes.
HoldCompleteStopped == ~abort /\ "HOLD_COMPLETE" \in suspend => ~stepper

\* A block whose steps are partly prepared stays at the head of the planner until the rest
\* is prepared: no hold, override or re-plan drops or repeats part of a cut (stepper.c:625).
PartialBlockKept ==
  /\ (left # 0) <=> (loaded \/ recalc)
  /\ left # 0 => queue # <<>>

\* Every queued block was planned for the torch state the parser is in, since each change of
\* it drains the planner first (spindle_control.c:284); a hold restores from either.  Check
\* mode, which $C enters with blocks still queued, changes the parser's state only.
BlocksCarryModalSpindle ==
  ~abort /\ state \notin {"CHECK", "ALARM"} => \A i \in 1..Len(queue) : queue[i] = gc_spindle

\* A cycle never runs with the segment generator locked by an earlier hold, unless that hold
\* is the cancellation of a probing motion (stepper.c:608).
CycleNotLocked ==
  state = "CYCLE" /\ "END_MOTION" \in step_control => "MOTION_CANCEL" \in suspend

\* During a dry run the torch is off, whatever the program, the overrides and the holds do
\* (spindle_control.c:228, protocol.c:527).
DryRunTorchOff == dry_run => ~spindle

\* With the door sequence parked the torch and the coolant are off until it is resumed
\* (protocol.c:607).
ParkedDeEnergized ==
  state = "DOOR" /\ "RETRACT_COMPLETE" \in suspend /\ "INITIATE_RESTORE" \notin suspend
    => ~spindle /\ ~coolant

\* Resuming from a door restores torch and coolant to what the program had set before the
\* cycle goes on (protocol.c:343); a reset that comes at that moment has switched them off.
DoorRestores ==
  [][state = "DOOR" /\ state' = "CYCLE" /\ "RESET" \notin flags
       => spindle' = gc_spindle /\ coolant' = gc_coolant]_vars

\* An alarm is left only by the unlock command, or for the sleep state, which wakes up as an
\* alarm again (protocol.c:57, system.c:158).  A G38 raises its alarm without stopping the
\* motors: once one has been begun, the end of a motion may lead out of an alarm too
\* (protocol.c:401), and nothing else.
AlarmLock ==
  [][state = "ALARM" /\ state' # "ALARM"
       => \/ pc = "op" /\ Head(todo) = "X"
          \/ state' = "SLEEP"
          \/ probed /\ pc = "rt.stop" /\ "CYCLE_STOP" \in rt]_vars

\* Once the main loop is back with an alarm, nothing moves, nothing is planned and no segment
\* is left to be stepped out after the unlock (main.c:110).
AlarmQuiet ==
  pc = "idle" /\ ~abort /\ state = "ALARM" /\ "RESET" \notin flags
    => ~stepper /\ queue = <<>> /\ segs = 0

\* A cancelled jog leaves nothing of it behind: the planner and the segment buffer are empty
\* and the motors stopped when the cancellation ends (protocol.c:388).
JogCancelFlushes ==
  [][("JOG_CANCEL" \in suspend /\ "JOG_CANCEL" \notin suspend') /\ pc # "boot"
       => queue' = <<>> /\ segs' = 0 /\ ~stepper' /\ ~loaded' /\ ~recalc']_vars

\* A feed hold is released only by the operator: the automatic cycle start that the main
\* loop, a synchronization or a full planner requests never resumes it (protocol.c:336).
\* For instances in which the operator does not send one.
HoldNeedsOperator ==
  [][state = "HOLD" /\ state' # "HOLD"
       => state' \in {"DOOR", "ALARM"} \/ pc = "begin" \/ soft_limit]_vars

\* A reset request is dropped in one place only: the probe interrupt, which writes back the
\* flags as they were before the reset came in (probe.c:64).  Otherwise it stays until the
\* re-initialization, or the soft limit alarm that asks for a new one (motion_control.c:369).
ResetNotDropped ==
  [][("RESET" \in flags /\ "RESET" \notin flags')
       => \/ pc = "boot"
          \/ pc = "rt.alarm" /\ alarm = "soft"
          \/ busy /\ ~busy' /\ "RESET" \notin rmw]_vars

\* Every reset is served: whatever loop the main program waits in, it leaves it, for the
\* re-initialization or for the soft limit alarm that asks for a reset of the user's own
\* (protocol.c:246, :227, :675).
ResetServed ==
  "RESET" \in flags ~> (pc = "begin" \/ (pc = "rt.soft" /\ "RESET" \notin flags))

\* Queued motion does not rest in idle: the automatic cycle start takes it up again, also
\* after the segment buffer ran empty too early (protocol.c:186). A synchronization, which asks
\* for it only once, is the exception (see SyncReturns).
MotionStarts == state = "IDLE" /\ queue # <<>> ~> state # "IDLE" \/ queue = <<>> \/ pc = "sync"

\* A probing cycle comes back, whether the probe makes contact or not and whatever requests
\* its interrupt overwrites, unless a hold stops it or a reset is among what is overwritten
\* (motion_control.c:300, probe.c:64): that one leaves it waiting in the alarm of a reset that
\* never comes.
ResetOverwritten == busy /\ "RESET" \in flags /\ "RESET" \notin rmw
ProbeReturns ==
  pc = "probe.wait" /\ alarm = "none" /\ state # "ALARM"
    ~> pc = "idle" \/ state = "HOLD" \/ ResetOverwritten

\* A feed hold completes: the machine comes to rest and waits for the operator, unless a reset
\* ends it or a soft limit takes over.
HoldEnds == state = "HOLD" ~> "HOLD_COMPLETE" \in suspend \/ state # "HOLD" \/ soft_limit

-----------------------------------------------------------------------------
\* Statements of the comments that the code does not keep.

\* protocol.c:257: a hold immediately "enters a suspend state to block all main program
\* processes", so no line lights the torch during one.
NoIgnitionInHold == [][~spindle /\ spindle' => state # "HOLD"]_vars

\* protocol.c:167: a synchronization blocks "until all buffered steps are executed", that is,
\* it returns when they are.
SyncReturns == pc = "sync" ~> pc = "synced"
=============================================================================
