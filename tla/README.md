# A TLA+ model of the CrossFire plasma firmware

The repository holds two programs. `grbl/` is a fork of Grbl 1.1 for the ATmega328P of the
Langmuir CrossFire plasma table: it reads G-code from a serial line, plans motion, steps the
motors from an interrupt, and switches the torch and the coolant. `thc-firmware/` is the torch
height controller (THC), which runs on an Arduino Nano of its own and moves the Z axis so that
the arc voltage stays at its nominal value. They share no memory: Grbl switches the torch, the
height controller sees the arc and the X and Y step pulses, and the host talks to both.

This directory models the control core of both programs, checks it with TLC and proves part of
it with TLAPS. Line numbers below are those of the sources in `src/`.

| file | what it is |
|------|------------|
| `RealtimeExec.tla` | Grbl: the main program against its interrupts |
| `MCRealtimeExec.tla`, `rt_*.cfg` | its instances for TLC |
| `RealtimeExec_proofs.tla`, `RealtimeMotion_proofs.tla`, `RealtimeHold_proofs.tla` | theorems about it |
| `Fifo.tla` | a bounded queue: what each serial buffer promises |
| `SerialRings.tla` | Grbl: the two serial buffers between main program and interrupts |
| `Overrides.tla` | Grbl: override values, their flags and the counters of the status report |
| `HostLink.tla` | the two composed with the main loop and a host |
| `MCHostLink.tla`, `serial.cfg` | its instance for TLC |
| `SerialRings_proofs.tla`, `HostLink_proofs.tla` | theorems about them |
| `GcodeBlock.tla` | Grbl: import, checks and targets of a line of G-code, as operators |
| `GcodeStore.tla` | Grbl: execution of the line, settings commands, EEPROM records, boot |
| `MCGcodeStore.tla`, `gcode_store.cfg` | its instance for TLC |
| `GcodeStore_proofs.tla` | theorems about it |
| `Planner.tla` | Grbl: the look-ahead planner and the profile of the block being executed |
| `MCPlanner.tla`, `plan_*.cfg` | its instances for TLC |
| `Planner_proofs.tla` | theorems about it |
| `ThcController.tla` | the torch height controller |
| `MCThcController.tla`, `thc_*.cfg` | its instances for TLC |
| `ThcController_proofs.tla` | theorems about it |
| `PROJECT.json` | components, runs, mutants, map to the source, findings, hazards, theorems |

The build that is modelled is the one `grbl/config.h` and `grbl/defaults.h` select:
`DEFAULTS_CROSSFIRE`, `HOMING_INIT_LOCK`, `CHECK_LIMITS_AT_INIT`, two startup lines, and none of
`VARIABLE_SPINDLE`, `PARKING_ENABLE`, `ENABLE_SAFETY_DOOR_INPUT_PIN`, `ENABLE_M7`,
`HARD_LIMIT_FORCE_STATE_CHECK`, `ENABLE_SOFTWARE_DEBOUNCE`, `FORCE_INITIALIZATION_ALARM`.

## 1. Inventory

### Grbl

**Real-time execution** (`main.c`, `protocol.c`, `system.c`). State: `sys` (state, abort,
suspend bits, step control, stop override), the request flags `sys_rt_exec_*`, the call stack of
the main program. Operations: the re-initialization loop, reading and dispatching lines,
`protocol_execute_realtime()`, which executes the requests (`protocol_exec_rt_system`) and then
stays inside `protocol_exec_rt_suspend` for as long as a suspend bit is set. The same functions
are called from every loop in the program that waits. Hard: requests are bits in volatile bytes
written by four interrupts and copied, tested and cleared at different times; three groups of
state variables (`sys.state`, `sys.suspend`, `sys.step_control`) must move together. Correct
when: no reset is lost, a hold is complete only when nothing moves, only the operator resumes
it, an alarm is left only by unlock, every wait loop can be left by a reset, and what a hold
switched off comes back exactly once.

**Interrupts.** Serial RX (`serial.c:143`) posts real-time characters, the control pins
(`system.c:63`) post the same requests, the limit pins (`limits.c:99`) post alarm and reset, the
stepper timer (`stepper.c:308`) consumes segments, posts `EXEC_CYCLE_STOP` when there is none
and watches the probe. The stepper handler executes `sei()` (`stepper.c:329`): the others may
interrupt it.

**Planner** (`planner.c`). A ring of blocks with a look-ahead over entry speeds. Correct when
blocks leave in order, no block is dropped while partly executed, and no planned speed exceeds
what the rest of the ring can stop from.

**Segment generator and stepper driver** (`stepper.c`). `st_prep_buffer()` cuts the first block
into segments; a hold, an override or a re-plan makes it drop and reload the block it works on.
Correct when every step of a block is executed once and the generator is not locked by a bit an
earlier hold left behind.

**Motion control, jogging, probing, limits** (`motion_control.c`, `jog.c`, `probe.c`,
`limits.c`). The blocking callers of the machinery: a full planner, a soft limit, a probe cycle,
homing. Correct when each of them returns, by success, alarm or abort.

**Torch and coolant** (`spindle_control.c`, `coolant_control.c`). Output pins, set when the
planner has drained, gated by check mode and by the dry run of this fork.

**Overrides** (`protocol.c:409-519`). State: feed, rapid, spindle and dwell percentages in 8 and
16 bits, three bytes of flags, two report counters. The interrupt posts flags; the main program
copies a byte, clears it and applies the copy in unsigned arithmetic. Correct when a value stays
within its limits, rises only when asked to, and is shown by the reports.

**Serial rings** (`serial.c`). State: two rings with head and tail indices, each moved by one
side, and the enable bit of the transmit interrupt. Hard: that bit, not a comparison of the
indices, keeps the interrupt from sending an empty ring. Correct when each is a bounded queue, no
character of a host that counts is dropped, and a write to a full ring ends.

**G-code parser** (`gcode.c`). State: `gc_state` (modal groups, position, coordinate system and
offsets). One line in: words are imported into a block, the block is checked and its targets are
computed, and only then is anything executed. Correct when the order of words does not matter, a
rejected line changes nothing, and the cached offset is the stored one.

**Settings store** (`settings.c`, `eeprom.c`). State: EEPROM records with a checksum, written
byte by byte. Read at boot, on selection of a coordinate system, by G10, G28, G30 and at program
end; a record that cannot be read is cleared and answered with an error. Hard: power losses
between two bytes, and requests served between a write and what follows it.

**Reports, printing, number parsing** (`report.c`, `print.c`, `nuts_bolts.c`). No state but the
report counters.

### Torch height controller

**State machine** (`thc_controller.cpp`). IDLE, ENABLED, TORCH_ON, ARC_OK, FROZEN, ERROR, with
time stamps for torch and arc, an override on top, status bits. Correct when the axis moves only
in a cut or by an override, a lost arc is given up in time, and what it reports is what it does.

**Voltage** (`voltage.cpp`), **anti-dive** (`anti_dive.cpp`), **motion** (`motion.cpp`): filter
and smart sample, speed history against the fastest interval seen, direction latch.

**Serial protocol and settings** (`protocol.cpp`, `settings.cpp`): single-letter commands;
EEPROM with magic and checksum.

Everything runs in one `loop()`; the hard part is order and time: which of two watches runs
first, what a time stamp survives, what a command leaves behind.

## 2. Plan

| order | module | what | status |
|---|---|---|---|
| 1 | `RealtimeExec` | main program, requests, hold/door/sleep/jog/probe/soft limit, torch and coolant, queue, segments, stepper | done |
| 2 | `RealtimeExec_proofs` | type correctness, partial blocks, dry run | done |
| | `RealtimeMotion_proofs`, `RealtimeHold_proofs` | when the motors stand still; what holds and doors keep and give back | done |
| 3 | `ThcController`, `ThcController_proofs` | the second processor | done |
| 4 | `Planner` | `planner_recalculate` against the profile of the executing block | done, proved (`Planner_proofs`) |
| 5 | `SerialRings`, `Fifo` | both rings with their interrupts, implementing a queue | done, proved |
| 6 | `Overrides`, `HostLink` | override values in their widths; the link of host, interrupts and main loop | done, proved (`HostLink_proofs`) |
| 7 | `GcodeBlock`, `GcodeStore` | the parser, and checksummed records under power loss between two bytes | done, proved |
| 8 | `Homing` | `limits_go_home` with the requests it serves itself | planned |
| 9 | `AbstractMachine` | what an operator may rely on (idle, moving, holding, held, alarm, with torch on or off), to be implemented by `RealtimeExec` | planned |

More theorems: every safety property of the passing runs is proved; what remains out of reach is
listed at the end of section 8.

## 3. RealtimeExec

One module, because its parts share all their state: the same flags decide what the main
program, the suspend loop and the segment generator do next. It reads in the order of the code:
building blocks, `main.c` and `protocol_main_loop()`, `protocol_exec_rt_system()`,
`st_prep_buffer()`, `protocol_exec_rt_suspend()`, the operations of a line, interrupts.

*Control.* The main program is a process with a program counter `pc`. A step is a stretch of
code between two points at which an interrupt could make a difference. `ret` is where
`protocol_execute_realtime()` returns to, `inner` the place in the suspend loop a nested call of
`protocol_exec_rt_system()` returns to, `rt` its local copy of the flags, `restore` the locals of
the suspend function, `todo` the operations left of the line.

*Requests.* `flags` is `sys_rt_exec_state`, `alarm` is `sys_rt_exec_alarm`; `motion_ovr`,
`acc_ovr` and `dry_req` say that an override was posted. An interrupt is one step, except the
stepper interrupt at the probe: it reads the flags (`ProbeRead`) and writes them back
(`ProbeWrite`), and the other interrupts may come in between, as after `sei()` they can. `probed`
is a history variable: a G38 has been begun since the last re-initialization. Properties use it to
say which sessions they are about, and no action reads it.

*Motion.* A planner block is the torch state it was planned with and is cut into `BlockSegs`
segments. `loaded` is `pl_block != NULL`, `recalc` the flag that it must be reloaded, `left` the
segments of it not yet prepared. Whether a new block makes the planner re-plan the one being
executed, and at which segment a deceleration ends, is left open (both outcomes are explored).

*Lines.* A line is the sequence of operations it leads to: `M3 M5 M8 M9 G1 G38 M0 M30`, `G1far`
for a target outside the soft limits, and `$X $C $SLP $J` (`X C SLP J`). Each of them contains
all of its calls: `M3` synchronizes, sets the output and updates the parser state, `G38`
synchronizes, checks the probe, plans, waits and cleans up.

*Left out.* Homing, arcs and dwells; settings and status reports, which have modules of their
own; the control pins, which post what the serial commands post; debugging builds.

## 4. Planner and ThcController

**Planner.** `RealtimeExec` knows of a block only that it is there; this module knows its speeds,
and reduces the rest of the machine to IDLE, CYCLE and HOLD. The ring is a sequence, `planned` the
place of `block_buffer_planned` in it, 0 when that lies outside. Speeds are squared and lengths
are `2 * acceleration * millimeters`, the numbers the code itself adds, so a block of length
`run` changes the speed by `run` at most. The passes of `planner_recalculate()` are recursive
functions (`ReversePass`, `ForwardPass`); `BufferLine` and `Override` re-plan, under the
executing block if the pass reaches it (`Update`, `Unload`). `Load` makes the profile, `Execute`
and `Brake` travel any part of it, so segments of every length are covered. A profile is kept as
its exit speed, since the rest follows from the present speed and the length that is left.
An infeasible plan is executed as the code does it, with a jump at the end of the block, except
that a cruise ending before it began (`stepper.c:840`) is not followed into negative time. Left
out: geometry of lines and junctions (a junction speed is an input), system motions, rapid
overrides, which act as feed overrides do.

**ThcController.**

`loop()` is one thread, so the model has no interleaving inside a pass: `BeginPass` (time
passes, `voltage.update()`), `UpdateSpeed` (`antiDive.update()`), one handler action per state
and outcome (`thc.update()`), one command (`handleCommand`). The environment chooses the length
of a pass, the voltage, the step pulses and the command. A time stamp is kept as its age up to
the limit it is compared with; the code computes nothing else from one. `dark` is a history
variable: the time during which every reading was below the threshold in a cut.

*Left out.* The commands that change tolerance, cutoff, sample size and delays (they are
constants of the model), saving, the text protocol, step pulse timing, and the wrap of
`millis()`; a time stamp of exactly 0, which the code reads as "not lost" (`:128`), delays the
error by one pass once in 49 days.

## 5. The serial link: Fifo, SerialRings, Overrides, HostLink

**SerialRings** has the two rings with the indices of the code and `RX_BUFFER_SIZE + 1` and
`TX_BUFFER_SIZE + 1` slots. The receive interrupt is one step (`RxStore`), as are `serial_read()`
and the flush. A write waits for room, which a reset ends (`WriteAbandon`); it stores the byte and
publishes the head (`WriteStore`), and then enables the interrupt (`WriteEnable`). The transmit
interrupt (`UdreIsr`) may come in between: a pending interrupt is served before the main program
goes on. `uart` is the data register and the shift register. One assumption is about time:
between the store and the enable, a few instructions, at most one byte leaves the UART (`gap`).
`RingsAreQueues` says that each ring implements `Fifo`: the queue is what lies between
tail and head (`Content`), the instances `Rx` and `Tx` put it in the place of `Fifo`'s `q`.

**Overrides** has the values, their flags and the two counters. Arithmetic is modulo the width of
the type (`Width`), limits are applied afterwards. `reported` is a history variable: the values
the last report showed.

**HostLink** extends both by the main loop (`ReadChar` to `OverridesDone`, boot in three steps) and
by the host, which is not part of the repository and is modelled from what `config.h:469` says of
it: it begins a line when the buffer has room for all of it. A line is its length; the host keeps
for each line that is not answered where it ends, counted from the first character that is not
answered (`inflight`), and an answer moves the count up to the end of the oldest line (`Answered`).
In a behaviour the host plays one `role`: it streams, types without counting, or turns overrides.
The parts of the firmware that serve these share no variable but the program counter, and resets
come in all of them. The rings of `HostLink` are those of `SerialRings`, operated by the actions of
that module; `LinkRefines` proves that every step of the link is a step of `SerialRings`.

*Left out.* XON/XOFF (not enabled), echo, comments and the length limit of a line, what a line
does (section 6).

## 6. G-code and stored data: GcodeBlock, GcodeStore

**GcodeBlock** is steps 1 to 3 of `gc_execute_line()`: operators, no state. A line is a sequence
of words, a word a command or a letter with a small integer; `Import` folds `ImportWord` over it,
with the modal groups as a table. `Verdict` says what becomes of the block: it is good, an
error, or fails to read a record, in the order in which the code finds out. Inches are
`MM_PER_INCH` (2) units, so that a conversion left out shows.

**GcodeStore** is step 4, one action per stage between which something can come in (`SetModes`,
`SelectCoord`, `NonModal`, `ApplyData`, `Motion`, `ProgramFlow`, `EndLine`), the `$` commands that
change state, the records, and boot. A record is a value and whether its checksum agrees; a
write is a state (`pc = "write"`) in which reports, resets and a power loss may come. `Torn` says
what a power loss leaves: a record that does not agree, or, because of the checksum
(divergence 20), any mixture of old and new that does. `stale` is a history variable: the offset
differs from the one last reported. A motion takes no time; a reset in one is `OperatorReset`
with an alarm.

*Left out.* Number syntax, laser mode, `S`, `T`, `N` beyond their checks, M56, the path of an arc,
homing, the second startup line, settings that are plain numbers, the build info.

## 7. What TLC checks

Bounds are given as constants in each `.cfg`. `MaxQueue`, `BlockSegs` and `SegCap` of 2 (16, any
number and 6 in the code) give a full planner, a block that is partly prepared, a full segment
buffer and a second block behind it; no property distinguishes more. The number of lines and
requests is not bounded: they come for ever. A ring of 4 blocks lets the planned pointer lie at
the head, in the middle and at the tail; the lines combine fast and slow, long and short, tight
and open corners, so that each of the limits binds somewhere.

| run | question | bounds, states |
|---|---|---|
| `rt_cut` | Torch lines, moves and check mode under hold, start, reset and the dry run switch at every point: are planner, segments, steppers and reported state consistent (`StoppedWhenIdle`, `HoldCompleteStopped`, `PartialBlockKept`, `BlocksCarryModalSpindle`, `CycleNotLocked`), is a dry run dry (`DryRunTorchOff`)? | 2 blocks of 2 segments; 1.5 million |
| `rt_door` | Does the safety door de-energize (`ParkedDeEnergized`) and restore (`DoorRestores`), does a cancelled jog leave nothing (`JogCancelFlushes`), also when resets come in between? | 1 block of 2 segments, a segment buffer of 1, with resets; 4.7 million |
| `rt_alarm` | Hard and soft limits, resets, holds, feed and spindle stop overrides, sleep, check mode, startup script: is the alarm lock kept (`AlarmLock`, `AlarmQuiet`), is each reset served (`ResetServed`), does nothing resume a hold without the operator (`HoldNeedsOperator`) and does each hold end (`HoldEnds`)? | 1 block, 1 segment; 485 000, liveness |
| `rt_motion` | Probe cycles and moves under reset, hold and a coolant toggle, also between the two halves of the probe interrupt: does queued motion start (`MotionStarts`), does a probe cycle come back (`ProbeReturns`), is no reset dropped elsewhere (`ResetNotDropped`) and no alarm left otherwise (`AlarmLock`)? | 2 blocks, 1 segment; 595 000, liveness |
| `rt_hold_torch` | violated: `NoIgnitionInHold` (divergence 1) | as `rt_cut`, hold only |
| `rt_sync_stalls` | violated: `SyncReturns` (divergence 2) | no requests at all |
| `plan_stream` | Lines, holds, resumes and raised overrides re-plan the ring: can the machine always brake (`PlanFeasible`), does the incremental plan equal a full one (`PlanOptimal`), is the pointer in the ring (`PlannedValid`), does the speed never jump (`SpeedContinuous`)? | 4 blocks, 8 kinds of line; 961 000 |
| `plan_slower` | violated: `PlanFeasible` (divergence 15) | 3 blocks, 3 kinds of line |
| `serial` | Are the rings queues (`RingsAreQueues`, `TransmitSafe`), is nothing a counting host sends dropped (`NothingDropped`) and each line answered once across resets (`AnsweredOnce`), do reports show the overrides (`OverridesReported`), does one rise only when asked (`RaisedOnlyWhenAsked`), does every write end (`WriteEnds`)? | rings of 2 bytes, lines of 1 and 2; 983 000, liveness |
| `gcode_store` | Does the parser work with the stored offsets (`CoordSystemCurrent`), are changed offsets reported (`OffsetsReported`), is a line executed whole or not at all (`ExecutesWhole`), whatever the order of its words (`OrderIndependent`), through restores, resets and power losses? | 11 lines, numbers -1 to 1, 3 records, 1 startup line; 3 million |
| `thc_cut` | Moves only under control, errors consistent, lost arcs caught, status truthful | delays 1, pass of 0 or 1, histories of 2, voltages dark, between the thresholds, arc; 2 million |
| `thc_frozen` | violated: `FrozenHolds` (divergence 13) | as `thc_cut` |

`rt_alarm` and `rt_motion` leave cycle start out on purpose: `HoldNeedsOperator` says that nothing
*else* resumes. `MotionStarts` counts a synchronization as started, because the stall of divergence
2 is one. `ProbeReturns` lets a hold stand in the way, which only the operator ends, and a reset
that the probe interrupt has overwritten (divergence 9). `ResetNotDropped` and `AlarmLock` name the
two places in which a probe cycle is known to break them (divergences 9 and 10) and allow nothing
else; both are checked in a run that reaches these places. A jog after a probe cycle is in no run:
what goes wrong with it is known (divergence 8). The voltages of `thc_cut` lie on both sides of
every threshold; the delay of 1 and passes of 1 give the case in which the limit is passed in the
middle of a thaw.

Rings of 2 bytes wrap, run full and run empty, and a line of 2 fills the receive buffer exactly; the
code has 128 and 104 bytes. The override limits of `serial` are those of `config.h` scaled down: a
default of 3 between 2 and 4, steps of 2 and 1, in a width of 16 that wraps; the theorems and the
other properties do not depend on them. `WcoRefresh = 2` has the offset due in every second report,
the least the code allows. In `gcode_store` no line turns soft limits on (`$20=1`) or stores G30:
those branches are modelled, and are in the proofs, but with them the instance is too large.

*Fairness.* `WF(Main)`: the main program has no instruction that waits for anything but a flag, and
interrupts end. `WF(StepperIsr)`: a timer. `SF(PrepHoldEnds)`, in `HoldSpec` only: every segment of
a deceleration lowers the speed (`stepper.c:843`), so it ends, although re-planning may start the
generator over. `LinkSpec` has `WF(Main)` for the same reason, and `WF(Uart)`: the transmit
interrupt is served and the UART shifts its byte out. Nothing is assumed of the operator, the host
or the limits. Safety runs use no fairness. Deadlock is checked in all runs.

Each property of a passing run has a mutant: a definition of the model changed as a plausible bug
would change the code, kept beside the original and marked `mutant`, under which TLC finds the
property violated.

## 8. What is proved

For every set of commands, lines, scripts and buffer sizes (`ConstantAssumption`):

- `TypeCorrect == Spec => []TypeOK` (RealtimeExec). `TypeOK` is not inductive: the actions of an
  operation take the head of `todo`, so a line must be left while one is in progress
  (`LineInv`), also inside the calls it makes; and a segment may be prepared only while the
  block it belongs to is in the planner (`PrepInv`). `IInv` is their conjunction. The proof has
  one lemma per part of the code and one step per action.
- `PartialBlockTheorem == Spec => []PartialBlockKept`: a part of `IInv`. No order of holds,
  overrides, resets and re-plans drops the rest of a block or repeats it.
- `DryRunTheorem == Spec => []DryRunTorchOff`: inductive relative to `IInv`.

From one invariant, `MotionInv`, for the same constants (`RealtimeMotion_proofs`):

- `StoppedTheorem`, `HoldCompleteTheorem` and `AlarmQuietTheorem`, each `Spec => [](probed \/ P)`: in
  every session, until its first G38. The motors stop by themselves,
  in an interrupt that posts CYCLE_STOP, and the main program learns of it when it next looks at its
  flags, or from the copy it took of them. So the invariant is about `Running`: the motors turn, or a
  CYCLE_STOP is still to be taken account of. `StopInv` confines `Running` to the states of motion
  without a completed hold, except on the way to the re-initialization (`Dying`: an alarm has been
  raised in the real-time check that will see the reset next, or `sys.abort` is set). Each action
  that leaves a state of motion is then seen to be the one that takes CYCLE_STOP or to be `Dying`.
  The rest are the facts this needs: `ResetInv` (an abort or an alarm has its reset request still
  posted), `SuspendInv` (outside of a real-time check nothing is suspended), `SleepInv` (a sleep
  request is taken before the state can change), `LineForm` (a `$` line is one operation, so
  nothing follows it), `CalmInv` (an alarm that has been served has nothing queued and no line in
  progress but a `$` command), and `RestInv`, for what is left between an abort and the boot.
- After a G38, `MotionInv` may be false: divergence 26 says how. `SessionInv` says that it holds
  unless `probed`, and that what does not depend on the motors (`CtlInv`) holds always. `BootMotion`
  is the step that makes this inductive: the re-initialization clears `probed`, and it restores all of
  `MotionInv` from `CtlInv`, whatever the G38 left.
- `AlarmLockTheorem == Spec => AlarmLock` and `ResetTheorem == Spec => ResetNotDropped`, for every
  program, probing or not. What they need of the control flow is in `CtlInv`; the rest is in
  `MotionInv`, and for a session with a G38 the properties themselves name what may then happen.
- `JogCancelTheorem`, for programs without a probing cycle (`NoProbing`: no line and no startup
  line has a G38): a jog may be cancelled after one.
- `CycleNotLockedTheorem`, for programs that probe as well: it has an invariant of its own.

On top of them (`RealtimeHold_proofs`):

- `BlocksTheorem == Spec => [](probed \/ BlocksCarryModalSpindle)`. Between the end of a
  synchronization and the change of the parser's torch state (`pc = "synced"`) the planner is empty.
- `ParkTheorem`, likewise for `ParkedDeEnergized`. `ParkInv` follows the outputs through the order
  in which the suspend loop switches them off and on, with a spindle stop override in any stage.
- `HoldNeedsOperatorTheorem`, with `NoProbing`, when the operator has no cycle start: `OnlyAuto`
  says that a request the firmware posts itself is taken by the next real-time check, and meets a
  completed hold only when that check has just made one, for a request that blocks the start.
- `DoorRestoresTheorem` (`DoorRestores`), with `NoProbing`, for operators that send no feed hold,
  flood toggle or dry run switch (`Steady`): each of these changes what is restored (divergence 10),
  and a hold during the restore also undoes its end (divergence 29). `DoorInv` gives the order of
  the suspend bits of a door, `ResumeInv` says that once the restore is complete the start it posted
  is the next thing that happens to the machine, `RestoreInv` what is on at each step of it. A door
  opened again, a jog cancel, a spindle speed change, a cycle start or a reset may come at any
  point.

For every delay, voltage, history and pass time (ThcController):

- `TypeCorrect`, `ControlTheorem`, `ErrorTheorem`, `TargetTheorem`: each property is inductive
  with `TypeOK`.
- `LossTheorem == Spec => []LossCaught`: an arc that stays out is given up within
  `LOST_ARC_DELAY` and two passes. `WatchInv` says by how much the real time in the dark can be
  ahead of the time stamp: at most one pass, because the loss is noticed by the handler that
  follows the reading; and one pass more when the controller thaws, because that handler skips
  the watch. It distinguishes the state before and after the handler of a pass, and FROZEN from
  ARC_OK: two thaws cannot follow each other without an ARC_OK handler, which watches.

For every size of the rings (`SerialRings`, up to the 254 bytes an index of 8 bits can address):

- `TransmitTheorem == Spec => []TransmitSafe`. The invariant says that between the store and the
  enable of a write there is a byte in the ring, and an interrupt that is still enabled there
  finds more than one, or finds the UART full until the one byte has left that `gap` allows;
  elsewhere the interrupt is enabled exactly when there is a byte to send.
- `QueueTheorem == Spec => RingsAreQueues`: a refinement. The lemmas on `Content` say what a
  store and a read do to the sequence between tail and head, whether or not the indices wrap;
  `RxRefines` and `TxRefines` map each action to a step of `Fifo` or a stutter.
- `LinkTransmitTheorem`, `LinkQueueTheorem`: `HostLink` uses the rings as `SerialRings` says, so
  both hold of the link with any host.

For every host, every size of the rings, all line lengths that fit and all limits (`HostLink`):

- `ReportedTheorem` (`OverridesReported`): inductive as it stands. `OverridesSteps` says that the
  link touches the overrides in five ways only.
- `RangeTheorem == LinkSpec => []OverridesInRange` and `RaisedTheorem` (`RaisedOnlyWhenAsked`), from
  lemmas on `Value`, the sum of a batch in unsigned arithmetic. The case in which it wraps is the
  one the property names.
- `DroppedTheorem` and `AnsweredTheorem` (`NothingDropped`, `AnsweredOnce`).
  `Account` relates what the host knows to what the firmware has: of the lines that end at `f[1]`,
  `f[2]` and so on, the first `g` have been taken by the main program; the ends of line in the
  receive ring are those of the rest, each at the place the host has counted, and what the line being
  sent still needs has room. `g` is the line in progress and the answers on their way (`Transit`).
  A reset makes the account void. `Phase` follows it through the boot: either the reset is still to
  be carried out and no welcome message is on its way, or one is, with no answer behind it and
  nothing in the receive ring, so that no answer to an old line can be taken for one to a new
  line. The lemmas say what a store, a read, a line taken and an answer do to the account.

For every set of lines, startup lines, commands and records, and every bound (`GcodeStore`):

- `CoordTheorem`, `OffsetsTheorem` and `WholeTheorem` from one invariant, `StoreInv`. Between two
  stages of a line the parser is neither before nor after it, so the invariant says at each place of
  the main program what holds: a selected system has been read and is still stored as it was read
  (`Selects`); a record that is being written is not the active one, or its new value is about to be
  taken over (`Tracks`); `G54` can be read from boot on (`Readable`), which is why the late read of
  a program end cannot fail; a changed offset is flagged or waits in `sync` (`Flagged`). Check mode
  and a pending reset are excepted, because a boot follows them.
- `OrderTheorem` (`OrderIndependent`), for lines of any length and every modal state. `Import` is a
  fold, which the community modules define by choosing a function that satisfies a recursion, and
  the induction theorems of the library cannot be instantiated. So the lemmas show, with a smallest
  counterexample (`Upward`), that such a function exists (`FoldingExists`) and that it is the import
  of one word after the other (`ImportIs`). `Sum` says what a block is after the words of a set of
  places without saying in which order they came: it is good if no word is `Bad` and no two `Clash`,
  and then it says what each of them says (`Kept`). One more word keeps it true (`SumStep`): a word
  that changes what another one said belongs to the same group, claims the axis words too or repeats
  a letter, so it clashes. Two good blocks with the same `Sum` are equal (`OrdersAgree`). `LineInv`
  is the invariant: what is executed and what a power loss, a restore or a failed read leaves of the
  startup line are sequences of words. `LineAssumption` says that of the lines that arrive.

For every set of lines, every size of the ring and all overrides (`Planner`):

- `TypeTheorem` and `PlannedTheorem` hold whatever the operator does. `FeasibleTheorem`,
  `OptimalTheorem` and `ContinuousTheorem` (`PlanFeasible`, `PlanOptimal`, `SpeedContinuous`) assume
  `~Slower`, that overrides are only raised; without it the first is false (run `plan_slower`,
  divergence 15).
- The passes are recursive functions over the ring. The induction theorems of the library take a
  predicate as a parameter, which the provers cannot instantiate; `Least`, `Upward` and `Downward`
  say the same of sets of numbers. With them `RecursionUp` and `RecursionDown` show that a function
  with such a recursion exists, hence that `ReversePass`, `ForwardPass`, `Braking` and `FullPlan`
  obey their own definitions and are numbers at every place.
- `Braking(q)[k]` is the fastest entry into block `k` from which one can brake to rest at the end of
  the ring. A plan is *optimal* when each entry is the smaller of that and what the block before can
  accelerate to. The pass of the code starts at `block_buffer_planned` and skips blocks that enter
  at their maximum; it finds the same because the pointer is *anchored*: the block it stands at
  enters at its maximum, or below its `Braking`, so nothing that is queued later can raise it
  (`BrakingGrows`), and what lies before it stays optimal. A skipped block can brake in time because
  its maximum could only rise, which is where a lowered override breaks the argument.
- `PlanInv` is the invariant: the limits of all blocks are those of the present override
  (`Limited`), the entries are within them, feasible and, unless a hold is braking, optimal with an
  anchored pointer (`Ring`); the speed of the machine and the exit speed of the profile agree with
  the first two blocks (`SpeedInv`); no profile decelerates for an override (`~decel`). TLC checked
  it before it was proved. Its preservation has one lemma per action.
- `SpeedContinuous` then follows step by step: `Execute` and `Brake` change the speed by no more
  than the distance they travel, and every other action leaves it alone.

Only model-checked, and why:

- All liveness properties (`ResetServed`, `HoldEnds`, `MotionStarts`, `ProbeReturns`, `WriteEnds`):
  they need ENABLED.
- Nothing is proved of a session after its first G38, except type correctness, `PartialBlockKept`,
  `DryRunTorchOff`, `CycleNotLocked`, `AlarmLock` and `ResetNotDropped`. `rt_motion` checks
  `AlarmLock`, `ResetNotDropped`, `MotionStarts` and `ProbeReturns` there, and no other property.

Stating the theorems made three properties more exact. `HoldCompleteStopped` and
`BlocksCarryModalSpindle` hold from a re-initialization to the next abort (`~abort`): a jog whose
planner call a reset aborts still starts (divergence 27). `DoorRestores` excepts a pending reset: it
has switched the torch off for good. `ConstantAssumption` asks that a line is one `$` command or a
sequence of G-code operations that is not empty, as `protocol.c:93-105` has it.

## 9. Where code and comments disagree

Divergences 1, 2, 13 and 15 have a run of their own. The others were reproduced with TLC while
writing the model (the instance is named) or read in the code (marked *read*); no property claims
the opposite.

1. A feed hold in CYCLE sets no suspend bit (`protocol.c:291`), so lines are still executed while
   it decelerates, and `M3` may light the torch. `protocol.c:257` says a hold "immediately enters
   a suspend state to block all main program processes". Run `rt_hold_torch`.
2. `protocol_buffer_synchronize()` requests the cycle start once (`protocol.c:172`); consumed
   while the previous cycle is ending, it is lost and the wait never ends (`:167` "Block until
   all buffered steps are executed"). Run `rt_sync_stalls`.
3. A reset in motion that comes between the alarm check (`protocol.c:218`) and the copy of the
   flags (`:242`) re-initializes into IDLE without the alarm lock; `motion_control.c:366` says
   position lost means alarm. Instance: `rt_alarm` with `CutLines`.
4. `spindle_set_state()` checks `sys.abort` (`spindle_control.c:227`), which is set only later: the
   torch may be lit after the reset interrupt stopped it (`motion_control.c:375`), until the
   next real-time check. Instance: `rt_cut`, torch on while RESET is posted.
5. A reset between `sys.state = CYCLE` (`protocol.c:358`) and `st_wake_up()` (`:361`) is undone by it
   until the re-initialization.
6. A jog cancel accepted by the interrupt in JOG and executed in IDLE suspends an idle machine
   (`protocol.c:281-284`). Instance: `rt_door`.
7. `$C` is accepted with motion queued and toggles the state only (`system.c:146-152`).
8. After a probe cycle `step_control` keeps END_MOTION: a jog that follows is planned, enters
   JOG and prepares no segment (`jog.c:44`). Instance: `rt_motion` with a jog line.
9. The probe interrupt writes the flags back from a copy made before `sei()` lets others in
   (`probe.c:64`): a reset posted meanwhile is lost. `ResetNotDropped` excepts that
   write by name; without the exception the run `rt_motion` finds it.
10. A CYCLE_STOP serviced after a probe alarm overwrites ALARM with IDLE (`protocol.c:401`).
    `AlarmLock` excepts that step in a session with a G38; without the exception the run `rt_motion`
    finds it. A feed hold during the restore after a door leaves the torch off (`protocol.c:288`,
    `:343`), and so does a dry run switched off in it: the cut goes on without a torch.
11. THC: a pass that thaws does not look at the voltage, so a loss is timed across it although
    the voltage recovered in between (`thc_controller.cpp:152`; `config.h:134` "Time below
    threshold before error").
12. THC: smart mode switched on in mid-cut finds the complete sample of an earlier cut and
    captures it (`thc_controller.cpp:119`); and a sample may average dark readings.
13. THC: FROZEN keeps the direction of the last correction, and the axis goes on moving;
    `thc_controller.cpp:149` says "don't adjust height". Run `thc_frozen`.
14. *Read.* THC: an override sets the ARC_OK status bit without an arc (`:208`); TORCH_ON has no
    time-out although `ERROR_TIMEOUT` exists; the test for "no pulses" in `anti_dive.cpp:114`
    is never true, since the maximum starts at 1000.
15. The reverse pass skips a block that enters at its maximum (`planner.c:158`). After the feed
    override is lowered, the block behind it may have become slower and the skipped one cannot
    brake in time, although `planner.c:75` says "a block entry speed cannot exceed one
    reverse-computed from its exit speed". Run `plan_slower`.
16. `planner.c:109` says the planned pointer "can never be less than block_buffer_tail". An
    override in an empty ring lets the passes run over old blocks and leaves it anywhere
    (`planner.c:514`); the next line brings it back, as its maximum entry speed is 0.
    `PlannedValid` therefore asks for a ring that is not empty.
17. A feed or spindle override of 10 % lowered by a coarse and a fine step in one batch becomes
    200 % (`protocol.c:416-420`: 10 - 10 - 1 is 255 in 8 bits, limited to 200); `config.h:250`
    calls the values "the max and min allowable". `RaisedOnlyWhenAsked` excepts that case by name;
    without the exception the run `serial` finds it.
18. A command posted between the copy and the clearing of override flags is lost
    (`protocol.c:409-411`), as is a `?` that arrives while a report is written (`:250-252`).
19. `config.h:296` says that a change is in "the next status report, regardless of what the count
    is"; when the offset is due the overrides wait for the report after it (`report.c:597`).
    `OverridesReported` allows that one. *Read:* the accessory field is not refreshed by
    `spindle_stop()`.
20. The checksum of a record is rotated with `||` for `|` (`eeprom.c:133`), so that it is 0 or 1
    plus the next byte: it depends on little more than the last byte, and a torn record may be
    accepted. `CoordSystemCurrent` holds of what was accepted.
21. A program end in check mode selects G54 without its offset (`gcode.c:1119`, `:1138`). Instance:
    `gcode_store` with `CoordSystemCurrent` in check mode.
22. *Read.* The index of `$N` is not compared with the number of startup lines (`system.c:262`);
    `settings_restore()` clears two bytes of a startup line and not its checksum
    (`settings.c:118-126`), so that the next boot may report a read failure and clear it again.
23. *Read.* `H0` turns the height control on and `H1` off (`gcode.c:307-308`); `gcode.h:118-119`
    says the opposite.
24. *Read.* An `F` given in inches with the G94 that ends G93 is not converted (`gcode.c:421-429`).
25. *Read.* `serial_get_rx_buffer_count()` computes with the size of the buffer and not of the ring
    when the indices wrap (`serial.c:51`); nothing calls it.
26. A G38 whose synchronization returns while a feed hold still decelerates (divergence 1) finds
    the probe in its initial state and raises the alarm (`motion_control.c:277`) with the motors
    running; `$X` then leads to IDLE before they have stopped, and CYCLE_STOP in ALARM to IDLE
    without `$X`. Instance: `rt_door` with hold, `G1`, `G38` and `X` as lines and `StoppedWhenIdle`.
27. A jog that is blocked in `mc_line()` by a full planner when a reset comes goes on after it: it
    finds IDLE and a block, enters JOG and starts the motors (`jog.c:40-44`). The re-initialization
    that follows stops them. Instance: `rt_door` with `HoldCompleteStopped` without `~abort`.
28. `$C` with a block that is queued and not started leads to CHECK with a planner that is not empty
    (`system.c:146-152`): `M0` and `M30` then wait for it until a reset, and `M3` changes the torch
    state of the parser under it.
29. A feed hold between the end of the restore after a door and the cycle start it posts
    (`protocol.c:757-758`) blocks that start, and the suspend loop restores again with
    RESTORE_COMPLETE set; a cycle start sent during its delay resumes the machine
    while it is still waiting for the torch. Instance: `rt_door` with hold.
30. A `$J=` line with an F word and no axis word is accepted and moves to machine zero: the target
    is computed only when there are axis words (`gcode.c:591`), and the jog uses it all the same
    (`gcode.c:870-871`, `jog.c:40`). `gcode.c:861` says "axis word checks have already been performed
    in STEP 3". Modelled in `GcodeBlock.RawTarget`; `gcode_store` has such a line.

## 10. Not modelled

- Output formatting (`report.c`, `print.c`) and number parsing (`nuts_bolts.c`) have no state but
  the report counters, which are in Overrides and GcodeStore.
- Bresenham stepping, AMASS and the timing of segments are numeric; what depends on them (when a
  deceleration ends, how many segments a block has) is a nondeterministic choice or a constant
  in RealtimeExec. The path of an arc (`mc_arc`) is floating point geometry; its error checks are in
  GcodeBlock.
- Homing (`limits_go_home`) runs the stepper and the segment generator by itself, outside the loop
  that RealtimeExec describes; it is planned as a module of its own. Its place in the rest, the
  alarm lock of a machine that has to be homed, is in GcodeStore.
- Parking, laser mode, the safety door pin and M7 are not in the build that is modelled.
- The text protocol of the height controller and its EEPROM (`thc-firmware/protocol.cpp`,
  `settings.cpp`): what the commands do is in ThcController, how they are spelled and saved is not.
- Vendored and generated code, the Arduino core and the AVR hardware, except for what
  SerialRings says of the UART and GcodeStore of the EEPROM.
