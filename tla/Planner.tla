------------------------------- MODULE Planner -------------------------------
(***************************************************************************)
(* The look-ahead planner (planner.c) together with what it feeds: the     *)
(* velocity profile that st_prep_buffer() makes of its first block.        *)
(*                                                                         *)
(* The planner gives every queued block an entry speed; the segment        *)
(* generator drives the first block from its entry speed to the entry      *)
(* speed of the second.  Both run in the main program; while a block is    *)
(* being executed new blocks, feed holds and feed overrides make the       *)
(* planner change the plan under it.                                       *)
(*                                                                         *)
(* Speeds are squared and distances are 2 * acceleration * millimeters,    *)
(* as the code uses them, so that a block of length run can change the     *)
(* speed by run at most.  The ring buffer is a sequence; planned is the    *)
(* place of block_buffer_planned in it, and 0 when that lies outside.      *)
(* What RealtimeExec models (requests, suspends, the segment buffer) is    *)
(* reduced to three states.                                                *)
(***************************************************************************)
EXTENDS Integers, Sequences, FiniteSetsExt

CONSTANTS
  Lines,          \* the moves the program may queue: rate, junction speed (squared), length
  MaxBlocks,      \* BLOCK_BUFFER_SIZE - 1
  RapidRate,      \* the fastest rate of every block
  Overrides,      \* feed overrides, as factors
  Slower          \* the operator may lower the feed override

Moves == [rate : Nat \ {0}, junction : Nat, run : Nat \ {0}]
ASSUME ConstantAssumption ==
  /\ Lines \subseteq Moves /\ MaxBlocks \in Nat \ {0} /\ RapidRate \in Nat \ {0}
  /\ Overrides \subseteq Nat \ {0} /\ 1 \in Overrides /\ Slower \in BOOLEAN

VARIABLES
  queue, planned, prevNominal,     \* blocks, block_buffer_planned, pl.previous_nominal_speed
  f_override,
  state, control,                  \* sys.state, sys.step_control
  loaded, recalc, decel,           \* pl_block # NULL, PREP_FLAG_RECALCULATE, _DECEL_OVERRIDE
  speed, exit                      \* prep.current_speed, prep.exit_speed (squared)

prepVars == <<loaded, recalc, decel, speed, exit>>
planVars == <<queue, planned, prevNominal>>
vars == <<planVars, prepVars, f_override, state, control>>

Block == [rate : Nat, junction : Nat, run : Nat, entry : Nat, max : Nat]
\* Types, and a profile exists only of a block in the ring (planner.c:232).
TypeOK ==
  /\ queue \in Seq(Block) /\ Len(queue) <= MaxBlocks
  /\ planned \in 0..MaxBlocks /\ prevNominal \in 0..RapidRate /\ f_override \in Overrides
  /\ state \in {"IDLE", "CYCLE", "HOLD"} /\ control \subseteq {"EXECUTE_HOLD", "END_MOTION"}
  /\ loaded \in BOOLEAN /\ recalc \in BOOLEAN /\ decel \in BOOLEAN
  /\ (loaded \/ recalc => queue # <<>>)
  /\ speed \in Nat /\ exit \in Nat

Min2(a, b) == IF a < b THEN a ELSE b
Max2(a, b) == IF a > b THEN a ELSE b

-----------------------------------------------------------------------------
\* planner_recalculate() of the blocks q beyond the place p.

\* Entry speeds from the last block, which ends at rest, back to p; a block that already
\* enters at its maximum is left alone.
LastEntryUnbounded(b) == b.max                                 \* mutant
LastEntry(b) == Min2(b.max, b.run)
ReversePass(q, p) ==
  LET r[k \in p+1 .. Len(q)] ==
        IF k = Len(q) THEN LastEntry(q[k])
        ELSE IF q[k].entry = q[k].max THEN q[k].max
        ELSE Min2(q[k].max, r[k+1] + q[k].run)
  IN r

\* Entry speeds lowered to what can be reached from p on.
Accelerates(f, r, q, k) == f[k-1] + q[k-1].run < r[k]
ForwardPass(q, p) ==
  LET r == ReversePass(q, p)
      f[k \in p .. Len(q)] ==
        IF k = p THEN IF p = 0 THEN 0 ELSE q[p].entry
        ELSE IF k > 1 /\ Accelerates(f, r, q, k) THEN f[k-1] + q[k-1].run ELSE r[k]
  IN f

\* The last block that is reached at full acceleration or entered at its maximum speed.
BreaksOnAnyAcceleration(q, p) ==                          \* mutant
  LET f == ForwardPass(q, p)
  IN {p} \cup {k \in p+1 .. Len(q) : (k > 1 /\ f[k-1] < f[k]) \/ f[k] = q[k].max}
Breaks(q, p) ==
  LET f == ForwardPass(q, p)
      r == ReversePass(q, p)
  IN {p} \cup {k \in p+1 .. Len(q) : (k > 1 /\ Accelerates(f, r, q, k)) \/ f[k] = q[k].max}

\* The blocks q with the entry speeds of a plan that starts at the place p.
Planned(q, p) ==
  LET f == ForwardPass(q, p)
  IN [k \in 1..Len(q) |-> IF k > p THEN [q[k] EXCEPT !.entry = f[k]] ELSE q[k]]

\* st_update_plan_block_parameters() for the executing block of q.
UpdateKeepsEntry(q) == q                                  \* mutant
Update(q) == IF loaded THEN [q EXCEPT ![1].entry = speed] ELSE q
Unload == loaded' = FALSE /\ recalc' = (recalc \/ loaded) /\ UNCHANGED <<decel, speed, exit>>

\* The recalculation: nothing with one block; the executing block is updated when reached.
\* On an empty ring it walks over old blocks and may leave the pointer anywhere.
Recalculate(q, p) ==
  CASE q = <<>> -> queue' = q /\ planned' \in {0, 1} /\ UNCHANGED <<loaded, recalc, decel, speed, exit>>
    [] q # <<>> /\ Len(q) = p -> queue' = q /\ planned' = p /\ UNCHANGED prepVars
    [] OTHER ->
         LET u == IF p = 1 THEN Update(q) ELSE q
         IN /\ queue' = Planned(u, p)
            /\ planned' = Max(Breaks(u, p))
            /\ IF p = 1 THEN Unload ELSE UNCHANGED prepVars

\* plan_cycle_reinitialize().
Reinitialize(q) ==
  LET u == Update(q)
  IN IF Len(u) > 1
     THEN queue' = Planned(u, 1) /\ planned' = Max(Breaks(u, 1)) /\ Unload
     ELSE /\ queue' = u /\ Unload
          /\ planned' \in IF u = <<>> THEN {0, 1} ELSE {1}

-----------------------------------------------------------------------------
\* plan_compute_profile_nominal_speed() and plan_compute_profile_parameters().
NominalAt(b, f) == Min2(b.rate * f, RapidRate)
Nominal(b) == NominalAt(b, f_override)
MaxEntry(junction, nominal, previous) == Min2(junction, Min2(nominal, previous) * Min2(nominal, previous))

\* plan_buffer_line(): a block behind an empty ring starts from rest.
Room == queue \in Seq(Block)                              \* mutant
NotFull == Len(queue) < MaxBlocks
\* Lines are read until a hold is complete.
ReadsLines == state # "HOLD" \/ "EXECUTE_HOLD" \in control
BufferLine ==
  /\ ReadsLines /\ NotFull
  /\ \E line \in Lines :
       LET junction == IF queue = <<>> THEN 0 ELSE line.junction
           nominal == Nominal(line)
           block == [rate |-> line.rate, junction |-> junction, run |-> line.run, entry |-> 0,
                     max |-> MaxEntry(junction, nominal, prevNominal)]
       IN prevNominal' = nominal /\ Recalculate(Append(queue, block), planned)
  /\ UNCHANGED <<f_override, state, control>>

\* A change of the feed override: new limits for every block, and a new plan.
Override ==
  /\ \E f \in Overrides \ {f_override} :
       LET previous(k) == IF k = 1 THEN RapidRate ELSE NominalAt(queue[k-1], f)
           q == [k \in 1..Len(queue) |->
                  [queue[k] EXCEPT !.max = MaxEntry(queue[k].junction, NominalAt(queue[k], f), previous(k))]]
       IN /\ Slower \/ f > f_override
          /\ f_override' = f
          /\ prevNominal' = previous(Len(queue) + 1)
          /\ Reinitialize(q)
  /\ UNCHANGED <<state, control>>

-----------------------------------------------------------------------------
\* st_prep_buffer(): the first block, and the exit speed of its profile.
Holding == "EXECUTE_HOLD" \in control
NextEntry == IF Len(queue) > 1 THEN queue[2].entry ELSE 0
NominalSqr == Nominal(queue[1]) * Nominal(queue[1])
\* An override has left so much speed that the whole block is a deceleration.
TooFast(v) == v > NominalSqr /\ v - NominalSqr >= queue[1].run

Load ==
  /\ state # "IDLE" /\ "END_MOTION" \notin control /\ ~loaded /\ queue # <<>>
  /\ LET enters == ~recalc /\ (Holding \/ decel)      \* goes on at the speed of the last block
         v == IF enters THEN exit ELSE queue[1].entry
     IN /\ queue' = [queue EXCEPT ![1].entry = v]
        /\ speed' = IF recalc THEN speed ELSE v
        /\ decel' = (~Holding /\ TooFast(v))
        /\ exit' = CASE Holding -> Max2(v - queue[1].run, 0)
                     [] ~Holding /\ TooFast(v) -> v - queue[1].run
                     [] OTHER -> NextEntry
  /\ loaded' = TRUE /\ recalc' = FALSE
  /\ UNCHANGED <<planned, prevNominal, f_override, state, control>>

\* plan_discard_current_block(): the pointer is pushed along.
DiscardLeavesPointer == planned' = planned - 1            \* mutant
PushPointer == planned' = IF planned > 1 THEN planned - 1 ELSE planned
Discard == queue' = Tail(queue) /\ PushPointer

\* The speed of a normal profile after the distance d, with r left.
Profile(d, r) ==
  CASE r = 0 -> exit
    [] r > 0 /\ (TooFast(speed) \/ speed >= exit + queue[1].run) -> Max2(speed - d, 0)
    [] r > 0 /\ ~TooFast(speed) /\ speed > NominalSqr -> Min2(Max2(speed - d, NominalSqr), exit + r)
    [] OTHER -> Min2(Min2(speed + d, NominalSqr), exit + r)

MayPrep == state # "IDLE" /\ "END_MOTION" \notin control /\ loaded
Execute ==
  /\ MayPrep /\ ~Holding
  /\ \E d \in 1..queue[1].run :
       LET r == queue[1].run - d
       IN /\ speed' = Profile(d, r)
          /\ IF r > 0 THEN queue' = [queue EXCEPT ![1].run = r] /\ UNCHANGED <<planned, loaded>>
             ELSE Discard /\ loaded' = FALSE
  /\ UNCHANGED <<prevNominal, f_override, state, control, recalc, decel, exit>>

\* A deceleration to rest, which ends inside the block or goes on in the next.
Brake ==
  /\ MayPrep /\ Holding /\ speed > 0
  /\ \E d \in 1..Min2(speed, queue[1].run) :
       LET r == queue[1].run - d
       IN /\ speed' = speed - d
          /\ IF r > 0
             THEN /\ queue' = [queue EXCEPT ![1].run = r]
                  /\ control' = IF speed = d THEN control \cup {"END_MOTION"} ELSE control
                  /\ UNCHANGED <<planned, loaded>>
             ELSE Discard /\ loaded' = FALSE /\ UNCHANGED control
  /\ UNCHANGED <<prevNominal, f_override, state, recalc, decel, exit>>
AtRest ==
  /\ MayPrep /\ Holding /\ speed = 0
  /\ control' = control \cup {"END_MOTION"}
  /\ UNCHANGED <<planVars, prepVars, f_override, state>>

-----------------------------------------------------------------------------
\* protocol_exec_rt_system(): cycle start, feed hold, cycle stop, and the abort.
Start ==
  /\ state = "IDLE" \/ (state = "HOLD" /\ ~Holding)
  /\ state' = IF queue # <<>> THEN "CYCLE" ELSE "IDLE"
  /\ control' = {}
  /\ UNCHANGED <<planVars, prepVars, f_override>>

Hold ==
  \/ /\ state = "CYCLE" /\ state' = "HOLD" /\ control' = {"EXECUTE_HOLD"}
     /\ queue' = Update(queue) /\ Unload
     /\ UNCHANGED <<planned, prevNominal, f_override>>
  \/ /\ state = "IDLE" /\ state' = "HOLD"
     /\ UNCHANGED <<planVars, prepVars, f_override, control>>

\* The steppers have executed all that was prepared.
CycleStop ==
  \/ /\ state = "CYCLE" /\ queue = <<>> /\ state' = "IDLE"
     /\ UNCHANGED <<planVars, prepVars, f_override, control>>
  \/ /\ state = "HOLD" /\ Holding /\ ("END_MOTION" \in control \/ queue = <<>>)
     /\ Reinitialize(queue)
     /\ control' = control \ {"EXECUTE_HOLD"}
     /\ UNCHANGED <<prevNominal, f_override, state>>

Init ==
  /\ queue = <<>> /\ planned = 1 /\ prevNominal = 0 /\ f_override = 1
  /\ state = "IDLE" /\ control = {}
  /\ loaded = FALSE /\ recalc = FALSE /\ decel = FALSE /\ speed = 0 /\ exit = 0
Reset ==
  /\ queue' = <<>> /\ planned' = 1 /\ prevNominal' = 0 /\ f_override' = 1
  /\ state' = "IDLE" /\ control' = {}
  /\ loaded' = FALSE /\ recalc' = FALSE /\ decel' = FALSE /\ speed' = 0 /\ exit' = 0

Next == BufferLine \/ Override \/ Load \/ Execute \/ Brake \/ AtRest
        \/ Start \/ Hold \/ CycleStop \/ Reset
Spec == Init /\ [][Next]_vars

-----------------------------------------------------------------------------
\* The speed (squared) at the beginning of what is left of block k.
SpeedAt(k) == IF k = 1 /\ (loaded \/ recalc) THEN speed ELSE queue[k].entry

\* The pointer from which the next pass of the planner starts is a block of the ring
\* (planner.c:109: it "can never be less than block_buffer_tail").
PlannedValid == queue # <<>> => planned \in 1..Len(queue)

\* From each junction on the machine can brake to the next one, and to rest at the end of the
\* last block, whatever lines, holds, resumes and raised overrides re-planned the ring
\* (planner.c:75). A lowered override breaks it.
PlanFeasible ==
  \A k \in 1..Len(queue) :
    SpeedAt(k) <= queue[k].run + (IF k = Len(queue) THEN 0 ELSE queue[k+1].entry)

\* A full pass over the blocks q, from rest at the end and from the speed s at the beginning.
Braking(q) ==
  LET back[k \in 1..Len(q)+1] == IF k > Len(q) THEN 0 ELSE Min2(q[k].max, back[k+1] + q[k].run)
  IN back
FullPlan(q, s) ==
  LET back == Braking(q)
      best[k \in 1..Len(q)] == IF k = 1 THEN s ELSE Min2(back[k], best[k-1] + q[k-1].run)
  IN best
\* The passes that start at block_buffer_planned and skip blocks plan what a full pass over the
\* ring plans: no junction is slower than the limits demand.
PlanOptimal ==
  state # "HOLD" => \A k \in 2..Len(queue) : queue[k].entry = FullPlan(queue, SpeedAt(1))[k]

\* The distance a step executes.
Travelled ==
  CASE Len(queue') < Len(queue) -> queue[1].run
    [] Len(queue') = Len(queue) /\ queue # <<>> -> queue[1].run - queue'[1].run
    [] OTHER -> 0
\* The machine never changes its speed by more than the distance it travels allows: not between
\* two blocks, not when a profile is re-planned in mid-block, not at a resume (stepper.c:535).
SpeedContinuous ==
  [][~Reset => speed' - speed <= Travelled /\ speed - speed' <= Travelled]_vars
=============================================================================
