----------------------------- MODULE GcodeStore -----------------------------
(***************************************************************************)
(* The state of the g-code parser and what is kept of it in EEPROM: the    *)
(* execution of a block (gcode.c, step 4), the settings commands           *)
(* (system.c, settings.c), the records with their checksums (eeprom.c),    *)
(* boot, resets and power losses (main.c), and when a status report shows  *)
(* the work coordinate offset (report.c).                                  *)
(*                                                                         *)
(* A record is a value and whether its checksum agrees.  A power loss      *)
(* while it is written leaves a mixture of old and new, and the checksum,  *)
(* which depends on little more than the last byte, may agree or not.      *)
(*                                                                         *)
(* The main program is atomic but where it writes a record or waits for    *)
(* the planner, where status reports and resets are served.  Motion takes  *)
(* no time.  One startup line.  Bounds: numbers stay within -Bound..Bound  *)
(* and blocks use the Records in play (other lines are not sent); one      *)
(* offset report out of WcoRefresh.                                        *)
(***************************************************************************)
EXTENDS GcodeBlock

CONSTANTS Lines,       \* the g-code lines: whether it is a jog, its words
          StartupLines, \* the lines that are sent with $N0=
          SystemLines, \* the other $ commands
          Records,     \* the coordinate data in play: of G54 to G59, G28 and G30
          Bound, WcoRefresh

ASSUME LineAssumption == Lines \subseteq Line /\ StartupLines \subseteq Line
ASSUME StoreAssumption ==
  /\ "G54" \in Records /\ Records \subseteq CoordSystems \cup {"G28", "G30"}
  /\ Bound \in Nat \ {0} /\ WcoRefresh \in 2..255

VARIABLES
  eeprom,             \* the records
  settings,           \* the flags homing, soft (limits) and dry (run)
  gc, sys_position,   \* the parser's state, the machine's position
  state, reset,       \* IDLE, ALARM or CHECK; EXEC_RESET
  wco_counter, stale, \* report_wco_counter; the offset differs from the one last reported
  pc, next,           \* the main program, where it goes on after a wait or a write
  line, block,        \* what it executes
  job, todo,          \* the record it writes, the records it restores
  answer              \* to the line, "none" before
volatile == <<settings, gc, sys_position, state, reset, wco_counter, stale, line, block, todo>>
vars == <<eeprom, volatile, pc, next, job, answer>>

NoLine == [jog |-> FALSE, words |-> <<>>]
NoBlock == [store |-> FALSE]
NoJob  == [record |-> "none", value |-> Zero]
Defaults == [homing |-> FALSE, soft |-> FALSE, dry |-> FALSE]
InitGc(coord, position) ==
  [modal |-> DefaultModal, feed_rate |-> 0, position |-> position, coord_system |-> coord,
   coord_offset |-> Zero, tool_length_offset |-> 0]

Wco(g) == [a \in Axes |-> g.coord_system[a] + g.coord_offset[a] + Tlo(g, a)]
SetGc(g) == gc' = g /\ stale' = (stale \/ Wco(g) # Wco(gc))

-----------------------------------------------------------------------------
\* The records.  Write is memcpy_to_eeprom_with_checksum(), WriteDone its end.

Write(record, value, then) ==
  pc' = "write" /\ next' = then /\ job' = [record |-> record, value |-> value]
\* A startup line is restored by clearing its first bytes only: its checksum may not agree.
WriteDone ==
  /\ pc = "write"
  /\ \E ok \in IF job.record = "startup" /\ next = "restore" THEN BOOLEAN ELSE {TRUE} :
       eeprom' = [eeprom EXCEPT ![job.record] = [ok |-> ok, value |-> job.value]]
  /\ pc' = next /\ next' = "idle" /\ job' = NoJob
  /\ UNCHANGED <<volatile, answer>>

\* What a power loss leaves of the record.  Bound stands for a number of which some bytes are
\* new; the text of a line may be cut.
Blank(record) == CASE record = "settings" -> Defaults
                   [] record = "startup" -> NoLine
                   [] OTHER -> Zero
Mixed(record, old, new) ==
  CASE record = "settings" -> {old, new}
    [] record = "startup" ->
         {old, new, [new EXCEPT !.words = SubSeq(@, 1, Len(@) \div 2)]}
    [] OTHER -> {v \in [Axes -> -Bound..Bound] :
                   \A a \in Axes : v[a] \in {old[a], new[a]} \/ (v[a] = Bound /\ old[a] # new[a])}
Torn(record, old, new) ==
  {[ok |-> FALSE, value |-> Blank(record)]}
    \cup {[ok |-> TRUE, value |-> v] : v \in Mixed(record, old, new)}

PowerLoss ==
  /\ pc # "power"
  /\ IF pc = "write"
     THEN \E r \in Torn(job.record, eeprom[job.record].value, job.value) :
            eeprom' = [eeprom EXCEPT ![job.record] = r]
     ELSE UNCHANGED eeprom
  /\ pc' = "power" /\ next' = "idle" /\ job' = NoJob /\ todo' = {} /\ answer' = "none"
  /\ settings' = Defaults /\ gc' = InitGc(Zero, Zero) /\ sys_position' = Zero
  /\ state' = "IDLE" /\ reset' = FALSE /\ wco_counter' = 0 /\ stale' = TRUE
  /\ line' = NoLine /\ block' = NoBlock

-----------------------------------------------------------------------------
\* Boot.

\* settings_init(), and the alarm lock of a machine that has to be homed.
PowerOn ==
  /\ pc = "power"
  /\ IF eeprom["settings"].ok
     THEN /\ settings' = eeprom["settings"].value
          /\ state' = IF settings'.homing THEN "ALARM" ELSE "IDLE"
          /\ pc' = "boot" /\ UNCHANGED <<next, job, todo>>
     ELSE /\ settings' = Defaults
          /\ todo' = Records \cup {"startup"} /\ Write("settings", Defaults, "restore")
          /\ UNCHANGED state
  /\ UNCHANGED <<eeprom, gc, sys_position, reset, wco_counter, stale, line, block, answer>>

\* settings_restore(), one record after the other; then boot, or a reset.
Restore ==
  /\ pc = "restore"
  /\ IF todo # {}
     THEN LET r == CHOOSE t \in todo : TRUE
          IN todo' = todo \ {r} /\ Write(r, Blank(r), "restore") /\ UNCHANGED reset
     ELSE /\ IF answer = "none" THEN pc' = "boot" /\ UNCHANGED reset
                                ELSE pc' = "idle" /\ reset' = TRUE
          /\ UNCHANGED <<todo, next, job>>
  /\ UNCHANGED <<eeprom, settings, gc, sys_position, state, wco_counter, stale, line, block, answer>>

\* The initialization loop of main() with gc_init(); a record that cannot be read is cleared.
BootNoRepair ==                                          \* mutant
  /\ pc = "boot"
  /\ LET coord == IF eeprom["G54"].ok THEN eeprom["G54"].value ELSE Zero
     IN SetGc(InitGc(coord, sys_position))
  /\ pc' = "startup"
  /\ reset' = FALSE /\ wco_counter' = 0 /\ settings' = [settings EXCEPT !.dry = FALSE]
  /\ state' = IF state = "ALARM" THEN "ALARM" ELSE "IDLE"
  /\ UNCHANGED <<eeprom, sys_position, next, job, line, block, todo, answer>>
Boot ==
  /\ pc = "boot"
  /\ LET coord == IF eeprom["G54"].ok THEN eeprom["G54"].value ELSE Zero
     IN SetGc(InitGc(coord, sys_position))
  /\ IF eeprom["G54"].ok THEN pc' = "startup" /\ UNCHANGED <<next, job>>
                         ELSE Write("G54", Zero, "startup")
  /\ reset' = FALSE /\ wco_counter' = 0 /\ settings' = [settings EXCEPT !.dry = FALSE]
  /\ state' = IF state = "ALARM" THEN "ALARM" ELSE "IDLE"
  /\ UNCHANGED <<eeprom, sys_position, line, block, todo, answer>>

\* system_execute_startup(), not after an alarm.
Startup ==
  /\ pc = "startup"
  /\ answer' = "none"
  /\ CASE state = "ALARM" \/ (eeprom["startup"].ok /\ eeprom["startup"].value = NoLine) ->
            pc' = "idle" /\ UNCHANGED <<line, next, job>>
       [] state # "ALARM" /\ ~eeprom["startup"].ok ->
            Write("startup", NoLine, "idle") /\ UNCHANGED line
       [] OTHER -> line' = eeprom["startup"].value /\ pc' = "parse" /\ UNCHANGED <<next, job>>
  /\ UNCHANGED <<eeprom, settings, gc, sys_position, state, reset, wco_counter, stale, block, todo>>

-----------------------------------------------------------------------------
\* A line arrives; a reset comes first.

Idle == pc = "idle" /\ ~reset
ReceiveLine ==
  /\ Idle
  /\ \/ \E l \in Lines : /\ IF l.jog THEN state = "IDLE" ELSE state # "ALARM"
                        /\ line' = l /\ block' = NoBlock
     \/ /\ state = "IDLE" /\ line' \in StartupLines
        /\ block' = [store |-> TRUE]
  /\ pc' = "parse" /\ answer' = "none"
  /\ UNCHANGED <<eeprom, settings, gc, sys_position, state, reset, wco_counter, stale, next, job, todo>>

\* Steps 1 to 3.  A jog is checked against the travel and executed at once.
OutOfTravel(p) == settings.soft /\ \E a \in Axes : p[a] \notin -Bound..0
InPlay(b) ==
  b.modal.coord_select \in Records \cap CoordSystems /\ DataRecord(b) \in Records \cup {"none"}
InBounds(p) == \A a \in Axes : p[a] \in -Bound..Bound
Reject(then) == answer' = "error" /\ pc' = then /\ line' = NoLine /\ block' = NoBlock
Ready(b) ==
  LET record == DataRecord(b)
  IN [modal |-> b.modal, non_modal |-> b.non_modal, command |-> Executed(b), record |-> record,
      feed_rate |-> FeedRate(b, gc), coord |-> BlockCoord(b, gc, eeprom),
      target |-> Target(b, gc, eeprom),
      data |-> IF record = "none" THEN Zero ELSE Data(b, gc, eeprom), store |-> block.store]
ParseLine ==
  /\ pc = "parse"
  /\ LET b == Import(line, gc.modal)
         verdict == Verdict(b, gc, eeprom)
     IN CASE verdict = "error" -> Reject("idle") /\ UNCHANGED <<gc, sys_position, stale, next, job>>
          [] verdict = "ok" /\ ~b.jog ->
               /\ InPlay(b) /\ block' = Ready(b) /\ InBounds(block'.target) /\ InBounds(block'.data)
               /\ pc' = "modes"
               /\ UNCHANGED <<gc, sys_position, stale, next, job, line, answer>>
          [] verdict = "ok" /\ b.jog ->
               LET target == Target(b, gc, eeprom)
               IN /\ InPlay(b) /\ InBounds(target) /\ UNCHANGED <<stale, next, job>>
                  /\ IF OutOfTravel(target) THEN Reject("idle") /\ UNCHANGED <<gc, sys_position>>
                     ELSE /\ gc' = [gc EXCEPT !.position = target] /\ sys_position' = target
                          /\ answer' = "ok" /\ pc' = "idle" /\ line' = NoLine /\ block' = NoBlock
          [] OTHER -> /\ InPlay(b) /\ answer' = "error" /\ line' = NoLine /\ block' = NoBlock
                      /\ Write(verdict, Zero, "idle") /\ UNCHANGED <<gc, sys_position, stale>>
  /\ UNCHANGED <<eeprom, settings, state, reset, wco_counter, todo>>

-----------------------------------------------------------------------------
\* Step 4, in the order of execution.

Step(stage) == pc = stage /\ UNCHANGED <<eeprom, settings, line, block, todo, answer>>

\* system_flag_wco_change(): waits for the planner, then has the next report show the offset.
FlagWco(then) == pc' = "sync" /\ next' = then
SyncDone ==
  /\ pc = "sync" /\ pc' = next /\ next' = "idle" /\ wco_counter' = 0
  /\ UNCHANGED <<eeprom, settings, gc, sys_position, state, reset, stale, job, line, block, todo,
                 answer>>

\* Feed, spindle, height control, coolant, plane, units and tool length.
NewModes(length) ==
  LET m == block.modal
  IN [gc EXCEPT !.feed_rate = block.feed_rate, !.tool_length_offset = length,
                !.modal = [@ EXCEPT !.feed_rate = m.feed_rate, !.spindle = m.spindle,
                                    !.thc = m.thc, !.coolant = m.coolant, !.plane = m.plane,
                                    !.units = m.units,
                                    !.tool_length = IF block.command = "tool_length"
                                                    THEN m.tool_length ELSE @]]
ToolLength ==
  CASE block.command # "tool_length"                                           -> gc.tool_length_offset
    [] block.command = "tool_length" /\ block.modal.tool_length = "G49"        -> 0
    [] block.command = "tool_length" /\ block.modal.tool_length = "G43.1" ->
         block.target[TOOL_LENGTH_OFFSET_AXIS]
SetModesSilently ==                                      \* mutant
  /\ Step("modes")
  /\ SetGc(NewModes(ToolLength)) /\ pc' = "coord"
  /\ UNCHANGED <<sys_position, state, reset, wco_counter, next, job>>
SetModes ==
  /\ Step("modes")
  /\ SetGc(NewModes(ToolLength))
  /\ IF ToolLength # gc.tool_length_offset THEN FlagWco("coord") ELSE pc' = "coord" /\ UNCHANGED next
  /\ UNCHANGED <<sys_position, state, reset, wco_counter, job>>

SelectCoord ==
  /\ Step("coord")
  /\ IF block.modal.coord_select # gc.modal.coord_select
     THEN /\ SetGc([gc EXCEPT !.modal.coord_select = block.modal.coord_select,
                              !.coord_system = block.coord])
          /\ FlagWco("non_modal")
     ELSE pc' = "non_modal" /\ UNCHANGED <<gc, stale, next>>
  /\ UNCHANGED <<sys_position, state, reset, wco_counter, job>>

\* A motion to p, by way of the points in via; out of the soft limits it raises an alarm and
\* resets instead.
MoveTo(p, via) ==
  /\ IF (\E v \in via \cup {p} : OutOfTravel(v)) /\ ~reset THEN state' = "ALARM" /\ reset' = TRUE
                                                          ELSE UNCHANGED <<state, reset>>
  /\ sys_position' = IF reset' \/ state = "CHECK" THEN sys_position ELSE p

\* The distance mode and the non-modal commands.
NonModal ==
  /\ Step("non_modal")
  /\ LET g == [gc EXCEPT !.modal.distance = block.modal.distance]
     IN CASE block.non_modal = "G10" ->
               /\ SetGc(g) /\ Write(block.record, block.data, "data")
               /\ UNCHANGED <<sys_position, state, reset>>
          [] block.non_modal \in {"G28", "G30"} ->
               /\ MoveTo(block.data, IF block.command # "none" THEN {block.target} ELSE {})
               /\ SetGc([g EXCEPT !.position = block.data])
               /\ pc' = "motion" /\ UNCHANGED <<next, job>>
          [] block.non_modal \in {"G28.1", "G30.1"} ->
               /\ SetGc(g)
               /\ Write(IF block.non_modal = "G28.1" THEN "G28" ELSE "G30", gc.position, "motion")
               /\ UNCHANGED <<sys_position, state, reset>>
          [] block.non_modal \in {"G92", "G92.1"} ->
               /\ SetGc([g EXCEPT !.coord_offset =
                           IF block.non_modal = "G92" THEN block.target ELSE Zero])
               /\ FlagWco("motion") /\ UNCHANGED <<sys_position, state, reset, job>>
          [] OTHER -> /\ SetGc(g) /\ pc' = "motion"
                      /\ UNCHANGED <<sys_position, state, reset, next, job>>
  /\ UNCHANGED wco_counter

\* After a G10 has been written: the active system takes the new data.
ApplyDataNever ==                                        \* mutant
  /\ Step("data") /\ pc' = "motion"
  /\ UNCHANGED <<gc, stale, next, sys_position, state, reset, wco_counter, job>>
ApplyData ==
  /\ Step("data")
  /\ IF gc.modal.coord_select = block.record
     THEN SetGc([gc EXCEPT !.coord_system = block.data]) /\ FlagWco("motion")
     ELSE pc' = "motion" /\ UNCHANGED <<gc, stale, next>>
  /\ UNCHANGED <<sys_position, state, reset, wco_counter, job>>

\* A probe may stop at once, or reach its target.
Motion ==
  /\ Step("motion")
  /\ LET g == [gc EXCEPT !.modal = [@ EXCEPT !.motion = block.modal.motion,
                                           !.program_flow = block.modal.program_flow]]
     IN IF block.command = "motion" /\ block.modal.motion # "G80"
        THEN /\ MoveTo(block.target, {})
             /\ \/ SetGc([g EXCEPT !.position = block.target])
                \/ block.modal.motion \in Probes /\ state # "CHECK" /\ SetGc(g)
        ELSE SetGc(g) /\ UNCHANGED <<sys_position, state, reset>>
  /\ pc' = IF block.modal.program_flow \in {"M2", "M30"} THEN "flow" ELSE "end"
  /\ UNCHANGED <<wco_counter, next, job>>

\* The end of a program; a pause is left out.  The coordinate data is read outside check mode.
EndModal(m) == [m EXCEPT !.motion = "G1", !.plane = "G17", !.distance = "G90", !.feed_rate = "G94",
                         !.coord_select = "G54", !.spindle = "M5", !.coolant = "M9"]
ProgramFlow ==
  /\ pc = "flow"
  /\ CASE state # "CHECK" /\ ~eeprom["G54"].ok ->
            /\ SetGc([gc EXCEPT !.modal = EndModal(@), !.coord_system = Zero])
            /\ Write("G54", Zero, "idle")
            /\ answer' = "error" /\ line' = NoLine /\ block' = NoBlock
       [] state # "CHECK" /\ eeprom["G54"].ok ->
            /\ SetGc([gc EXCEPT !.modal = EndModal(@), !.coord_system = eeprom["G54"].value])
            /\ FlagWco("end") /\ UNCHANGED <<job, line, block, answer>>
       [] state = "CHECK" ->
            /\ SetGc([gc EXCEPT !.modal = EndModal(@)])
            /\ pc' = "end" /\ UNCHANGED <<next, job, line, block, answer>>
  /\ UNCHANGED <<eeprom, settings, sys_position, state, reset, wco_counter, todo>>

\* The answer; the line of $N0= is stored when it has been executed.
EndLine ==
  /\ pc = "end"
  /\ gc' = [gc EXCEPT !.modal = [@ EXCEPT !.program_flow = "run"]]
  /\ IF block.store THEN Write("startup", line, "idle") ELSE pc' = "idle" /\ UNCHANGED <<next, job>>
  /\ answer' = "ok" /\ line' = NoLine /\ block' = NoBlock
  /\ UNCHANGED <<eeprom, settings, sys_position, state, reset, wco_counter, stale, todo>>

-----------------------------------------------------------------------------
\* The $ commands.

Settings == {"$20=0", "$20=1", "$22=0", "$22=1", "$40=0", "$40=1"}
Setting(c) ==
  CASE c = "$20=0" -> [settings EXCEPT !.soft = FALSE]
    [] c = "$20=1" -> [settings EXCEPT !.soft = TRUE]
    [] c = "$22=0" -> [settings EXCEPT !.homing = FALSE, !.soft = FALSE]
    [] c = "$22=1" -> [settings EXCEPT !.homing = TRUE]
    [] c = "$40=0" -> [settings EXCEPT !.dry = FALSE]
    [] c = "$40=1" -> [settings EXCEPT !.dry = TRUE]

\* settings_store_global_setting(): the dry run flag is not stored.
StoreSetting ==
  /\ Idle /\ state \in {"IDLE", "ALARM"}
  /\ \E c \in Settings \cap SystemLines :
       IF c = "$20=1" /\ ~settings.homing
       THEN answer' = "error" /\ UNCHANGED <<settings, pc, next, job>>
       ELSE /\ settings' = Setting(c) /\ answer' = "ok"
            /\ Write("settings", [settings' EXCEPT !.dry = FALSE], "idle")
  /\ UNCHANGED <<eeprom, gc, sys_position, state, reset, wco_counter, stale, line, block, todo>>

\* $RST=
RestoreDefaults ==
  /\ Idle /\ state \in {"IDLE", "ALARM"} /\ answer' = "ok"
  /\ \/ /\ "$RST=#" \in SystemLines
        /\ todo' = Records /\ pc' = "restore" /\ UNCHANGED <<settings, next, job>>
     \/ /\ "$RST=$" \in SystemLines
        /\ settings' = Defaults /\ Write("settings", Defaults, "restore") /\ UNCHANGED todo
     \/ /\ "$RST=*" \in SystemLines
        /\ settings' = Defaults /\ Write("settings", Defaults, "restore")
        /\ todo' = Records \cup {"startup"}
  /\ UNCHANGED <<eeprom, gc, sys_position, state, reset, wco_counter, stale, line, block>>

\* $C and $X.
CheckMode ==
  /\ Idle /\ "$C" \in SystemLines
  /\ \/ state = "CHECK" /\ reset' = TRUE /\ UNCHANGED state
     \/ state = "IDLE" /\ state' = "CHECK" /\ UNCHANGED reset
  /\ answer' = "ok"
  /\ UNCHANGED <<eeprom, settings, gc, sys_position, wco_counter, stale, line, block, todo, pc, next, job>>
Unlock ==
  /\ Idle /\ "$X" \in SystemLines /\ state = "ALARM" /\ state' = "IDLE" /\ answer' = "ok"
  /\ UNCHANGED <<eeprom, settings, gc, sys_position, reset, wco_counter, stale, line, block, todo, pc,
                 next, job>>

-----------------------------------------------------------------------------
\* Real time: a status report, a reset (with an alarm when it interrupts a motion) and its
\* service in the main loop.

Report ==
  /\ ~reset /\ pc \in {"idle", "sync", "write"}
  /\ IF wco_counter = 0 THEN wco_counter' = WcoRefresh - 1 /\ stale' = FALSE
                        ELSE wco_counter' = wco_counter - 1 /\ UNCHANGED stale
  /\ UNCHANGED <<eeprom, settings, gc, sys_position, state, reset, line, block, todo, pc, next, job,
                 answer>>
OperatorReset ==
  /\ ~reset /\ pc \in {"idle", "sync", "write"} /\ reset' = TRUE
  /\ \/ UNCHANGED state
     \/ pc \in {"sync", "write"} /\ line # NoLine /\ state = "IDLE" /\ state' = "ALARM"
  /\ UNCHANGED <<eeprom, settings, gc, sys_position, wco_counter, stale, line, block, todo, pc, next,
                 job, answer>>
Abort ==
  /\ pc = "idle" /\ reset /\ pc' = "boot"
  /\ UNCHANGED <<eeprom, volatile, next, job, answer>>

Init ==
  /\ eeprom = [r \in Records \cup {"settings", "startup"} |-> [ok |-> FALSE, value |-> Blank(r)]]
  /\ settings = Defaults /\ gc = InitGc(Zero, Zero) /\ sys_position = Zero
  /\ state = "IDLE" /\ reset = FALSE /\ wco_counter = 0 /\ stale = TRUE
  /\ pc = "power" /\ next = "idle" /\ line = NoLine /\ block = NoBlock
  /\ job = NoJob /\ todo = {} /\ answer = "none"

Execute == SetModes \/ SelectCoord \/ NonModal \/ ApplyData \/ Motion
             \/ ProgramFlow \/ EndLine
Main == \/ PowerOn \/ Restore \/ Boot \/ Startup \/ ReceiveLine \/ ParseLine \/ Execute
        \/ WriteDone \/ SyncDone \/ StoreSetting \/ RestoreDefaults \/ CheckMode \/ Unlock \/ Abort
Next == Main \/ PowerLoss \/ Report \/ OperatorReset
Spec == Init /\ [][Next]_vars

-----------------------------------------------------------------------------
\* Properties.

\* The order of the words of a line does not matter: it decides neither whether the line is
\* accepted nor what it says (gcode.c:117).
OrderIndependent ==
  pc = "parse" =>
    LET words == line.words
        b == Import(line, gc.modal)
        Orders == {p \in [DOMAIN words -> DOMAIN words] :
                     \A i, j \in DOMAIN words : p[i] = p[j] => i = j}
    IN \A p \in Orders :
         LET other == Import([line EXCEPT !.words = [i \in DOMAIN words |-> words[p[i]]]], gc.modal)
         IN other.ok = b.ok /\ (b.ok => other = b)

\* Between lines the parser works with the stored data of the selected coordinate system,
\* whatever selects it, changes it, restores it, fails to read it, or loses power writing it
\* (gcode.c:507, :1015, settings.c:83).  Check mode is left by a reset.
Between == pc = "idle" /\ ~reset
CoordSystemCurrent ==
  Between /\ state # "CHECK" =>
    LET r == eeprom[gc.modal.coord_select] IN r.ok /\ r.value = gc.coord_system

\* A host that reads the status reports knows the offset: when a line has changed it, the next
\* report shows it (system.c:288).
OffsetsReported == Between /\ stale => wco_counter = 0

\* A line that is executed at all is executed to its end: an error is answered before anything
\* is changed.  The one read that comes later, at the end of a program, never fails
\* (gcode.c:1122).
Executing == {"modes", "coord", "non_modal", "data", "motion", "flow", "end"}
ExecutesWhole == [][answer' = "error" => ~(pc \in Executing)]_vars
=============================================================================
