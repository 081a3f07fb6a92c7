----------------------------- MODULE GcodeBlock -----------------------------
(***************************************************************************)
(* gc_execute_line(), steps 1 to 3 (gcode.c): the words of a line are      *)
(* imported one after the other into a block, the block is checked, and    *)
(* its targets are computed.  No state: operators on the words, the state  *)
(* of the parser (gc) and the coordinate data stored in EEPROM.            *)
(*                                                                         *)
(* A word is a pair: a command and 0, or a letter and its value.  Numbers  *)
(* are small integers, an inch has MM_PER_INCH of them, and the tolerance  *)
(* of an arc's two radii, smaller than the grid, is equality.  Number      *)
(* syntax and the ranges of N and T are left out.                          *)
(***************************************************************************)
EXTENDS Integers, Sequences, FiniteSets, SequencesExt

CONSTANT MM_PER_INCH

Axes == {"X", "Y", "Z"}
TOOL_LENGTH_OFFSET_AXIS == "Z"
CoordSystems == {"G54", "G55", "G56", "G57", "G58", "G59"}
Zero == [a \in Axes |-> 0]

\* The modal groups and what each holds; Field is where a command of the group is kept.
ModalGroup == [
  G0  |-> {"G4", "G10", "G28", "G28.1", "G30", "G30.1", "G53", "G92", "G92.1"},
  G1  |-> {"G0", "G1", "G2", "G3", "G38.2", "G38.3", "G38.4", "G38.5", "G80"},
  G2  |-> {"G17", "G18", "G19"},
  G3  |-> {"G90", "G91"},
  G4  |-> {"G91.1"},
  G5  |-> {"G93", "G94"},
  G6  |-> {"G20", "G21"},
  G7  |-> {"G40"},
  G8  |-> {"G43.1", "G49"},
  G12 |-> CoordSystems,
  G13 |-> {"G61"},
  M4  |-> {"M0", "M1", "M2", "M30"},
  M7  |-> {"M3", "M4", "M5"},
  M8  |-> {"M8", "M9"}]
Field == [G1 |-> "motion", G2 |-> "plane", G3 |-> "distance", G5 |-> "feed_rate", G6 |-> "units",
          G8 |-> "tool_length", G12 |-> "coord_select", M4 |-> "program_flow", M7 |-> "spindle",
          M8 |-> "coolant"]
Commands == UNION {ModalGroup[g] : g \in DOMAIN ModalGroup}
GroupOf(c) == CHOOSE g \in DOMAIN ModalGroup : c \in ModalGroup[g]

Probes == {"G38.2", "G38.3", "G38.4", "G38.5"}
Arcs   == {"G2", "G3"}
\* The commands that claim the axis words; at most one in a block.
AxisCommand(c) ==
  CASE c \in {"G10", "G28", "G30", "G92"}          -> "non_modal"
    [] c \in {"G0", "G1"} \cup Arcs \cup Probes    -> "motion"
    [] c \in {"G43.1", "G49"}                      -> "tool_length"
    [] OTHER                                       -> "none"

\* gc_state.modal after gc_init().
DefaultModal == [motion |-> "G0", plane |-> "G17", distance |-> "G90", feed_rate |-> "G94",
                 units |-> "G21", tool_length |-> "G49", coord_select |-> "G54",
                 program_flow |-> "run", spindle |-> "M5", coolant |-> "M9", thc |-> FALSE]

-----------------------------------------------------------------------------
\* Step 2: one word after the other.  The axis words are no command of their own.

\* What a line can hold.
Letters == {"F", "H", "I", "J", "K", "L", "N", "P", "R", "S", "T", "X", "Y", "Z"}
Word == (Commands \X {0}) \cup (Letters \X Int)
Line == [jog : BOOLEAN, words : Seq(Word)]

NewBlock(modal, jog) ==
  [ok |-> TRUE, jog |-> jog, non_modal |-> "none", axis_command |-> "none", groups |-> {},
   value |-> <<>>,
   modal |-> IF jog THEN [modal EXCEPT !.motion = "G1", !.feed_rate = "G94"] ELSE modal]

ImportCommandUnchecked(b, c) ==                          \* mutant
  LET g == GroupOf(c)
  IN [b EXCEPT !.ok = @ /\ ~(AxisCommand(c) # "none" /\ b.axis_command # "none"),
               !.groups = @ \cup {g},
               !.axis_command = IF AxisCommand(c) # "none" THEN AxisCommand(c) ELSE @,
               !.non_modal = IF g = "G0" THEN c ELSE @,
               !.modal = IF g \in DOMAIN Field /\ c # "M1" THEN [@ EXCEPT ![Field[g]] = c] ELSE @]
ImportCommand(b, c) ==
  LET g == GroupOf(c)
  IN [b EXCEPT !.ok = /\ @ /\ g \notin b.groups
                      /\ ~(AxisCommand(c) # "none" /\ b.axis_command # "none"),
               !.groups = @ \cup {g},
               !.axis_command = IF AxisCommand(c) # "none" THEN AxisCommand(c) ELSE @,
               !.non_modal = IF g = "G0" THEN c ELSE @,
               !.modal = IF g \in DOMAIN Field /\ c # "M1" THEN [@ EXCEPT ![Field[g]] = c] ELSE @]

\* H0 enables the height control and H1 disables it.
ImportValue(b, l, v) ==
  [b EXCEPT !.ok = @ /\ l \notin DOMAIN b.value /\ ~(l \in {"F", "N", "P", "S", "T"} /\ v < 0),
            !.value = [m \in DOMAIN b.value \cup {l} |-> IF m = l THEN v ELSE b.value[m]],
            !.modal.thc = IF l = "H" /\ v \in {0, 1} THEN v = 0 ELSE @]

ImportWord(b, w) ==
  IF w[1] \in Commands THEN ImportCommand(b, w[1]) ELSE ImportValue(b, w[1], w[2])
Import(line, modal) == FoldLeft(ImportWord, NewBlock(modal, line.jog), line.words)

-----------------------------------------------------------------------------
\* Step 3: checks and targets.  b is an imported block.

Has(b, l)    == l \in DOMAIN b.value
Val(b, l)    == IF Has(b, l) THEN b.value[l] ELSE 0
AxisWords(b) == Axes \cap DOMAIN b.value
InMm(b, v)   == IF b.modal.units = "G20" THEN v * MM_PER_INCH ELSE v

\* The axis command, motion if there are axis words and no command.
Command(b) == IF b.axis_command = "none" /\ AxisWords(b) # {} THEN "motion" ELSE b.axis_command

PlaneAxes(b) == CASE b.modal.plane = "G17" -> <<"X", "Y">>
                  [] b.modal.plane = "G18" -> <<"Z", "X">>
                  [] b.modal.plane = "G19" -> <<"Y", "Z">>

\* The feed rate; one given with G94 after G93 is taken as it stands.
FeedRate(b, gc) ==
  CASE b.jog -> InMm(b, Val(b, "F"))
    [] ~b.jog /\ b.modal.feed_rate = "G94" /\ gc.modal.feed_rate = "G94" ->
         IF Has(b, "F") THEN InMm(b, b.value["F"]) ELSE gc.feed_rate
    [] OTHER -> Val(b, "F")

\* Errors found before anything is read from EEPROM.
EarlyError(b) ==
  \/ ~b.ok
  \/ b.jog /\ ~Has(b, "F")
  \/ /\ ~b.jog /\ b.modal.feed_rate = "G93" /\ ~Has(b, "F")
     /\ Command(b) = "motion" /\ b.modal.motion \notin {"G80", "G0"}
  \/ b.non_modal = "G4" /\ ~Has(b, "P")
  \/ /\ Command(b) = "tool_length" /\ b.modal.tool_length = "G43.1"
     /\ AxisWords(b) # {TOOL_LENGTH_OFFSET_AXIS}

\* The coordinate system a block selects is read if it is another one.
SelectsCoord(b, gc) == b.modal.coord_select # gc.modal.coord_select
BlockCoord(b, gc, stored) ==
  IF SelectsCoord(b, gc) THEN stored[b.modal.coord_select].value ELSE gc.coord_system

\* The stored data the block works on: what G10 changes, where G28 and G30 go.
SystemOf(p) == CHOOSE r \in CoordSystems :
  r = <<"G54", "G55", "G56", "G57", "G58", "G59">>[p]
DataRecord(b) ==
  CASE b.non_modal = "G10" -> IF Val(b, "P") = 0 THEN b.modal.coord_select
                                                 ELSE SystemOf(b.value["P"])
    [] b.non_modal \in {"G28", "G30"} -> b.non_modal
    [] OTHER -> "none"
DataError(b) ==
  \/ b.non_modal \in {"G10", "G92"} /\ AxisWords(b) = {}
  \/ /\ b.non_modal = "G10"
     /\ \/ ~Has(b, "P") /\ ~Has(b, "L")
        \/ Val(b, "P") > 6
        \/ Val(b, "L") \notin {2, 20}
        \/ Val(b, "L") = 2 /\ Has(b, "R")
  \/ b.non_modal = "G53" /\ b.modal.motion \notin {"G0", "G1"}

\* What G10 stores; where G28 and G30 end.
Tlo(gc, a) == IF a = TOOL_LENGTH_OFFSET_AXIS THEN gc.tool_length_offset ELSE 0
Data(b, gc, stored) ==
  [a \in Axes |->
     LET old == stored[DataRecord(b)].value[a]
     IN CASE b.non_modal = "G10" ->
               (CASE a \notin AxisWords(b) -> old
                  [] a \in AxisWords(b) /\ Val(b, "L") = 20 ->
                       gc.position[a] - gc.coord_offset[a] - InMm(b, b.value[a]) - Tlo(gc, a)
                  [] OTHER -> InMm(b, b.value[a]))
          [] OTHER -> IF AxisWords(b) # {} /\ a \notin AxisWords(b) THEN gc.position[a] ELSE old]

\* gc_block.values.xyz: the target of a motion, the offsets of a G92, or the words as they are,
\* 0 for the missing ones: of a G10, a tool length, and a block without any axis word.
RawTarget(b) == b.non_modal = "G10" \/ Command(b) = "tool_length" \/ AxisWords(b) = {}
Target(b, gc, stored) ==
  [a \in Axes |->
     LET v == InMm(b, Val(b, a))
     IN CASE b.non_modal = "G92" ->
               IF a \in AxisWords(b)
               THEN gc.position[a] - BlockCoord(b, gc, stored)[a] - v - Tlo(gc, a)
               ELSE gc.coord_offset[a]
          [] b.non_modal # "G92" /\ RawTarget(b) -> v
          [] OTHER ->
               IF a \notin AxisWords(b) THEN gc.position[a]
               ELSE IF b.non_modal = "G53" THEN v
               ELSE IF b.modal.distance = "G91" THEN gc.position[a] + v
               ELSE v + BlockCoord(b, gc, stored)[a] + gc.coord_offset[a] + Tlo(gc, a)]

\* An arc: a target in the plane, and a centre that is as far from it as from the start.
Square(n) == n * n
ArcError(b, gc, target) ==
  LET ax == PlaneAxes(b)
      x == target[ax[1]] - gc.position[ax[1]]
      y == target[ax[2]] - gc.position[ax[2]]
      Centre(a) == InMm(b, Val(b, CASE a = "X" -> "I" [] a = "Y" -> "J" [] a = "Z" -> "K"))
      i == Centre(ax[1])
      j == Centre(ax[2])
  IN \/ AxisWords(b) \cap {ax[1], ax[2]} = {}
     \/ /\ Has(b, "R")
        /\ target = gc.position \/ 4 * Square(InMm(b, b.value["R"])) < Square(x) + Square(y)
     \/ /\ ~Has(b, "R")
        /\ \/ {CASE a = "X" -> "I" [] a = "Y" -> "J" [] a = "Z" -> "K" : a \in {ax[1], ax[2]}}
                \cap DOMAIN b.value = {}
           \/ Square(x - i) + Square(y - j) # Square(i) + Square(j)

\* Errors of the motion modes; words that nothing uses; a jog that is more than a motion.
MotionError(b, gc, target) ==
  \/ b.modal.motion = "G80" /\ AxisWords(b) # {}
  \/ /\ Command(b) = "motion" /\ b.modal.motion \notin {"G80", "G0"}
     /\ \/ FeedRate(b, gc) = 0
        \/ b.modal.motion \in Arcs /\ ArcError(b, gc, target)
        \/ b.modal.motion \in Probes /\ (AxisWords(b) = {} \/ target = gc.position)
\* The axis command that is executed: G0, G1, G28 and G30 need axis words.
Executed(b) ==
  IF AxisWords(b) = {} /\ (b.non_modal \in {"G28", "G30"}
                           \/ (Command(b) = "motion" /\ b.modal.motion \in {"G0", "G1"}))
  THEN "none" ELSE Command(b)
UsedLetters(b) ==
  LET arc == Command(b) = "motion" /\ b.modal.motion \in Arcs
  IN {"N", "F", "H"} \cup (IF b.jog THEN {} ELSE {"S", "T"})
       \cup (IF Executed(b) # "none" THEN Axes ELSE {})
       \cup (IF b.non_modal = "G4" THEN {"P"} ELSE {})
       \cup (IF b.non_modal = "G10" THEN {"L", "P"} ELSE {})
       \cup (IF arc /\ Has(b, "R") THEN {"R"} ELSE {})
       \cup (IF arc /\ ~Has(b, "R") THEN {"I", "J", "K"} ELSE {})
LateError(b, gc, target) ==
  \/ MotionError(b, gc, target)
  \/ DOMAIN b.value \ UsedLetters(b) # {}
  \/ b.jog /\ (b.groups \ {"G0", "G3", "G6"} # {} \/ b.non_modal \notin {"none", "G53"})

\* What becomes of the block: "ok", "error", or the stored record that cannot be read.
Verdict(b, gc, stored) ==
  LET Bad(r) == ~stored[r].ok
  IN CASE EarlyError(b) -> "error"
       [] ~EarlyError(b) /\ SelectsCoord(b, gc) /\ Bad(b.modal.coord_select) -> b.modal.coord_select
       [] OTHER ->
            IF DataError(b) THEN "error"
            ELSE IF DataRecord(b) # "none" /\ Bad(DataRecord(b)) THEN DataRecord(b)
            ELSE IF LateError(b, gc, Target(b, gc, stored)) THEN "error" ELSE "ok"
=============================================================================
