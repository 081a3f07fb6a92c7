----------------------------- MODULE Overrides -----------------------------
(***************************************************************************)
(* The feed, rapid, spindle and dwell overrides: the flags the serial      *)
(* interrupt posts, the values protocol_exec_rt_system() makes of them     *)
(* (protocol.c), and the counters with which report_realtime_status()      *)
(* decides what a status report includes (report.c).                       *)
(*                                                                         *)
(* The main program copies a byte of flags, then clears the whole byte and *)
(* applies the copy: a flag posted between the two is lost.                *)
(***************************************************************************)
EXTENDS Naturals

CONSTANTS
  Limits,       \* per override: its Default, Max, Min, Coarse, Fine (config.h) and 2^width
  OvrRefresh,   \* REPORT_OVR_REFRESH_BUSY_COUNT and _IDLE_COUNT
  WcoRefresh    \* REPORT_WCO_REFRESH_BUSY_COUNT and _IDLE_COUNT

Stepped  == {"feed", "spindle", "dwell"}
FlagBytes == {"motion", "accessory", "dwell"}
Kinds(byte) == CASE byte = "motion" -> {"feed", "rapid"}
                 [] byte = "accessory" -> {"spindle"}
                 [] byte = "dwell" -> {"dwell"}
Steps == {"reset", "coarse+", "coarse-", "fine+", "fine-"}
OverrideCommands == (Stepped \X Steps) \cup ({"rapid"} \X {"reset", "medium", "low"})
Rapid == {100, 50, 25}    \* DEFAULT_RAPID_OVERRIDE, RAPID_OVERRIDE_MEDIUM, RAPID_OVERRIDE_LOW

\* As in config.h: the upper limit leaves room for the increments, and one coarse decrement
\* at the lower limit does not wrap.
ASSUME OverrideAssumption ==
  /\ \A k \in Stepped : LET l == Limits[k] IN
       /\ {l.Default, l.Max, l.Min, l.Coarse, l.Fine, l.Width} \subseteq Nat \ {0}
       /\ l.Min <= l.Default /\ l.Default <= l.Max /\ l.Max + l.Coarse + l.Fine < l.Width
       /\ l.Fine <= l.Coarse /\ l.Coarse <= l.Min
  /\ OvrRefresh \subseteq 1..255 /\ OvrRefresh # {} /\ WcoRefresh \subseteq 2..255 /\ WcoRefresh # {}

VARIABLES
  override,              \* sys.f_override, sys.r_override, sys.spindle_speed_ovr, sys.d_override
  posted, copy,          \* sys_rt_exec_*_override, the main program's copy of one of them
  report_ovr_counter, report_wco_counter,
  reported               \* the overrides as last printed
ovrValues == <<override, report_ovr_counter, report_wco_counter, reported>>
ovrVars == <<ovrValues, posted, copy>>

Defaults == [k \in Stepped \cup {"rapid"} |-> IF k = "rapid" THEN 100 ELSE Limits[k].Default]

\* One batch of flags for override k, in unsigned arithmetic, limited afterwards.
SteppedValue(k, cmds) ==
  LET l == Limits[k]
      from == IF "reset" \in cmds THEN l.Default ELSE override[k]
      Inc(cmd, n) == IF cmd \in cmds THEN n ELSE 0
      sum == (from + Inc("coarse+", l.Coarse) + Inc("fine+", l.Fine) + l.Width
                - Inc("coarse-", l.Coarse) - Inc("fine-", l.Fine)) % l.Width
  IN [sum |-> sum, limit |-> l]
ValueNoMin(k, cmds) ==                                   \* mutant
  LET v == SteppedValue(k, cmds) IN IF v.sum > v.limit.Max THEN v.limit.Max ELSE v.sum
Value(k, cmds) ==
  LET v == SteppedValue(k, cmds)
  IN CASE v.sum > v.limit.Max -> v.limit.Max
       [] v.sum < v.limit.Min -> v.limit.Min
       [] OTHER -> v.sum
RapidValue(cmds) ==
  CASE "low" \in cmds -> 25
    [] "low" \notin cmds /\ "medium" \in cmds -> 50
    [] cmds = {"reset"} -> 100
    [] OTHER -> override["rapid"]
Applied(flags) ==
  [k \in DOMAIN override |->
     LET cmds == {c[2] : c \in {f \in flags : f[1] = k}}
     IN IF k = "rapid" THEN RapidValue(cmds) ELSE Value(k, cmds)]

\* The serial interrupt.
Post(cmd) == posted' = posted \cup {cmd} /\ UNCHANGED <<ovrValues, copy>>

\* One byte of flags is copied; then it is cleared and the copy applied.
OfByte(byte) == {f \in posted : f[1] \in Kinds(byte)}
CopyFlags(byte) == copy' = OfByte(byte) /\ UNCHANGED <<ovrValues, posted>>
ApplySilently(byte) ==                                   \* mutant
  /\ posted' = posted \ OfByte(byte) /\ copy' = {}
  /\ override' = Applied(copy)
  /\ report_ovr_counter' = IF override'["rapid"] # override["rapid"] THEN 0 ELSE report_ovr_counter
  /\ UNCHANGED <<report_wco_counter, reported>>
ApplyFlags(byte) ==
  /\ posted' = posted \ OfByte(byte) /\ copy' = {}
  /\ override' = Applied(copy)
  /\ report_ovr_counter' = IF override' # override THEN 0 ELSE report_ovr_counter
  /\ UNCHANGED <<report_wco_counter, reported>>

\* The counters' part of report_realtime_status(): offsets when due, and then the overrides in
\* the next report; else the overrides when due.
Report ==
  LET due == report_wco_counter = 0
      counter == IF due /\ report_ovr_counter = 0 THEN 1 ELSE report_ovr_counter
  IN /\ IF due THEN \E n \in WcoRefresh : report_wco_counter' = n - 1
               ELSE report_wco_counter' = report_wco_counter - 1
     /\ IF counter > 0
        THEN report_ovr_counter' = counter - 1 /\ UNCHANGED reported
        ELSE (\E n \in OvrRefresh : report_ovr_counter' = n - 1) /\ reported' = override
     /\ UNCHANGED <<override, posted, copy>>

\* The re-initialization in main().
ResetOverrides ==
  /\ override' = Defaults /\ posted' = {} /\ copy' = {}
  /\ report_ovr_counter' = 0 /\ report_wco_counter' = 0 /\ UNCHANGED reported

InitOverrides ==
  /\ override = Defaults /\ posted = {} /\ copy = {}
  /\ report_ovr_counter = 0 /\ report_wco_counter = 0 /\ reported = Defaults

-----------------------------------------------------------------------------
\* Properties.

\* A host that reads the status reports knows the overrides: a value that is not the last one
\* printed is printed by the next report, or the one after it when that one has the offsets
\* (config.h:296, report.c:597).
OverridesReported == reported # override => report_ovr_counter = 0

\* Nothing raises an override that the operator lowers, but the wrap of the unsigned value:
\* a coarse and a fine decrement in one batch at the lower limit give the upper limit
\* (protocol.c:417).
WrapsDown(k) == /\ {<<k, "coarse-">>, <<k, "fine-">>} \subseteq copy
                /\ override[k] < Limits[k].Coarse + Limits[k].Fine
RaisedOnlyWhenAsked ==
  [][\A k \in Stepped : override'[k] > override[k]
       => \/ {<<k, "coarse+">>, <<k, "fine+">>, <<k, "reset">>} \cap copy # {}
          \/ WrapsDown(k)
          \/ override' = Defaults]_override
=============================================================================
