--------------------------- MODULE HostLink_proofs ---------------------------
(***************************************************************************)
(* Every step of the serial link is a step of its rings, so that what is   *)
(* proved of the rings holds for the main program, the host and the        *)
(* interrupts of HostLink.  The overrides: for all limits with the         *)
(* relations of config.h, they are reported, stay in their range and are   *)
(* raised only when asked.  And the stream: for every buffer size and all  *)
(* line lengths that fit, with resets and status requests at any time, no  *)
(* character of a host that counts them is dropped, and every line it      *)
(* sends is answered exactly once.                                         *)
(*                                                                         *)
(* The account the host keeps - where its lines end - is related to what   *)
(* is in the receive ring and on the way back.  A reset makes it void; it  *)
(* is good again when the welcome message arrives, and Phase says why no   *)
(* answer to an old line can follow that message.                          *)
(***************************************************************************)
EXTENDS HostLink, SerialRings_proofs, FiniteSetTheorems, FunctionTheorems

LEMMA LinkInitRefines == LinkInit => Init
  BY DEF LinkInit

LEMMA MainRefines == Main => [Next]_ringVars
  <1> USE DEF ringVars
  <1>0. "ok" \in TxByte /\ "report" \in TxByte /\ "welcome" \in TxByte
    BY LinkAssumption
  <1>1. CASE ReadChar
    BY <1>1 DEF ReadChar, Next, Receive
  <1>2. CASE AnswerLine
    BY <1>0, <1>2 DEF AnswerLine, At, Next, Write
  <1>3. CASE ExecFlags
    <2>1. CASE exec_reset
      BY <1>3, <2>1 DEF ExecFlags
    <2>2. CASE ~exec_reset /\ exec_status
      BY <1>0, <1>3, <2>2 DEF ExecFlags, At, Next, Write
    <2>3. CASE ~exec_reset /\ ~exec_status
      BY <1>3, <2>3 DEF ExecFlags
    <2>4. QED
      BY <2>1, <2>2, <2>3
  <1>4. CASE Boot
    BY <1>4 DEF Boot, Next, Reset
  <1>5. CASE BootFlush
    BY <1>5 DEF BootFlush, Next, Receive
  <1>6. CASE BootWelcome
    BY <1>0, <1>6 DEF BootWelcome, At, Next, Write
  <1>7. CASE Serve
    BY <1>7 DEF Serve, Next
  <1>8. CASE ReadEmpty \/ ExecuteLine \/ ReportWritten \/ ReadOverrides \/ ApplyOverrides
             \/ OverridesDone
    BY <1>8 DEF ReadEmpty, ExecuteLine, ReportWritten, ReadOverrides, ApplyOverrides, OverridesDone
  <1>9. QED
    BY <1>1, <1>2, <1>3, <1>4, <1>5, <1>6, <1>7, <1>8 DEF Main

LEMMA HostRefines == Host \/ Uart => [Next]_ringVars
  <1> USE DEF ringVars
  <1>1. CASE BeginLine
    BY <1>1 DEF BeginLine
  <1>2. CASE ReceiveChar
    <2>1. "eol" \in RxByte /\ "char" \in RxByte
      BY LinkAssumption
    <2>2. QED
      BY <1>2, <2>1 DEF ReceiveChar, Next, Receive
  <1>3. CASE ReceiveCommand
    BY <1>3 DEF ReceiveCommand, Next, Reset
  <1>4. CASE Uart
    BY <1>4 DEF Uart, TransmitIsr, HostReceives, Next
  <1>5. QED
    BY <1>1, <1>2, <1>3, <1>4 DEF Host

\* The host, the interrupts and the main program together use the rings as SerialRings says.
LEMMA LinkRefines == LinkSpec => Spec
  <1>1. [LinkNext]_vars => [Next]_ringVars
    BY MainRefines, HostRefines DEF LinkNext, vars
  <1>2. QED
    BY <1>1, LinkInitRefines, PTL DEF LinkSpec, Spec

\* With any host and any main program state, the transmit interrupt is never enabled on an
\* empty ring.
THEOREM LinkTransmitTheorem == LinkSpec => []TransmitSafe
  BY LinkRefines, TransmitTheorem, PTL

\* With any host, both rings are bounded queues.
THEOREM LinkQueueTheorem == LinkSpec => RingsAreQueues
  BY LinkRefines, QueueTheorem, PTL

-----------------------------------------------------------------------------
\* The overrides.

\* The steps of the link touch the overrides in five ways only.
LEMMA OverridesSteps ==
  ASSUME [LinkNext]_vars
  PROVE  \/ UNCHANGED ovrVars
         \/ \E c \in OverrideCommands : Post(c)
         \/ \E byte \in FlagBytes : CopyFlags(byte) \/ ApplyFlags(byte)
         \/ Report \/ ResetOverrides
  <1> USE DEF ovrVars, ovrValues
  <1>1. CASE Main
    <2>1. CASE ReadChar \/ ReadEmpty \/ ExecuteLine \/ AnswerLine \/ ReportWritten \/ OverridesDone
               \/ BootFlush \/ BootWelcome \/ Serve
      BY <2>1 DEF ReadChar, ReadEmpty, ExecuteLine, AnswerLine, ReportWritten, OverridesDone, BootFlush,
           BootWelcome, Serve
    <2>2. CASE ExecFlags
      BY <2>2 DEF ExecFlags
    <2>3. CASE ReadOverrides \/ ApplyOverrides \/ Boot
      BY <2>3 DEF ReadOverrides, ApplyOverrides, Boot
    <2>4. QED
      BY <1>1, <2>1, <2>2, <2>3 DEF Main
  <1>2. CASE Host
    BY <1>2, LinkAssumption DEF Host, BeginLine, ReceiveChar, ReceiveCommand
  <1>3. CASE Uart \/ UNCHANGED vars
    BY <1>3 DEF Uart, TransmitIsr, HostReceives, vars
  <1>4. QED
    BY <1>1, <1>2, <1>3 DEF LinkNext

\* Every step keeps the host informed of the overrides.
LEMMA ReportedStep == ASSUME OverridesReported, [LinkNext]_vars PROVE OverridesReported'
  <1> USE DEF OverridesReported, ovrVars, ovrValues
  <1>1. CASE Report
    BY <1>1 DEF Report
  <1>2. CASE \E byte \in FlagBytes : CopyFlags(byte) \/ ApplyFlags(byte)
    BY <1>2 DEF CopyFlags, ApplyFlags
  <1>3. CASE UNCHANGED ovrVars \/ ResetOverrides \/ \E c \in OverrideCommands : Post(c)
    BY <1>3 DEF ResetOverrides, Post
  <1>4. QED
    BY <1>1, <1>2, <1>3, OverridesSteps

\* With any host, a value that is not the last one printed is printed by the next report that has
\* overrides (report.c:597).
THEOREM ReportedTheorem == LinkSpec => []OverridesReported
  <1>1. LinkInit => OverridesReported
    BY DEF LinkInit, InitOverrides, OverridesReported
  <1>2. QED
    BY <1>1, ReportedStep, PTL DEF LinkSpec

\* The wrap of the unsigned value.
LEMMA Wrapped ==
  ASSUME NEW w \in Nat \ {0}, NEW x \in Nat, x < w PROVE (x + w) % w = x
  OBVIOUS

\* The overrides are in the range of config.h, however the commands of a batch combine.
OverridesInRange ==
  /\ override \in [Stepped \cup {"rapid"} -> Nat]
  /\ \A k \in Stepped : Limits[k].Min <= override[k] /\ override[k] <= Limits[k].Max
\* The inductive invariant: the range, and what a batch can hold.
RangeInv ==
  /\ OverridesInRange
  /\ posted \subseteq OverrideCommands /\ copy \subseteq OverrideCommands

\* The limits, one fact each.
LEMMA LimitFacts ==
  ASSUME NEW k \in Stepped
  PROVE  /\ Limits[k].Default \in Nat /\ Limits[k].Max \in Nat /\ Limits[k].Min \in Nat
         /\ Limits[k].Coarse \in Nat /\ Limits[k].Fine \in Nat /\ Limits[k].Width \in Nat \ {0}
         /\ Limits[k].Min <= Limits[k].Default /\ Limits[k].Default <= Limits[k].Max
         /\ Limits[k].Max + Limits[k].Coarse + Limits[k].Fine < Limits[k].Width
         /\ Limits[k].Fine <= Limits[k].Coarse /\ Limits[k].Coarse <= Limits[k].Min
  BY OverrideAssumption

\* A batch gives a value in the range ...
LEMMA ValueInRange ==
  ASSUME NEW k \in Stepped, NEW cmds, OverridesInRange
  PROVE  Value(k, cmds) \in Nat /\ Limits[k].Min <= Value(k, cmds) /\ Value(k, cmds) <= Limits[k].Max
  <1> DEFINE sum == SteppedValue(k, cmds).sum
             l == Limits[k]
  <1>1. Value(k, cmds) = CASE sum > l.Max -> l.Max [] sum < l.Min -> l.Min [] OTHER -> sum
    BY DEF Value, SteppedValue
  <1>2. sum \in Nat
    <2> DEFINE from == IF "reset" \in cmds THEN l.Default ELSE override[k]
               Inc(cmd, n) == IF cmd \in cmds THEN n ELSE 0
    <2>1. from \in Nat
      BY LimitFacts DEF OverridesInRange
    <2>2. from + Inc("coarse+", l.Coarse) + Inc("fine+", l.Fine) + l.Width
                  - Inc("coarse-", l.Coarse) - Inc("fine-", l.Fine) \in Nat
      BY <2>1, LimitFacts
    <2>3. QED
      BY <2>2, LimitFacts DEF SteppedValue
  <1>3. QED
    BY <1>1, <1>2, LimitFacts

\* ... not above the old one unless it has an increment or a reset, or wraps.
LEMMA ValueRaised ==
  ASSUME NEW k \in Stepped, NEW cmds, OverridesInRange,
         {"coarse+", "fine+", "reset"} \cap cmds = {},
         ~({"coarse-", "fine-"} \subseteq cmds /\ override[k] < Limits[k].Coarse + Limits[k].Fine)
  PROVE  Value(k, cmds) <= override[k]
  <1> DEFINE sum == SteppedValue(k, cmds).sum
             l == Limits[k]
             Dec(cmd, n) == IF cmd \in cmds THEN n ELSE 0
             down == Dec("coarse-", l.Coarse) + Dec("fine-", l.Fine)
  <1>0. override[k] \in Nat /\ l.Min <= override[k] /\ override[k] <= l.Max
    BY DEF OverridesInRange
  <1>1. down \in Nat /\ down <= override[k]
    BY <1>0, LimitFacts
  <1>2. sum = (override[k] + 0 + 0 + l.Width
                 - Dec("coarse-", l.Coarse) - Dec("fine-", l.Fine)) % l.Width
    BY DEF SteppedValue
  <1>3. sum = ((override[k] - down) + l.Width) % l.Width
    BY <1>0, <1>1, <1>2, LimitFacts
  <1>4. override[k] - down \in Nat /\ override[k] - down < l.Width
    BY <1>0, <1>1, LimitFacts
  <1>5. sum = override[k] - down
    BY <1>3, <1>4, Wrapped, LimitFacts
  <1>6. Value(k, cmds) = CASE sum > l.Max -> l.Max [] sum < l.Min -> l.Min [] OTHER -> sum
    BY DEF Value, SteppedValue
  <1>7. QED
    BY <1>0, <1>1, <1>5, <1>6, LimitFacts

\* An override takes its own commands of the batch.
LEMMA AppliedStepped ==
  ASSUME OverridesInRange, NEW k \in Stepped, NEW flags
  PROVE  Applied(flags)[k] = Value(k, {c[2] : c \in {f \in flags : f[1] = k}})
  BY DEF Applied, OverridesInRange, Stepped

\* Every step keeps the range.
LEMMA RangeStep == ASSUME RangeInv, [LinkNext]_vars PROVE RangeInv'
  <1> USE DEF RangeInv, ovrVars, ovrValues
  <1>1. CASE UNCHANGED ovrVars
    BY <1>1 DEF OverridesInRange
  <1>2. CASE \E c \in OverrideCommands : Post(c)
    BY <1>2 DEF Post, OverridesInRange
  <1>3. ASSUME NEW byte \in FlagBytes, CopyFlags(byte) PROVE RangeInv'
    BY <1>3 DEF CopyFlags, OfByte, OverridesInRange
  <1>4. ASSUME NEW byte \in FlagBytes, ApplyFlags(byte) PROVE RangeInv'
    <2>1. override' = Applied(copy) /\ posted' \subseteq posted /\ copy' = {}
      BY <1>4 DEF ApplyFlags
    <2>2. \A k \in Stepped : /\ override'[k] \in Nat
                             /\ Limits[k].Min <= override'[k] /\ override'[k] <= Limits[k].Max
      <3> TAKE k \in Stepped
      <3>1. override'[k] = Value(k, {c[2] : c \in {f \in copy : f[1] = k}})
        BY <2>1, AppliedStepped
      <3>2. QED
        BY <3>1, ValueInRange
    <2>3. override'["rapid"] \in Nat /\ DOMAIN override' = Stepped \cup {"rapid"}
      BY <2>1 DEF Applied, RapidValue, OverridesInRange
    <2>4. override' = [k \in Stepped \cup {"rapid"} |-> override'[k]]
      BY <2>1, <2>3 DEF Applied, OverridesInRange
    <2>5. QED
      BY <2>1, <2>2, <2>3, <2>4 DEF OverridesInRange
  <1>5. CASE Report
    BY <1>5 DEF Report, OverridesInRange
  <1>6. CASE ResetOverrides
    <2>1. override' = Defaults /\ posted' = {} /\ copy' = {}
      BY <1>6 DEF ResetOverrides
    <2>2. QED
      BY <2>1, LimitFacts DEF Defaults, OverridesInRange, Stepped
  <1>7. QED
    BY <1>1, <1>2, <1>3, <1>4, <1>5, <1>6, OverridesSteps

\* No step raises an override that is not asked to.
LEMMA RaisedStep ==
  ASSUME RangeInv, [LinkNext]_vars
  PROVE  [\A k \in Stepped : override'[k] > override[k]
            => \/ {<<k, "coarse+">>, <<k, "fine+">>, <<k, "reset">>} \cap copy # {}
               \/ WrapsDown(k)
               \/ override' = Defaults]_override
  <1> USE DEF ovrVars, ovrValues
  <1>1. CASE \E byte \in FlagBytes : ApplyFlags(byte)
    <2>1. override' = Applied(copy)
      BY <1>1 DEF ApplyFlags
    <2> SUFFICES ASSUME NEW k \in Stepped, ~WrapsDown(k),
                        {<<k, "coarse+">>, <<k, "fine+">>, <<k, "reset">>} \cap copy = {}
                 PROVE  ~(override'[k] > override[k])
      OBVIOUS
    <2> DEFINE cmds == {c[2] : c \in {f \in copy : f[1] = k}}
    <2>2. \A s : s \in cmds => <<k, s>> \in copy
      BY DEF RangeInv, OverrideCommands, Stepped, Steps
    <2>3. Value(k, cmds) <= override[k]
      <3> HIDE DEF cmds
      <3>1. {"coarse+", "fine+", "reset"} \cap cmds = {}
        BY <2>2
      <3>2. ~({"coarse-", "fine-"} \subseteq cmds /\ override[k] < Limits[k].Coarse + Limits[k].Fine)
        BY <2>2 DEF WrapsDown
      <3>3. QED
        BY <3>1, <3>2, ValueRaised DEF RangeInv
    <2>4. override'[k] = Value(k, cmds) /\ Value(k, cmds) \in Nat /\ override[k] \in Nat
      BY <2>1, AppliedStepped, ValueInRange DEF RangeInv, OverridesInRange
    <2>5. QED
      BY <2>3, <2>4
  <1>2. CASE ResetOverrides
    BY <1>2 DEF ResetOverrides
  <1>3. CASE override' = override
    BY <1>3
  <1>4. QED
    BY <1>1, <1>2, <1>3, OverridesSteps DEF Post, CopyFlags, Report

\* With any host, every override stays between its MIN_ and MAX_ of config.h, although the flags
\* of one batch are summed in unsigned arithmetic before the limits are applied (protocol.c:417).
THEOREM RangeTheorem == LinkSpec => []OverridesInRange
  <1>1. LinkInit => RangeInv
    BY LimitFacts DEF LinkInit, InitOverrides, RangeInv, OverridesInRange, Defaults, Stepped
  <1>2. RangeInv => OverridesInRange
    BY DEF RangeInv
  <1>3. QED
    BY <1>1, <1>2, RangeStep, PTL DEF LinkSpec

\* With any host, an override goes up only when a batch has an increment or a reset of it, when
\* the two decrements of a batch wrap, or at a re-initialization.
THEOREM RaisedTheorem == LinkSpec => RaisedOnlyWhenAsked
  <1>1. LinkInit => RangeInv
    BY LimitFacts DEF LinkInit, InitOverrides, RangeInv, OverridesInRange, Defaults, Stepped
  <1>2. QED
    BY <1>1, RangeStep, RaisedStep, PTL DEF LinkSpec, RaisedOnlyWhenAsked

-----------------------------------------------------------------------------
\* Where a byte occurs in a sequence, and how often.

Positions(s, b) == {i \in DOMAIN s : s[i] = b}

\* They are finitely many, and none when the byte does not occur.
LEMMA PositionsFinite ==
  ASSUME NEW S, NEW s \in Seq(S), NEW b
  PROVE  /\ IsFiniteSet(Positions(s, b)) /\ Cardinality(Positions(s, b)) \in Nat
         /\ Cardinality(Positions(s, b)) = 0 <=> \A i \in 1..Len(s) : s[i] # b
  <1>1. DOMAIN s = 1..Len(s) /\ Len(s) \in Nat
    BY LenProperties
  <1>2. IsFiniteSet(1..Len(s))
    BY <1>1, FS_Interval
  <1>3. IsFiniteSet(Positions(s, b))
    BY <1>1, <1>2, FS_Subset DEF Positions
  <1>4. Cardinality(Positions(s, b)) \in Nat
    BY <1>3, FS_CardinalityType
  <1>5. Cardinality(Positions(s, b)) = 0 <=> Positions(s, b) = {}
    BY <1>3, FS_EmptySet
  <1>6. QED
    BY <1>1, <1>3, <1>4, <1>5 DEF Positions

\* An element more at the end ...
LEMMA PositionsAppend ==
  ASSUME NEW S, NEW s \in Seq(S), NEW e \in S, NEW b
  PROVE  Cardinality(Positions(Append(s, e), b)) = Cardinality(Positions(s, b)) + One(e = b)
  <1> DEFINE t == Append(s, e)
             n == Len(s)
  <1>1. n \in Nat /\ DOMAIN s = 1..n /\ DOMAIN t = 1..(n + 1) /\ t[n + 1] = e
        /\ \A i \in 1..n : t[i] = s[i]
    BY AppendProperties, LenProperties
  <1> HIDE DEF t, n
  <1>2. Positions(t, b) = IF e = b THEN Positions(s, b) \cup {n + 1} ELSE Positions(s, b)
    BY <1>1 DEF Positions
  <1>3. n + 1 \notin Positions(s, b)
    BY <1>1 DEF Positions
  <1>4. IsFiniteSet(Positions(s, b)) /\ Cardinality(Positions(s, b)) \in Nat
    BY PositionsFinite
  <1>5. Cardinality(Positions(s, b) \cup {n + 1}) = Cardinality(Positions(s, b)) + 1
    BY <1>3, <1>4, FS_AddElement
  <1>6. QED
    BY <1>2, <1>4, <1>5 DEF One, t

\* ... and one less at the front.
LEMMA PositionsTail ==
  ASSUME NEW S, NEW s \in Seq(S), s # <<>>, NEW b
  PROVE  Cardinality(Positions(s, b)) = Cardinality(Positions(Tail(s), b)) + One(Head(s) = b)
  <1> DEFINE t == Tail(s)
             n == Len(s)
             P == Positions(s, b) \ {1}
             Q == Positions(t, b)
             shift == [i \in P |-> i - 1]
  <1>1. n \in Nat \ {0} /\ DOMAIN s = 1..n /\ DOMAIN t = 1..(n - 1) /\ Head(s) = s[1]
        /\ \A i \in 1..(n - 1) : t[i] = s[i + 1]
    BY HeadTailProperties, LenProperties, EmptySeq
  <1>2. IsFiniteSet(Positions(s, b)) /\ Cardinality(Positions(s, b)) \in Nat
    BY PositionsFinite
  <1>3. IsFiniteSet(P)
        /\ Cardinality(P) = IF 1 \in Positions(s, b) THEN Cardinality(Positions(s, b)) - 1
                                                     ELSE Cardinality(Positions(s, b))
    BY <1>2, FS_RemoveElement
  <1>4. 1 \in Positions(s, b) <=> Head(s) = b
    BY <1>1 DEF Positions
  <1>5. shift \in Bijection(P, Q)
    <2> HIDE DEF t, n
    <2>1. P \subseteq Int
      BY <1>1 DEF Positions
    <2>2. \A i \in P : i - 1 \in Q
      BY <1>1 DEF Positions
    <2>3. shift \in [P -> Q]
      BY <2>2
    <2>4. \A i, j \in P : shift[i] = shift[j] => i = j
      BY <2>1
    <2>5. ASSUME NEW j \in Q PROVE j + 1 \in P /\ shift[j + 1] = j
      BY <1>1 DEF Positions
    <2>6. \A j \in Q : \E i \in P : shift[i] = j
      BY <2>5
    <2> HIDE DEF P, Q, shift
    <2>7. QED
      BY <2>3, <2>4, <2>6, Fun_IsBij
  <1> HIDE DEF P, Q, shift
  <1>6. Cardinality(Q) = Cardinality(P)
    BY <1>3, <1>5, FS_Bijection DEF ExistsBijection
  <1>7. QED
    BY <1>2, <1>3, <1>4, <1>6 DEF One, Q

-----------------------------------------------------------------------------
\* The host's account of the stream, of plain values: f where its lines end, u the characters
\* left of the one it is sending, rx the receive ring, g the lines that have been taken out of
\* it and whose answer has not arrived.

Total(f) == IF f = <<>> THEN 0 ELSE f[Len(f)]
Read(f, u, rx) == Total(f) - u - Len(rx)    \* the characters the program has read

\* Each line ends after the one before it, within the ring's size.
Ascending(f) ==
  /\ \A j \in DOMAIN f : f[j] \in 1..RX_BUFFER_SIZE
  /\ \A i, j \in DOMAIN f : i < j => f[i] < f[j]
\* The lines that have been taken are those that end where the program has read; all but the
\* last have arrived.
Located(f, u, rx, g) ==
  /\ Read(f, u, rx) \in Nat
  /\ \A j \in DOMAIN f : j <= g <=> f[j] <= Read(f, u, rx)
  /\ \A j \in DOMAIN f : j # Len(f) => f[j] <= Total(f) - u
\* The ends of line in the ring are those of the host.
Ended(f, u, rx) ==
  \A i \in DOMAIN rx : rx[i] = "eol" <=> \E j \in DOMAIN f : f[j] = Read(f, u, rx) + i
\* Every line is being sent, in the ring, or taken.
AllThere(f, u, rx, g) == Len(f) = One(u > 0) + Ends(rx) + g
Account(f, u, rx, g) ==
  Ascending(f) /\ Located(f, u, rx, g) /\ Ended(f, u, rx) /\ AllThere(f, u, rx, g)

\* The counts of HostLink are such numbers.
LEMMA EndsPositions == \A s : Ends(s) = Cardinality(Positions(s, "eol"))
  BY DEF Ends, Positions
LEMMA OksPositions == \A s : Oks(s) = Cardinality(Positions(s, "ok"))
  BY DEF Oks, Positions
LEMMA OksAppend ==
  ASSUME NEW s \in Seq(TxByte), NEW b \in TxByte
  PROVE  Oks(s) \in Nat /\ Oks(Append(s, b)) = IF b = "ok" THEN Oks(s) + 1 ELSE Oks(s)
  <1>1. Oks(s) \in Nat
    BY PositionsFinite, OksPositions
  <1>2. Oks(Append(s, b)) = Oks(s) + One(b = "ok")
    BY PositionsAppend, OksPositions
  <1>3. QED
    BY <1>1, <1>2 DEF One

\* Nothing sent: nothing is due.
LEMMA AccountNothing ==
  ASSUME NEW rx, rx = <<>>
  PROVE  Account(<<>>, 0, rx, 0)
  <1>1. rx \in Seq(RxByte) /\ Len(rx) = 0
    BY EmptySeq
  <1>2. Ends(rx) = 0
    <2>1. \A i \in 1..Len(rx) : rx[i] # "eol"
      BY <1>1
    <2>2. Cardinality(Positions(rx, "eol")) = 0
      BY ZenonT(60), <1>1, <2>1, PositionsFinite
    <2>3. QED
      BY <2>2, EndsPositions
  <1>3. QED
    BY <1>1, <1>2 DEF Account, Ascending, Located, Ended, AllThere, Read, Total, One

\* The account without its sequences' internals.
LEMMA AccountFacts ==
  ASSUME NEW f \in Seq(Nat), NEW u \in Nat, NEW rx \in Seq(RxByte), NEW g \in Nat,
         Account(f, u, rx, g)
  PROVE  /\ Len(f) \in Nat /\ DOMAIN f = 1..Len(f) /\ Len(rx) \in Nat /\ DOMAIN rx = 1..Len(rx)
         /\ Ends(rx) \in Nat /\ Len(f) = One(u > 0) + Ends(rx) + g
         /\ IF f = <<>> THEN Len(f) = 0 /\ Total(f) = 0 ELSE Len(f) > 0 /\ Total(f) = f[Len(f)]
         /\ Total(f) \in 0..RX_BUFFER_SIZE
         /\ Read(f, u, rx) \in Nat /\ Read(f, u, rx) + u + Len(rx) = Total(f)
         /\ \A j \in 1..Len(f) : f[j] \in 1..RX_BUFFER_SIZE /\ f[j] <= Total(f)
         /\ \A i, j \in 1..Len(f) : i < j => f[i] < f[j]
         /\ \A j \in 1..Len(f) : j <= g <=> f[j] <= Read(f, u, rx)
         /\ \A j \in 1..Len(f) : j # Len(f) => f[j] <= Read(f, u, rx) + Len(rx)
         /\ \A i \in 1..Len(rx) : rx[i] = "eol" <=> \E j \in 1..Len(f) : f[j] = Read(f, u, rx) + i
  <1> DEFINE n == Len(f)
             L == Len(rx)
             c == Total(f)
             r == Read(f, u, rx)
  <1>1. /\ n \in Nat /\ DOMAIN f = 1..n /\ L \in Nat /\ DOMAIN rx = 1..L /\ RX_BUFFER_SIZE \in Nat
        /\ IF f = <<>> THEN n = 0 ELSE n > 0
    BY RingAssumption, LenProperties, EmptySeq
  <1>2. Ends(rx) \in Nat
    BY PositionsFinite, EndsPositions
  <1>3. /\ n = One(u > 0) + Ends(rx) + g /\ r \in Nat /\ r = c - u - L
        /\ c = IF f = <<>> THEN 0 ELSE f[n]
    BY DEF Account, AllThere, Located, Read, Total
  <1>4. /\ \A j \in 1..n : f[j] \in 1..RX_BUFFER_SIZE
        /\ \A i, j \in 1..n : i < j => f[i] < f[j]
        /\ \A j \in 1..n : j <= g <=> f[j] <= r
        /\ \A j \in 1..n : j # n => f[j] <= c - u
        /\ \A i \in 1..L : rx[i] = "eol" <=> \E j \in 1..n : f[j] = r + i
    BY ZenonT(60), <1>1 DEF Account, Ascending, Located, Ended
  <1> HIDE DEF n, L, c, r
  <1>5. c \in 0..RX_BUFFER_SIZE /\ (f # <<>> => c = f[n])
    BY <1>1, <1>3, <1>4
  <1>6. ASSUME NEW j \in 1..n PROVE f[j] <= c
    <2>1. n > 0 /\ c = f[n] /\ n \in 1..n
      BY <1>1, <1>3
    <2>2. CASE j = n
      BY <2>1, <2>2, <1>5
    <2>3. CASE j < n
      BY <2>1, <2>3, <1>1, <1>4
    <2>4. QED
      BY <2>2, <2>3, <1>1
  <1>7. r + u + L = c /\ c - u = r + L
    BY SMTT(60), <1>1, <1>3, <1>5
  <1>8. QED
    BY <1>1, <1>2, <1>3, <1>4, <1>5, <1>6, <1>7 DEF n, L, c, r

\* What has not been read fits the ring.
LEMMA AccountFits ==
  ASSUME NEW f \in Seq(Nat), NEW u \in Nat, NEW rx \in Seq(RxByte), NEW g \in Nat,
         Account(f, u, rx, g)
  PROVE  u + Len(rx) <= RX_BUFFER_SIZE
  BY AccountFacts, RingAssumption

\* The host begins a line of m characters.
LEMMA AccountBegin ==
  ASSUME NEW f \in Seq(Nat), NEW rx \in Seq(RxByte), NEW g \in Nat, Account(f, 0, rx, g),
         NEW m \in Nat \ {0}, Total(f) + m <= RX_BUFFER_SIZE
  PROVE  Account(Append(f, Total(f) + m), m, rx, g)
  <1> DEFINE n == Len(f)
             c == Total(f)
             h == Append(f, c + m)
             L == Len(rx)
             r == Read(f, 0, rx)
  <1>0. 0 \in Nat
    OBVIOUS
  <1>1. /\ n \in Nat /\ L \in Nat /\ DOMAIN rx = 1..L /\ Ends(rx) \in Nat /\ n = Ends(rx) + g
        /\ c \in 0..RX_BUFFER_SIZE /\ r \in Nat /\ r + L = c
    BY AccountFacts DEF One
  <1>2. /\ \A j \in 1..n : f[j] \in 1..RX_BUFFER_SIZE /\ f[j] <= c
        /\ \A i, j \in 1..n : i < j => f[i] < f[j]
        /\ \A j \in 1..n : j <= g <=> f[j] <= r
        /\ \A i \in 1..L : rx[i] = "eol" <=> \E j \in 1..n : f[j] = r + i
    BY ZenonT(60), <1>0, AccountFacts
  <1>3. c + m \in Nat /\ RX_BUFFER_SIZE \in Nat
    BY SMTT(60), <1>1, RingAssumption
  <1>4. /\ DOMAIN h = 1..(n + 1) /\ Len(h) = n + 1 /\ h # <<>> /\ h[n + 1] = c + m
        /\ \A j \in 1..n : h[j] = f[j]
    BY SMTT(60), <1>3, AppendProperties, LenProperties
  <1>5. Total(h) = c + m
    BY <1>4 DEF Total
  <1>c. Read(h, m, rx) = Total(h) - m - L /\ r = c - 0 - L
    BY DEF Read
  <1>a. c + m <= RX_BUFFER_SIZE
    OBVIOUS
  <1> HIDE DEF n, c, h, L, r
  <1>d. Read(h, m, rx) = r
    BY <1>1, <1>5, <1>c
  <1>6. \A j \in 1..(n + 1) : j \in 1..n \/ j = n + 1
    BY SMTT(60), <1>1
  <1>7. Ascending(h)
    <2>1. \A j \in 1..(n + 1) : h[j] \in 1..RX_BUFFER_SIZE
      <3>1. h[n + 1] \in 1..RX_BUFFER_SIZE
        BY <1>1, <1>3, <1>4, <1>a
      <3>2. \A j \in 1..n : h[j] \in 1..RX_BUFFER_SIZE
        BY <1>2, <1>4
      <3>3. QED
        BY <3>1, <3>2, <1>6
    <2>2. ASSUME NEW i \in 1..(n + 1), NEW j \in 1..(n + 1), i < j PROVE h[i] < h[j]
      <3>1. i \in 1..n
        BY <2>2, <1>1
      <3>2. CASE j \in 1..n
        BY <3>1, <3>2, <2>2, <1>2, <1>4
      <3>3. CASE j = n + 1
        BY SMTT(60), <3>1, <3>3, <1>1, <1>2, <1>4
      <3>4. QED
        BY <3>2, <3>3, <1>6
    <2>3. QED
      BY <2>1, <2>2, <1>4 DEF Ascending
  <1>8. Located(h, m, rx, g)
    <2>1. ASSUME NEW j \in 1..(n + 1)
          PROVE  (j <= g <=> h[j] <= r) /\ (j # n + 1 => h[j] <= r + L)
      <3>1. CASE j \in 1..n
        BY <3>1, <1>1, <1>2, <1>4
      <3>2. CASE j = n + 1
        BY SMTT(60), <3>2, <1>1, <1>4
      <3>3. QED
        BY <3>1, <3>2, <1>6
    <2>2. Total(h) - m = r + L
      BY <1>1, <1>5
    <2>3. QED
      BY <2>1, <2>2, <1>1, <1>4, <1>d DEF Located
  <1>9. Ended(h, m, rx)
    <2>1. ASSUME NEW i \in 1..L
          PROVE  (\E j \in 1..(n + 1) : h[j] = r + i) <=> \E j \in 1..n : f[j] = r + i
      <3>1. h[n + 1] # r + i
        BY <1>1, <1>4
      <3>2. \A j \in 1..n : j \in 1..(n + 1)
        BY <1>1
      <3>3. QED
        BY ZenonT(60), <3>1, <3>2, <1>4, <1>6
    <2>2. QED
      BY <1>1, <1>2, <1>4, <1>d, <2>1 DEF Ended
  <1>10. AllThere(h, m, rx, g)
    BY <1>1, <1>4 DEF AllThere, One
  <1>11. QED
    BY <1>7, <1>8, <1>9, <1>10 DEF Account, h, c

\* A character of the line arrives.
LEMMA AccountReceive ==
  ASSUME NEW f \in Seq(Nat), NEW u \in Nat \ {0}, NEW rx \in Seq(RxByte), NEW g \in Nat,
         Account(f, u, rx, g), NEW b \in RxByte, b = (IF u = 1 THEN "eol" ELSE "char")
  PROVE  Account(f, u - 1, Append(rx, b), g)
  <1> DEFINE n == Len(f)
             c == Total(f)
             s == Append(rx, b)
             L == Len(rx)
             r == Read(f, u, rx)
  <1>0. u \in Nat
    OBVIOUS
  <1>1. /\ n \in Nat \ {0} /\ DOMAIN f = 1..n /\ L \in Nat /\ DOMAIN rx = 1..L /\ Ends(rx) \in Nat
        /\ n = 1 + Ends(rx) + g /\ c = f[n] /\ c \in Nat /\ r \in Nat /\ r + u + L = c
    BY AccountFacts DEF One
  <1>2. /\ \A j \in 1..n : f[j] \in 1..RX_BUFFER_SIZE
        /\ \A j \in 1..n : j <= g <=> f[j] <= r
        /\ \A j \in 1..n : j # n => f[j] <= r + L
        /\ \A i \in 1..L : rx[i] = "eol" <=> \E j \in 1..n : f[j] = r + i
    BY ZenonT(60), <1>0, AccountFacts
  <1>3. /\ Len(s) = L + 1 /\ DOMAIN s = 1..(L + 1) /\ s[L + 1] = b /\ \A i \in 1..L : s[i] = rx[i]
    BY <1>1, AppendProperties, LenProperties
  <1>4. Ends(s) = Ends(rx) + One(b = "eol")
    BY EndsPositions, PositionsAppend
  <1>a. Read(f, u - 1, s) = c - (u - 1) - Len(s) /\ r = c - u - L
    BY DEF Read
  <1>6. b = "eol" <=> u = 1
    OBVIOUS
  <1> HIDE DEF n, c, s, L, r
  <1>b. Len(s) = L + 1 /\ u \in Nat /\ c \in Nat /\ L \in Nat /\ r + u + L = c
    BY <1>0, <1>1, <1>3
  <1>5. Read(f, u - 1, s) = r /\ c - (u - 1) = r + (L + 1)
    BY <1>a, <1>b
  <1>7. Ascending(f)
    BY DEF Account
  <1>8. Located(f, u - 1, s, g)
    <2>1. \A j \in 1..n : j # n => f[j] <= r + (L + 1)
      BY SMTT(60), <1>1, <1>2
    <2>2. QED
      BY <1>1, <1>2, <1>5, <2>1 DEF Located, n, c
  <1>9. Ended(f, u - 1, s)
    <2>1. (\E j \in 1..n : f[j] = r + (L + 1)) <=> u = 1
      <3>1. u = 1 <=> f[n] = r + (L + 1)
        BY SMTT(60), <1>1
      <3>2. \A j \in 1..n : f[j] = r + (L + 1) => j = n
        BY <1>1, <1>2
      <3>3. QED
        BY SMTT(60), <3>1, <3>2, <1>1
    <2>2. ASSUME NEW i \in 1..(L + 1)
          PROVE  s[i] = "eol" <=> \E j \in 1..n : f[j] = r + i
      <3>1. CASE i = L + 1
        BY <3>1, <1>3, <1>6, <2>1
      <3>2. CASE i \in 1..L
        BY <3>2, <1>2, <1>3
      <3>3. QED
        BY <3>1, <3>2, <1>1
    <2>3. QED
      BY <2>2, <1>1, <1>3, <1>5 DEF Ended
  <1>10. AllThere(f, u - 1, s, g)
    BY <1>1, <1>4, <1>6 DEF AllThere, One, n
  <1>11. QED
    BY <1>7, <1>8, <1>9, <1>10 DEF Account, s

\* The program reads a character; the end of a line takes the line.
LEMMA AccountRead ==
  ASSUME NEW f \in Seq(Nat), NEW u \in Nat, NEW rx \in Seq(RxByte), rx # <<>>, NEW g \in Nat,
         Account(f, u, rx, g)
  PROVE  Account(f, u, Tail(rx), g + One(Head(rx) = "eol"))
  <1> DEFINE n == Len(f)
             c == Total(f)
             s == Tail(rx)
             L == Len(rx)
             r == Read(f, u, rx)
             e == One(Head(rx) = "eol")
  <1>1. /\ n \in Nat /\ DOMAIN f = 1..n /\ L \in Nat /\ DOMAIN rx = 1..L /\ Ends(rx) \in Nat
        /\ n = One(u > 0) + Ends(rx) + g /\ c \in Nat /\ r \in Nat /\ r + u + L = c
    BY AccountFacts
  <1>2. /\ \A j \in 1..n : f[j] \in 1..RX_BUFFER_SIZE
        /\ \A i, j \in 1..n : i < j => f[i] < f[j]
        /\ \A j \in 1..n : j <= g <=> f[j] <= r
        /\ \A j \in 1..n : j # n => f[j] <= r + L
        /\ \A i \in 1..L : rx[i] = "eol" <=> \E j \in 1..n : f[j] = r + i
    BY ZenonT(60), AccountFacts
  <1>3. /\ s \in Seq(RxByte) /\ Len(s) = L - 1 /\ DOMAIN s = 1..(L - 1) /\ Head(rx) = rx[1]
        /\ L > 0 /\ \A i \in 1..(L - 1) : s[i] = rx[i + 1]
    BY <1>1, HeadTailProperties, LenProperties, EmptySeq
  <1>4. Ends(rx) = Ends(s) + e
    BY EndsPositions, PositionsTail
  <1>5. Ends(s) \in Nat /\ e \in Nat /\ One(u > 0) \in Nat
    BY <1>3, PositionsFinite, EndsPositions DEF One
  <1>6. Read(f, u, s) = c - u - Len(s) /\ r = c - u - L
    BY DEF Read
  <1>7. Head(rx) = "eol" <=> \E j \in 1..n : f[j] = r + 1
    <2>1. 1 \in 1..L
      BY <1>1, <1>3
    <2>2. QED
      BY ZenonT(60), <1>2, <1>3, <2>1
  <1>8. e = (IF Head(rx) = "eol" THEN 1 ELSE 0)
    BY DEF One
  <1> HIDE DEF n, c, s, L, r, e
  <1>9. Read(f, u, s) = r + 1 /\ c - u = r + L
    BY <1>1, <1>3, <1>6
  <1>10. Ascending(f)
    BY DEF Account
  <1>11. Located(f, u, s, g + e)
    <2>1. ASSUME NEW j \in 1..n PROVE j <= g + e <=> f[j] <= r + 1
      <3>1. f[j] <= r + 1 <=> f[j] <= r \/ f[j] = r + 1
        BY SMTT(60), <1>1, <1>2
      <3>2. CASE Head(rx) # "eol"
        BY SMTT(60), <3>1, <3>2, <1>1, <1>2, <1>7, <1>8
      <3>3. CASE Head(rx) = "eol"
        <4>1. PICK k \in 1..n : f[k] = r + 1
          BY <3>3, <1>7
        <4>2. ~(k <= g)
          BY <4>1, <1>1, <1>2
        <4>3. g + 1 \in 1..n /\ ~(g + 1 <= g)
          BY <4>2, <1>1
        <4>4. f[g + 1] > r /\ f[g + 1] \in Nat
          BY SMTT(60), <4>3, <1>1, <1>2
        <4>5. ~(g + 1 < k)
          <5>1. g + 1 < k => f[g + 1] < r + 1
            BY <4>1, <4>3, <1>2
          <5>2. QED
            BY SMTT(60), <5>1, <4>4, <1>1
        <4>6. k = g + 1
          BY <4>2, <4>5
        <4>7. f[j] = r + 1 <=> j = k
          BY SMTT(60), <4>1, <1>1, <1>2
        <4>8. QED
          BY <3>1, <3>3, <4>6, <4>7, <1>2, <1>8
      <3>4. QED
        BY <3>2, <3>3
    <2>2. QED
      BY SMTT(60), <2>1, <1>1, <1>2, <1>9 DEF Located, n, c
  <1>12. Ended(f, u, s)
    <2>1. ASSUME NEW i \in 1..(L - 1)
          PROVE  s[i] = "eol" <=> \E j \in 1..n : f[j] = (r + 1) + i
      <3>1. i + 1 \in 1..L /\ (r + 1) + i = r + (i + 1)
        BY <1>1
      <3>2. QED
        BY <3>1, <1>2, <1>3
    <2>2. QED
      BY <2>1, <1>1, <1>3, <1>9 DEF Ended
  <1>13. AllThere(f, u, s, g + e)
    BY <1>1, <1>4, <1>5 DEF AllThere, n
  <1>14. QED
    BY <1>10, <1>11, <1>12, <1>13 DEF Account, s, e

\* The answer to the oldest line arrives: its characters are forgotten.
Forget(f) == [i \in 1..(Len(f) - 1) |-> f[i + 1] - f[1]]
LEMMA AccountAnswered ==
  ASSUME NEW f \in Seq(Nat), NEW u \in Nat, NEW rx \in Seq(RxByte), NEW g \in Nat \ {0},
         Account(f, u, rx, g)
  PROVE  Forget(f) \in Seq(Nat) /\ Account(Forget(f), u, rx, g - 1)
  <1> DEFINE n == Len(f)
             c == Total(f)
             h == Forget(f)
             L == Len(rx)
             r == Read(f, u, rx)
  <1>0. g \in Nat
    OBVIOUS
  <1>1. /\ n \in Nat /\ L \in Nat /\ DOMAIN rx = 1..L /\ Ends(rx) \in Nat
        /\ n = One(u > 0) + Ends(rx) + g /\ c \in Nat /\ r \in Nat /\ r + u + L = c
        /\ (n > 0 => c = f[n])
    BY <1>0, AccountFacts
  <1>2. /\ \A j \in 1..n : f[j] \in 1..RX_BUFFER_SIZE
        /\ \A i, j \in 1..n : i < j => f[i] < f[j]
        /\ \A j \in 1..n : j <= g <=> f[j] <= r
        /\ \A j \in 1..n : j # n => f[j] <= r + L
        /\ \A i \in 1..L : rx[i] = "eol" <=> \E j \in 1..n : f[j] = r + i
    BY ZenonT(60), <1>0, AccountFacts
  <1>3. One(u > 0) \in {0, 1} /\ RX_BUFFER_SIZE \in Nat
    BY RingAssumption DEF One
  <1>4. n > 0 /\ g <= n /\ c = f[n] /\ 1 \in 1..n
    BY SMTT(60), <1>0, <1>1, <1>3
  <1>h. h = [i \in 1..(n - 1) |-> f[i + 1] - f[1]]
    BY DEF Forget
  <1>6r. Read(f, u, rx) = c - u - L /\ Read(h, u, rx) = Total(h) - u - L
    BY DEF Read
  <1> HIDE DEF n, c, h, L, r
  <1> DEFINE p == f[1]
  <1>a. \A j \in 1..n : f[j] \in Nat /\ f[j] <= RX_BUFFER_SIZE /\ f[j] > 0
    BY <1>2, <1>3
  <1>5. p \in Nat /\ p > 0 /\ p <= r /\ r - p \in Nat
    <2>1. p <= r /\ p \in Nat /\ p > 0
      BY <1>2, <1>4, <1>a
    <2>2. QED
      BY <2>1, <1>1
  <1>6. \A i \in 1..(n - 1) : i + 1 \in 1..n /\ f[i + 1] \in Nat /\ h[i] = f[i + 1] - p
    BY SMTT(60), <1>1, <1>a, <1>h
  <1>7. \A i \in 1..(n - 1) : h[i] \in Nat /\ h[i] > 0 /\ h[i] <= RX_BUFFER_SIZE
    <2> TAKE i \in 1..(n - 1)
    <2>1. i + 1 \in 1..n /\ 1 < i + 1
      BY <1>1
    <2>2. p < f[i + 1] /\ f[i + 1] <= RX_BUFFER_SIZE
      BY <2>1, <1>2, <1>4, <1>a
    <2> HIDE DEF p
    <2>3. QED
      BY SMTT(60), <2>2, <1>3, <1>5, <1>6
  <1>8. h \in Seq(Nat) /\ Len(h) = n - 1 /\ DOMAIN h = 1..(n - 1)
    <2>1. n - 1 \in Nat
      BY <1>1, <1>4
    <2>2. h \in [1..(n - 1) -> Nat]
      BY <1>7, <1>h
    <2>3. h \in Seq(Nat) /\ DOMAIN h = 1..(n - 1)
      BY SMTT(60), <2>1, <2>2
    <2>4. QED
      BY <2>1, <2>3, LenProperties
  <1> HIDE DEF p
  <1>9. Total(h) = c - p
    <2>1. CASE n = 1
      <3>1. h = <<>>
        BY <2>1, <1>8, EmptySeq
      <3>2. QED
        BY <2>1, <3>1, <1>4, <1>5 DEF Total, p
    <2>2. CASE n # 1
      <3>1. n - 1 \in 1..(n - 1) /\ (n - 1) + 1 = n
        BY SMTT(60), <2>2, <1>1, <1>4
      <3>2. h # <<>>
        BY <3>1, <1>8, EmptySeq
      <3>3. h[n - 1] = f[(n - 1) + 1] - p
        BY <3>1, <1>6
      <3>4. QED
        BY <3>1, <3>2, <3>3, <1>4, <1>8 DEF Total
    <2>3. QED
      BY <2>1, <2>2
  <1>10. Read(h, u, rx) = r - p /\ Total(h) - u = (r - p) + L
    BY <1>1, <1>5, <1>6r, <1>9
  <1>11. Ascending(h)
    <2>1. ASSUME NEW i \in 1..(n - 1), NEW j \in 1..(n - 1), i < j PROVE h[i] < h[j]
      <3>1. i + 1 \in 1..n /\ j + 1 \in 1..n /\ i + 1 < j + 1
        BY SMTT(60), <2>1, <1>1
      <3>2. f[i + 1] < f[j + 1]
        BY ZenonT(60), <3>1, <1>2
      <3>3. /\ f[i + 1] \in Nat /\ h[i] = f[i + 1] - p
            /\ f[j + 1] \in Nat /\ h[j] = f[j + 1] - p
        BY Zenon, <1>6
      <3>4. \A a \in Nat, b \in Nat, q \in Nat : a < b => a - q < b - q
        OBVIOUS
      <3>5. f[i + 1] - p < f[j + 1] - p
        BY Zenon, <3>2, <3>3, <3>4, <1>5
      <3>6. QED
        BY Zenon, <3>3, <3>5
    <2>2. \A j \in 1..(n - 1) : h[j] \in 1..RX_BUFFER_SIZE
      BY <1>3, <1>7
    <2>3. QED
      BY <2>1, <2>2, <1>8 DEF Ascending
  <1>12. Located(h, u, rx, g - 1)
    <2>1. ASSUME NEW j \in 1..(n - 1)
          PROVE  /\ j <= g - 1 <=> h[j] <= r - p
                 /\ j # n - 1 => h[j] <= (r - p) + L
      <3>1. j + 1 \in 1..n /\ (j + 1 <= g <=> j <= g - 1) /\ (j # n - 1 => j + 1 # n)
        BY SMTT(60), <1>1
      <3>2. (j + 1 <= g <=> f[j + 1] <= r) /\ (j + 1 # n => f[j + 1] <= r + L)
        BY ZenonT(60), <3>1, <1>2
      <3>3. h[j] = f[j + 1] - p /\ f[j + 1] \in Nat
        BY <1>6
      <3>a. \A q \in Nat : (q <= r <=> q - p <= r - p) /\ (q <= r + L => q - p <= (r - p) + L)
        BY <1>1, <1>5
      <3>4. (f[j + 1] <= r <=> h[j] <= r - p) /\ (f[j + 1] <= r + L => h[j] <= (r - p) + L)
        BY ZenonT(60), <3>a, <3>3
      <3>5. QED
        BY <3>1, <3>2, <3>4
    <2>2. QED
      BY <2>1, <1>5, <1>8, <1>10 DEF Located
  <1>13. Ended(h, u, rx)
    <2>1. ASSUME NEW i \in 1..L
          PROVE  (\E j \in 1..n : f[j] = r + i) <=> \E j \in 1..(n - 1) : h[j] = (r - p) + i
      <3>1. ASSUME NEW j \in 1..n, f[j] = r + i
            PROVE  j - 1 \in 1..(n - 1) /\ h[j - 1] = (r - p) + i
        <4>1. j # 1
          BY <3>1, <1>1, <1>5 DEF p
        <4>2. j - 1 \in 1..(n - 1) /\ (j - 1) + 1 = j
          BY <4>1, <1>1
        <4>3. h[j - 1] = f[(j - 1) + 1] - p
          BY <4>2, <1>6
        <4>4. f[j] - p = (r - p) + i
          BY <3>1, <1>1, <1>5
        <4>5. QED
          BY <4>2, <4>3, <4>4
      <3>2. ASSUME NEW j \in 1..(n - 1), h[j] = (r - p) + i
            PROVE  j + 1 \in 1..n /\ f[j + 1] = r + i
        <4>1. j + 1 \in 1..n /\ f[j + 1] \in Nat /\ h[j] = f[j + 1] - p
          BY <1>6
        <4>2. \A q \in Nat : q - p = (r - p) + i => q = r + i
          BY <1>1, <1>5
        <4>3. QED
          BY ZenonT(60), <3>2, <4>1, <4>2
      <3>3. QED
        BY <3>1, <3>2
    <2>2. QED
      BY ZenonT(60), <2>1, <1>1, <1>2, <1>8, <1>10 DEF Ended
  <1>14. AllThere(h, u, rx, g - 1)
    <2>1. n - 1 = One(u > 0) + Ends(rx) + (g - 1)
      BY <1>1, <1>3
    <2>2. QED
      BY <2>1, <1>8 DEF AllThere
  <1>15. QED
    BY <1>8, <1>11, <1>12, <1>13, <1>14 DEF Account, h

-----------------------------------------------------------------------------
\* What is on its way to the host.

Waiting == IF writing = "wait" THEN <<data>> ELSE <<>>
LEMMA TransitType ==
  ASSUME IInv
  PROVE  /\ uart \in Seq(TxByte) /\ TxContent \in Seq(TxByte) /\ Waiting \in Seq(TxByte)
         /\ uart \o TxContent \in Seq(TxByte) /\ Transit \in Seq(TxByte)
         /\ Transit = (uart \o TxContent) \o Waiting
  <1>1. uart \in Seq(TxByte) /\ data \in TxByte
    BY DEF IInv, TypeOK
  <1>2. TxContent \in Seq(TxByte)
    BY TxQueue
  <1>3. Waiting \in Seq(TxByte)
    BY <1>1 DEF Waiting
  <1>4. uart \o TxContent \in Seq(TxByte)
    BY <1>1, <1>2, ConcatProperties
  <1>5. Transit = (uart \o TxContent) \o Waiting
    BY DEF Transit, Waiting
  <1>6. QED
    BY <1>1, <1>2, <1>3, <1>4, <1>5, ConcatProperties

\* Taking the first element of a concatenation.
LEMMA TailConcat ==
  ASSUME NEW S, NEW s \in Seq(S), NEW t \in Seq(S), s # <<>>
  PROVE  s \o t # <<>> /\ Head(s \o t) = Head(s) /\ Tail(s \o t) = Tail(s) \o t
  <1> DEFINE c == s \o t
             d == Tail(s) \o t
  <1>1. Len(s) \in Nat \ {0} /\ Len(t) \in Nat /\ Tail(s) \in Seq(S) /\ Len(Tail(s)) = Len(s) - 1
        /\ Head(s) = s[1] /\ \A i \in 1..(Len(s) - 1) : Tail(s)[i] = s[i + 1]
    BY HeadTailProperties, LenProperties, EmptySeq
  <1>2. /\ c \in Seq(S) /\ Len(c) = Len(s) + Len(t)
        /\ \A i \in 1..(Len(s) + Len(t)) : c[i] = IF i <= Len(s) THEN s[i] ELSE t[i - Len(s)]
    BY ConcatProperties
  <1>3. /\ d \in Seq(S) /\ Len(d) = Len(Tail(s)) + Len(t)
        /\ \A i \in 1..(Len(Tail(s)) + Len(t)) :
             d[i] = IF i <= Len(Tail(s)) THEN Tail(s)[i] ELSE t[i - Len(Tail(s))]
    BY <1>1, ConcatProperties
  <1> HIDE DEF c, d
  <1>4. c # <<>> /\ Head(c) = c[1]
    BY <1>1, <1>2, EmptySeq
  <1>5. /\ Tail(c) \in Seq(S) /\ Len(Tail(c)) = Len(c) - 1
        /\ \A i \in 1..(Len(c) - 1) : Tail(c)[i] = c[i + 1]
    BY <1>2, <1>4, HeadTailProperties
  <1>6. ASSUME NEW i \in 1..Len(d) PROVE Tail(c)[i] = d[i]
    <2>1. Tail(c)[i] = c[i + 1] /\ i + 1 \in 1..(Len(s) + Len(t)) /\ i \in 1..(Len(Tail(s)) + Len(t))
      BY <1>1, <1>2, <1>3, <1>5
    <2>2. CASE i <= Len(s) - 1
      <3>1. i + 1 <= Len(s) /\ i \in 1..(Len(s) - 1)
        BY <2>2, <1>1
      <3>2. c[i + 1] = s[i + 1] /\ d[i] = Tail(s)[i]
        BY <2>1, <2>2, <3>1, <1>1, <1>2, <1>3
      <3>3. QED
        BY <2>1, <3>1, <3>2, <1>1
    <2>3. CASE ~(i <= Len(s) - 1)
      <3>1. ~(i + 1 <= Len(s)) /\ (i + 1) - Len(s) = i - (Len(s) - 1)
        BY <2>3, <1>1
      <3>2. c[i + 1] = t[(i + 1) - Len(s)] /\ d[i] = t[i - (Len(s) - 1)]
        BY <2>1, <2>3, <3>1, <1>1, <1>2, <1>3
      <3>3. QED
        BY <2>1, <3>1, <3>2
    <2>4. QED
      BY <2>2, <2>3
  <1>7. Tail(c) = d
    <2>1. Len(Tail(c)) = Len(d)
      BY <1>1, <1>2, <1>3, <1>5
    <2>2. QED
      BY <2>1, <1>3, <1>5, <1>6, SeqEqual
  <1>8. c[1] = s[1]
    BY <1>1, <1>2
  <1>9. QED
    BY <1>1, <1>4, <1>7, <1>8 DEF c, d

\* A byte that is written is on its way ...
LEMMA TransitCall ==
  ASSUME IInv, IInv', writing = "no", NEW b \in TxByte, WriteCall(b), UNCHANGED txVars
  PROVE  Transit' = Append(Transit, b)
  <1>1. Waiting = <<>> /\ Waiting' = <<b>> /\ uart' = uart /\ TxContent' = TxContent
    BY DEF WriteCall, Waiting, txVars, TxContent
  <1>2. Transit = uart \o TxContent
    BY <1>1, TransitType, ConcatEmptySeq
  <1>3. Transit' = (uart \o TxContent) \o <<b>>
    BY <1>1 DEF Transit, Waiting
  <1>4. QED
    BY <1>2, <1>3, TransitType, AppendIsConcat

\* ... and stays so while it is stored and enabled, unless it is given up.
LEMMA TransitWrite ==
  ASSUME IInv, SerialWrite
  PROVE  \/ Transit' = Transit
         \/ /\ exec_reset /\ data \in TxByte /\ Transit' \in Seq(TxByte)
            /\ Transit = Append(Transit', data)
  <1>0. data \in TxByte
    BY DEF IInv, TypeOK
  <1>1. CASE WriteAbandon
    <2>1. /\ exec_reset /\ Waiting = <<data>> /\ Waiting' = <<>> /\ uart' = uart
          /\ TxContent' = TxContent
      BY <1>1 DEF WriteAbandon, Waiting, txVars, TxContent
    <2>2. Transit' = (uart \o TxContent) \o <<>>
      BY <2>1 DEF Transit, Waiting
    <2>3. Transit' = uart \o TxContent /\ Transit = (uart \o TxContent) \o <<data>>
      BY <2>1, <2>2, TransitType, ConcatEmptySeq
    <2>4. QED
      BY <1>0, <2>1, <2>3, TransitType, AppendIsConcat
  <1>2. CASE WriteStore
    <2>1. /\ Waiting = <<data>> /\ Waiting' = <<>> /\ uart' = uart
          /\ TxContent' = Append(TxContent, data)
      BY <1>2, TxPut DEF WriteStore, Waiting
    <2>2. Append(TxContent, data) = TxContent \o <<data>> /\ Append(TxContent, data) \in Seq(TxByte)
          /\ <<data>> \in Seq(TxByte)
      BY <1>0, TransitType, AppendIsConcat, AppendProperties
    <2>3. Transit' = (uart \o (TxContent \o <<data>>)) \o <<>>
      BY <2>1, <2>2 DEF Transit, Waiting
    <2>4. uart \o (TxContent \o <<data>>) \in Seq(TxByte)
      BY <2>2, TransitType, ConcatProperties
    <2>5. Transit' = uart \o (TxContent \o <<data>>)
      BY <2>3, <2>4, ConcatEmptySeq
    <2>6. Transit = (uart \o TxContent) \o <<data>>
      BY <2>1, TransitType
    <2>7. QED
      BY SMTT(60), <2>2, <2>5, <2>6, TransitType, ConcatAssociative
  <1>3. CASE WriteEnable
    BY <1>3 DEF WriteEnable, Transit, TxContent
  <1>4. QED
    BY <1>1, <1>2, <1>3 DEF SerialWrite

\* The interrupt moves a byte to the UART.
LEMMA TransitIsr ==
  ASSUME IInv, UdreIsr
  PROVE  Transit' = Transit
  <1> DEFINE h == Head(TxContent)
             t == Tail(TxContent)
  <1>1. TxContent # <<>> /\ TxContent' = t /\ uart' = Append(uart, h) /\ Waiting' = Waiting
    BY TxGet DEF UdreIsr, Waiting, writeVars
  <1>2. h \in TxByte /\ t \in Seq(TxByte) /\ <<h>> \in Seq(TxByte) /\ uart \in Seq(TxByte)
    BY <1>1, TransitType, HeadTailProperties
  <1>3. TxContent = <<h>> \o t
    <2>1. Head(<<h>>) = h /\ Tail(<<h>>) = <<>> /\ <<h>> # <<>>
      OBVIOUS
    <2>2. Head(<<h>> \o t) = h /\ Tail(<<h>> \o t) = t /\ <<h>> \o t # <<>> /\ <<h>> \o t \in Seq(TxByte)
      BY SMTT(60), <2>1, <1>2, TailConcat, ConcatEmptySeq, ConcatProperties
    <2>3. QED
      BY <2>2, <1>1, TransitType
  <1>4. Append(uart, h) = uart \o <<h>>
    BY <1>2, AppendIsConcat
  <1>5. (uart \o <<h>>) \o t = uart \o (<<h>> \o t)
    BY <1>2, ConcatAssociative
  <1>6. Transit' = (Append(uart, h) \o t) \o Waiting
    BY <1>1 DEF Transit, Waiting
  <1> HIDE DEF h, t
  <1>7. QED
    BY <1>3, <1>4, <1>5, <1>6, TransitType

\* A byte arrives at the host.
LEMMA TransitSends ==
  ASSUME IInv, UartSends
  PROVE  Transit # <<>> /\ Transit' = Tail(Transit) /\ Head(uart) = Head(Transit)
  <1>1. uart # <<>> /\ uart' = Tail(uart) /\ TxContent' = TxContent /\ Waiting' = Waiting
    BY DEF UartSends, TxContent, Waiting, writeVars
  <1>2. /\ uart \o TxContent # <<>> /\ Head(uart \o TxContent) = Head(uart)
        /\ Tail(uart \o TxContent) = Tail(uart) \o TxContent
    BY <1>1, TransitType, TailConcat
  <1>3. /\ Transit # <<>> /\ Head(Transit) = Head(uart \o TxContent)
        /\ Tail(Transit) = Tail(uart \o TxContent) \o Waiting
    <2> DEFINE front == uart \o TxContent
    <2>1. front \in Seq(TxByte) /\ front # <<>> /\ Waiting \in Seq(TxByte)
          /\ Transit = front \o Waiting
      BY <1>2, TransitType
    <2> HIDE DEF front
    <2>2. Transit # <<>> /\ Head(Transit) = Head(front) /\ Tail(Transit) = Tail(front) \o Waiting
      BY <2>1, TailConcat
    <2>3. QED
      BY <2>2 DEF front
  <1>4. Transit' = (Tail(uart) \o TxContent) \o Waiting
    BY <1>1 DEF Transit, Waiting
  <1>5. QED
    BY <1>2, <1>3, <1>4

-----------------------------------------------------------------------------
\* The inductive invariant.

LinkTypeOK ==
  /\ inflight \in Seq(Nat) /\ unsent \in Nat /\ lost \in BOOLEAN
  /\ line \in {"no", "read", "exec"}

\* Where the main program can be without a line, or only with one.
BootPoints == {"boot", "flush", "welcome"}
Control ==
  /\ pc = "line" => line = "exec"
  /\ pc \in {"read"} \cup BootPoints => line = "no"

\* The host that has sent a reset knows of no line.  Either the reset has not been carried out
\* and no welcome message is on its way; or nothing is left of the old lines but answers
\* ahead of the one welcome message.
Greeted(s) == \E i \in 1..Len(s) : s[i] = "welcome"
GreetedLast(s) ==
  \E i \in 1..Len(s) : /\ s[i] = "welcome"
                       /\ \A j \in 1..Len(s) : j # i => s[j] # "welcome"
                       /\ \A j \in 1..Len(s) : j > i => s[j] # "ok"
Resetting ==
  /\ ~Greeted(Transit) /\ (exec_reset \/ pc \in BootPoints)
  /\ pc \in {"flush", "welcome"} => ~exec_reset
  /\ pc = "welcome" => RxContent = <<>>
Restarted ==
  /\ GreetedLast(Transit) /\ ~exec_reset /\ pc \notin BootPoints /\ line = "no" /\ RxContent = <<>>
Phase ==
  IF lost THEN unsent = 0 /\ inflight = <<>> /\ (Resetting \/ Restarted)
          ELSE ~Greeted(Transit) /\ ~exec_reset /\ pc \notin BootPoints

\* The lines that have been taken and whose answer has not arrived.
Taken == One(line # "no") + Oks(Transit)
Streaming == ~lost /\ role = "stream" => Account(inflight, unsent, RxContent, Taken)

LinkInv == IInv /\ LinkTypeOK /\ Control /\ Phase /\ Streaming

\* What a byte more or less on its way changes.
LEMMA GreetedAppend ==
  ASSUME NEW s \in Seq(TxByte), NEW b \in TxByte
  PROVE  /\ Greeted(Append(s, b)) <=> Greeted(s) \/ b = "welcome"
         /\ GreetedLast(s) /\ b = "report" => GreetedLast(Append(s, b))
         /\ ~Greeted(s) /\ b = "welcome" => GreetedLast(Append(s, b))
  <1> DEFINE n == Len(s)
             t == Append(s, b)
  <1>1. n \in Nat /\ Len(t) = n + 1 /\ t[n + 1] = b /\ \A i \in 1..n : t[i] = s[i]
    BY LenProperties, AppendProperties
  <1> HIDE DEF t
  <1>2. \A i \in 1..(n + 1) : i \in 1..n \/ i = n + 1
    BY <1>1
  <1>3. \A i \in 1..n : i \in 1..(n + 1) /\ i # n + 1 /\ ~(i > n + 1)
    BY <1>1
  <1>a. n + 1 \in 1..(n + 1) /\ ~(n + 1 > n + 1)
    BY <1>1
  <1> HIDE DEF n
  <1>4. Greeted(t) <=> Greeted(s) \/ b = "welcome"
    BY ZenonT(60), <1>1, <1>2, <1>3, <1>a DEF Greeted, n
  <1>5. ASSUME GreetedLast(s), b = "report" PROVE GreetedLast(t)
    <2>1. PICK i \in 1..n : /\ s[i] = "welcome"
                            /\ \A j \in 1..n : j # i => s[j] # "welcome"
                            /\ \A j \in 1..n : j > i => s[j] # "ok"
      BY <1>5 DEF GreetedLast, n
    <2>2. i \in 1..(n + 1) /\ t[i] = "welcome"
      BY <2>1, <1>1, <1>3
    <2>3. \A j \in 1..(n + 1) : j # i => t[j] # "welcome"
      BY <2>1, <1>1, <1>2, <1>5
    <2>4. \A j \in 1..(n + 1) : j > i => t[j] # "ok"
      BY <2>1, <1>1, <1>2, <1>5
    <2>5. QED
      BY <2>2, <2>3, <2>4, <1>1 DEF GreetedLast
  <1>6. ASSUME ~Greeted(s), b = "welcome" PROVE GreetedLast(t)
    <2>1. t[n + 1] = "welcome"
      BY <1>1, <1>6
    <2>2. \A j \in 1..(n + 1) : j # n + 1 => t[j] # "welcome"
      BY <1>1, <1>2, <1>6 DEF Greeted, n
    <2>3. \A j \in 1..(n + 1) : ~(j > n + 1)
      BY <1>1
    <2>4. QED
      BY <2>1, <2>2, <2>3, <1>1, <1>a DEF GreetedLast
  <1>7. QED
    BY <1>4, <1>5, <1>6 DEF t

\* ... or one less: what follows the welcome message has no answer.
LEMMA GreetedTail ==
  ASSUME NEW s \in Seq(TxByte), s # <<>>
  PROVE  /\ ~Greeted(s) => ~Greeted(Tail(s)) /\ Head(s) # "welcome"
         /\ GreetedLast(s) /\ Head(s) # "welcome" => GreetedLast(Tail(s))
         /\ GreetedLast(s) /\ Head(s) = "welcome" => ~Greeted(Tail(s)) /\ Oks(Tail(s)) = 0
  <1> DEFINE n == Len(s)
             t == Tail(s)
  <1>1. /\ n \in Nat \ {0} /\ t \in Seq(TxByte) /\ Len(t) = n - 1 /\ Head(s) = s[1]
        /\ \A i \in 1..(n - 1) : t[i] = s[i + 1]
    BY LenProperties, HeadTailProperties, EmptySeq
  <1> HIDE DEF n, t
  <1>2. \A i \in 1..(n - 1) : i + 1 \in 1..n /\ i + 1 # 1 /\ i + 1 > 1
    BY <1>1
  <1>3. 1 \in 1..n
    BY <1>1
  <1>4. ASSUME ~Greeted(s) PROVE ~Greeted(t) /\ Head(s) # "welcome"
    BY <1>1, <1>2, <1>3, <1>4 DEF Greeted, n
  <1>5. ASSUME GreetedLast(s)
        PROVE  /\ Head(s) # "welcome" => GreetedLast(t)
               /\ Head(s) = "welcome" => ~Greeted(t) /\ Oks(t) = 0
    <2>1. PICK i \in 1..n : /\ s[i] = "welcome"
                            /\ \A j \in 1..n : j # i => s[j] # "welcome"
                            /\ \A j \in 1..n : j > i => s[j] # "ok"
      BY <1>5 DEF GreetedLast, n
    <2>2. CASE Head(s) = "welcome"
      <3>1. i = 1
        BY <2>1, <2>2, <1>1, <1>3
      <3>2. \A j \in 1..(n - 1) : t[j] # "welcome" /\ t[j] # "ok"
        BY <3>1, <2>1, <1>1, <1>2
      <3>3. Cardinality(Positions(t, "ok")) = 0
        BY <3>2, <1>1, PositionsFinite
      <3>4. QED
        BY <2>2, <3>2, <3>3, <1>1, OksPositions DEF Greeted
    <2>3. CASE Head(s) # "welcome"
      <3>1. i # 1
        BY <2>1, <2>3, <1>1
      <3>2. i - 1 \in 1..(n - 1) /\ (i - 1) + 1 = i
        BY <3>1, <1>1
      <3>3. t[i - 1] = "welcome"
        BY <3>2, <2>1, <1>1
      <3>4. ASSUME NEW j \in 1..(n - 1)
            PROVE  (j # i - 1 => t[j] # "welcome") /\ (j > i - 1 => t[j] # "ok")
        <4>1. j + 1 \in 1..n /\ (j # i - 1 => j + 1 # i) /\ (j > i - 1 => j + 1 > i)
          BY <1>1
        <4>2. QED
          BY <4>1, <2>1, <1>1
      <3>5. QED
        BY <2>3, <3>2, <3>3, <3>4, <1>1 DEF GreetedLast
    <2>4. QED
      BY <2>2, <2>3
  <1>6. QED
    BY <1>4, <1>5 DEF t

\* What the invariant says of the two properties.
LEMMA InvDropped == LinkInv => NothingDropped
  <1> SUFFICES ASSUME LinkInv, role = "stream", unsent > 0
               PROVE  RxAvailable >= unsent /\ NextSlot(rx_head, RxRing) # rx_tail
    BY DEF NothingDropped
  <1>1. unsent \in Nat /\ inflight \in Seq(Nat) /\ RxContent \in Seq(RxByte)
        /\ Len(RxContent) = Used(rx_head, rx_tail, RxRing)
    BY RxQueue DEF LinkInv, LinkTypeOK
  <1>2. Taken \in Nat
    BY TransitType, PositionsFinite, OksPositions DEF LinkInv, Taken, One
  <1>3. ~lost
    BY DEF LinkInv, Phase
  <1>4. unsent + Len(RxContent) <= RX_BUFFER_SIZE
    BY <1>1, <1>2, <1>3, AccountFits DEF LinkInv, Streaming
  <1>5. unsent + Used(rx_head, rx_tail, RxRing) <= RX_BUFFER_SIZE
    BY <1>1, <1>4
  <1>6. /\ rx_head \in 0..(RxRing - 1) /\ rx_tail \in 0..(RxRing - 1) /\ RxRing \in 2..255
        /\ RX_BUFFER_SIZE = RxRing - 1
    BY RxTypes DEF LinkInv
  <1>7. QED
    BY <1>1, <1>5, <1>6 DEF RxAvailable, NextSlot, Used
LEMMA InvAnswered == LinkInv => AnsweredOnce
  <1> SUFFICES ASSUME LinkInv, role = "stream", ~lost
               PROVE  Len(inflight) = One(unsent > 0) + Ends(RxContent) + One(line # "no") + Oks(Transit)
    BY DEF AnsweredOnce
  <1>1. Len(inflight) = One(unsent > 0) + Ends(RxContent) + (One(line # "no") + Oks(Transit))
    BY DEF LinkInv, Streaming, Account, AllThere, Taken
  <1>2. Ends(RxContent) \in Nat /\ Oks(Transit) \in Nat
    BY TransitType, RxQueue, PositionsFinite, OksPositions, EndsPositions DEF LinkInv
  <1>3. QED
    BY <1>1, <1>2 DEF One

-----------------------------------------------------------------------------
\* The steps.

\* The link starts in the middle of a reset.
LEMMA InitLinkInv == LinkInit => LinkInv
  <1> SUFFICES ASSUME LinkInit PROVE LinkInv
    OBVIOUS
  <1>1. IInv
    BY LinkInitRefines, InitInv
  <1>2. Transit = <<>> /\ RxContent = <<>>
    <2>1. Used(tx_head, tx_tail, TxRing) = 0 /\ Used(rx_head, rx_tail, RxRing) = 0
      BY DEF LinkInit, Init, Used
    <2>2. TxContent = <<>> /\ RxContent = <<>>
      BY <2>1 DEF TxContent, RxContent, Content
    <2>3. Transit = (<<>> \o <<>>) \o <<>>
      BY <2>2 DEF LinkInit, Init, Transit
    <2>4. QED
      BY <2>2, <2>3, EmptySeq, ConcatEmptySeq
  <1>3. ~Greeted(Transit)
    BY <1>2, EmptySeq DEF Greeted
  <1>4. QED
    BY <1>1, <1>2, <1>3 DEF LinkInit, Init, LinkInv, LinkTypeOK, Control, Phase, Resetting, Restarted,
       BootPoints, Streaming

\* Every step keeps the rings' invariant.
LEMMA RingStep == LinkInv /\ [LinkNext]_vars => IInv'
  <1>1. [LinkNext]_vars => [Next]_ringVars
    BY MainRefines, HostRefines DEF LinkNext, vars
  <1>2. QED
    BY <1>1, StepInv DEF LinkInv

\* Where the program is, and the types.
LEMMA ReturnTypes ==
  ASSUME LinkTypeOK, NEW abort \in BOOLEAN, Return(abort)
  PROVE  /\ line' \in {"no", "read", "exec"} /\ pc' \in {"line", "boot", "read"}
         /\ pc' = "line" => line' = "exec"
         /\ pc' \in {"boot", "read"} => line' = "no"
         /\ ~abort => pc' # "boot" /\ (line' # "no" <=> line # "no")
  BY DEF Return, LinkTypeOK
LEMMA TypesMain ==
  ASSUME LinkInv, Main
  PROVE  LinkTypeOK' /\ Control'
  <1> USE DEF LinkInv, LinkTypeOK, Control, BootPoints, At, hostVars, mainVars
  <1>1. CASE ReadChar
    BY <1>1 DEF ReadChar
  <1>2. CASE ReadEmpty \/ ExecuteLine \/ AnswerLine \/ ReportWritten
    BY <1>2 DEF ReadEmpty, ExecuteLine, AnswerLine, ReportWritten
  <1>3. CASE ExecFlags
    <2>1. CASE exec_reset
      BY <1>3, <2>1, ReturnTypes DEF ExecFlags
    <2>2. CASE ~exec_reset
      BY <1>3, <2>2 DEF ExecFlags
    <2>3. QED
      BY <2>1, <2>2
  <1>4. CASE ReadOverrides
    <2>1. /\ UNCHANGED hostVars
          /\ \/ UNCHANGED line /\ pc' \in {"motion.clear", "accessory.clear", "dwell.clear",
                                           "accessory", "dwell", "overridden"}
             \/ Return(FALSE)
      BY <1>4 DEF ReadOverrides, Clearing, After, FlagBytes
    <2>2. QED
      BY <2>1, ReturnTypes
  <1>5. CASE ApplyOverrides
    BY <1>5 DEF ApplyOverrides, After, FlagBytes
  <1>6. CASE OverridesDone
    BY <1>6, ReturnTypes DEF OverridesDone
  <1>7. CASE Boot \/ BootFlush \/ BootWelcome \/ Serve
    BY <1>7 DEF Boot, BootFlush, BootWelcome, Serve
  <1>8. QED
    BY <1>1, <1>2, <1>3, <1>4, <1>5, <1>6, <1>7 DEF Main
LEMMA TypesHost ==
  ASSUME LinkInv, Host \/ Uart
  PROVE  LinkTypeOK' /\ Control'
  <1> USE DEF LinkInv, LinkTypeOK, Control, hostVars, mainVars
  <1>1. CASE BeginLine
    <2>1. UNCHANGED <<lost, mainVars>>
      BY <1>1 DEF BeginLine
    <2>2. LineLengths \subseteq Nat
      BY LinkAssumption, RingAssumption
    <2>3. PICK n \in LineLengths : unsent' = n /\ inflight' \in {inflight, Append(inflight, Counted + n)}
      BY <1>1 DEF BeginLine
    <2>4. Counted \in Nat
      BY LenProperties, EmptySeq DEF Counted
    <2>5. inflight' \in Seq(Nat)
      BY <2>2, <2>3, <2>4, AppendProperties
    <2>6. QED
      BY <2>1, <2>2, <2>3, <2>5
  <1>2. CASE ReceiveChar
    BY <1>2 DEF ReceiveChar
  <1>3. CASE ReceiveCommand
    <2>1. <<>> \in Seq(Nat) /\ 0 \in Nat
      BY EmptySeq
    <2>2. /\ UNCHANGED mainVars /\ (UNCHANGED hostVars \/ (lost' = TRUE /\ unsent' = 0 /\ inflight' = <<>>))
      BY <1>3 DEF ReceiveCommand
    <2>3. QED
      BY <2>1, <2>2
  <1>4. CASE TransmitIsr
    BY <1>4 DEF TransmitIsr
  <1>5. CASE HostReceives
    <2>1. UNCHANGED <<unsent, mainVars>> /\ lost' \in BOOLEAN
      BY <1>5 DEF HostReceives
    <2>2. inflight' \in Seq(Nat)
      <3>1. CASE ~lost /\ role = "stream" /\ Head(uart) = "ok"
        <4>1. inflight' = Forget(inflight)
          BY <1>5, <3>1 DEF HostReceives, Answered, Forget
        <4>2. Oks(Transit) \in Nat \ {0} /\ Taken = One(line # "no") + Oks(Transit)
          <5>1. Transit # <<>> /\ Head(Transit) = "ok" /\ Transit \in Seq(TxByte)
            BY <1>5, <3>1, TransitSends, TransitType DEF HostReceives
          <5>2. Tail(Transit) \in Seq(TxByte)
            BY <5>1, HeadTailProperties
          <5>3. Oks(Tail(Transit)) \in Nat
            BY <5>2, PositionsFinite, OksPositions
          <5>4. Oks(Transit) = Oks(Tail(Transit)) + One(TRUE)
            BY ZenonT(60), <5>1, PositionsTail, OksPositions
          <5>5. QED
            BY <5>3, <5>4 DEF One, Taken
        <4>3. Taken \in Nat \ {0}
          BY <4>2 DEF One
        <4>4. Account(inflight, unsent, RxContent, Taken)
          BY <3>1 DEF Streaming
        <4>5. RxContent \in Seq(RxByte)
          BY RxQueue
        <4>6. QED
          BY <4>1, <4>3, <4>4, <4>5, AccountAnswered
      <3>2. CASE ~(~lost /\ role = "stream" /\ Head(uart) = "ok")
        BY <1>5, <3>2 DEF HostReceives
      <3>3. QED
        BY <3>1, <3>2
    <2>3. QED
      BY <2>1, <2>2
  <1>6. QED
    BY <1>1, <1>2, <1>3, <1>4, <1>5 DEF Host, Uart

\* A step that moves no byte and no line.
LEMMA QuietStep ==
  ASSUME LinkInv, UNCHANGED <<Transit, RxContent, hostVars, exec_reset>>,
         line' # "no" <=> line # "no",
         pc' = pc \/ (pc \notin BootPoints /\ pc' \notin BootPoints)
  PROVE  Phase' /\ Streaming'
  <1>1. Taken' = Taken
    BY DEF Taken
  <1>2. Streaming'
    BY <1>1 DEF LinkInv, Streaming, hostVars
  <1>3. Phase'
    BY DEF LinkInv, LinkTypeOK, Phase, Resetting, Restarted, BootPoints, hostVars
  <1>4. QED
    BY <1>2, <1>3

\* A character is read: AccountRead.
LEMMA ReadCharStep == LinkInv /\ ReadChar => Phase' /\ Streaming'
  <1> SUFFICES ASSUME LinkInv, ReadChar PROVE Phase' /\ Streaming'
    OBVIOUS
  <1>1. IInv /\ pc = "read" /\ line = "no" /\ UNCHANGED <<exec_reset, hostVars, Transit>>
    BY DEF ReadChar, At, LinkInv, Control, txVars, writeVars, Transit, TxContent
  <1>2. /\ RxContent' = Tail(RxContent) /\ RxContent # <<>> /\ rx_buffer[rx_tail] = Head(RxContent)
        /\ RxContent \in Seq(RxByte)
    BY <1>1, RxGet, RxQueue DEF ReadChar
  <1>3. (line' # "no" <=> Head(RxContent) = "eol") /\ pc' \in {"read", "flags"}
    BY <1>1, <1>2 DEF ReadChar, mainVars
  <1>4. Phase'
    BY <1>1, <1>2, <1>3 DEF LinkInv, LinkTypeOK, Phase, Resetting, Restarted, BootPoints, hostVars
  <1>5. Oks(Transit) \in Nat
    BY <1>1, TransitType, PositionsFinite, OksPositions
  <1>6. Taken \in Nat /\ Taken' = Taken + One(Head(RxContent) = "eol")
    BY <1>1, <1>3, <1>5 DEF Taken, One
  <1>7. Streaming'
    BY <1>1, <1>2, <1>6, AccountRead DEF LinkInv, LinkTypeOK, Streaming, hostVars
  <1>8. QED
    BY <1>4, <1>7

\* A line is answered: it leaves the program and its answer is on its way.
LEMMA AnswerLineStep == LinkInv /\ AnswerLine /\ IInv' => Phase' /\ Streaming'
  <1> SUFFICES ASSUME LinkInv, AnswerLine, IInv' PROVE Phase' /\ Streaming'
    OBVIOUS
  <1>1. /\ IInv /\ pc = "line" /\ line = "exec" /\ line' = "no" /\ pc' = "read" /\ "ok" \in TxByte
        /\ UNCHANGED <<exec_reset, hostVars, RxContent>>
    BY LinkAssumption DEF AnswerLine, At, LinkInv, Control, rxVars, RxContent
  <1>2. Transit' = Append(Transit, "ok") /\ Transit \in Seq(TxByte)
    BY <1>1, TransitCall, TransitType DEF AnswerLine, At
  <1>3. Greeted(Transit') <=> Greeted(Transit)
    BY <1>1, <1>2, GreetedAppend
  <1>4. Phase'
    BY <1>1, <1>3 DEF LinkInv, LinkTypeOK, Phase, Resetting, Restarted, BootPoints, hostVars
  <1>5. Oks(Transit) \in Nat /\ Oks(Transit') = Oks(Transit) + 1
    BY <1>1, <1>2, OksAppend
  <1>6. Taken' = Taken
    BY <1>1, <1>5 DEF Taken, One
  <1>7. Streaming'
    BY <1>1, <1>6 DEF LinkInv, Streaming, hostVars
  <1>8. QED
    BY <1>4, <1>7

\* The requests are looked at: a reset unwinds, a report is written.
LEMMA ExecFlagsStep == LinkInv /\ ExecFlags /\ IInv' => Phase' /\ Streaming'
  <1> SUFFICES ASSUME LinkInv, ExecFlags, IInv' PROVE Phase' /\ Streaming'
    OBVIOUS
  <1>1. /\ IInv /\ pc = "flags" /\ writing = "no" /\ "report" \in TxByte
        /\ UNCHANGED <<exec_reset, hostVars, RxContent, txVars>>
    BY LinkAssumption DEF ExecFlags, At, LinkInv, rxVars, RxContent
  <1>2. CASE exec_reset
    <2>1. Return(TRUE) /\ UNCHANGED Transit
      BY <1>1, <1>2 DEF ExecFlags, txVars, writeVars, Transit, TxContent
    <2>2. pc' \in {"line", "boot"}
      BY <2>1, ReturnTypes DEF LinkInv, Return, LinkTypeOK
    <2>3. lost /\ Resetting
      BY <1>2 DEF LinkInv, Phase, Restarted
    <2>4. Phase'
      BY <1>1, <1>2, <2>1, <2>2, <2>3 DEF LinkInv, Phase, Resetting, BootPoints, hostVars
    <2>5. QED
      BY <1>1, <2>3, <2>4 DEF Streaming, hostVars
  <1>3. CASE ~exec_reset /\ exec_status
    <2>1. WriteCall("report") /\ pc' = "reported" /\ line' = line
      BY <1>3 DEF ExecFlags
    <2>2. Transit' = Append(Transit, "report") /\ Transit \in Seq(TxByte)
      BY <1>1, <2>1, TransitCall, TransitType
    <2>3. (Greeted(Transit') <=> Greeted(Transit)) /\ (GreetedLast(Transit) => GreetedLast(Transit'))
      BY <1>1, <2>2, GreetedAppend
    <2>4. Phase'
      BY <1>1, <1>3, <2>1, <2>3 DEF LinkInv, LinkTypeOK, Phase, Resetting, Restarted, BootPoints, hostVars
    <2>5. Oks(Transit) \in Nat /\ Oks(Transit') = Oks(Transit)
      BY <1>1, <2>2, OksAppend
    <2>6. Taken' = Taken
      BY <2>1, <2>5 DEF Taken, One
    <2>7. Streaming'
      BY <1>1, <2>6 DEF LinkInv, Streaming, hostVars
    <2>8. QED
      BY <2>4, <2>7
  <1>4. CASE ~exec_reset /\ ~exec_status
    <2>1. pc' = "motion" /\ line' = line /\ UNCHANGED Transit
      BY <1>1, <1>4 DEF ExecFlags, txVars, writeVars, Transit, TxContent
    <2>2. QED
      BY <1>1, <2>1, QuietStep DEF BootPoints
  <1>5. QED
    BY <1>2, <1>3, <1>4

\* The re-initialization goes from Resetting to Restarted.
LEMMA BootStep == LinkInv /\ (Boot \/ BootFlush \/ BootWelcome) /\ IInv' => Phase' /\ Streaming'
  <1> SUFFICES ASSUME LinkInv, Boot \/ BootFlush \/ BootWelcome, IInv' PROVE Phase' /\ Streaming'
    OBVIOUS
  <1>1. /\ IInv /\ pc \in BootPoints /\ line = "no" /\ writing = "no" /\ "welcome" \in TxByte
        /\ UNCHANGED <<hostVars, line, txVars>>
    BY LinkAssumption DEF Boot, BootFlush, BootWelcome, At, LinkInv, Control, BootPoints
  <1>2. lost /\ lost' /\ unsent' = 0 /\ inflight' = <<>> /\ Resetting
    BY <1>1 DEF LinkInv, Phase, Restarted, hostVars
  <1>3. CASE Boot
    <2>1. UNCHANGED Transit /\ ~exec_reset' /\ pc' = "flush"
      BY <1>3 DEF Boot, txVars, writeVars, Transit, TxContent
    <2>2. QED
      BY <1>2, <2>1 DEF Phase, Resetting, BootPoints, Streaming
  <1>4. CASE BootFlush
    <2>1. UNCHANGED Transit /\ exec_reset' = exec_reset /\ pc = "flush" /\ pc' = "welcome"
      BY <1>4 DEF BootFlush, At, txVars, writeVars, Transit, TxContent
    <2>2. RxContent' = <<>>
      BY <1>1, <1>4, RxFlushed DEF BootFlush
    <2>3. QED
      BY <1>2, <2>1, <2>2 DEF Phase, Resetting, BootPoints, Streaming
  <1>5. CASE BootWelcome
    <2>1. /\ WriteCall("welcome") /\ pc = "welcome" /\ pc' = "read"
          /\ UNCHANGED <<exec_reset, RxContent>>
      BY <1>5 DEF BootWelcome, At, rxVars, RxContent
    <2>2. Transit' = Append(Transit, "welcome") /\ Transit \in Seq(TxByte)
      BY <1>1, <2>1, TransitCall, TransitType
    <2>3. GreetedLast(Transit')
      BY <1>1, <1>2, <2>2, GreetedAppend DEF Resetting
    <2>4. QED
      BY <1>1, <1>2, <2>1, <2>3 DEF Phase, Resetting, Restarted, BootPoints, Streaming
  <1>6. QED
    BY <1>3, <1>4, <1>5

\* A write goes on; only a reset makes it give up.
LEMMA ServeStep == LinkInv /\ Serve /\ IInv' => Phase' /\ Streaming'
  <1> SUFFICES ASSUME LinkInv, Serve, IInv' PROVE Phase' /\ Streaming'
    OBVIOUS
  <1>1. IInv /\ UNCHANGED <<exec_reset, hostVars, RxContent, mainVars>>
    BY DEF LinkInv, Serve, SerialWrite, WriteAbandon, WriteStore, WriteEnable, rxVars, RxContent
  <1>2. CASE Transit' = Transit
    BY <1>1, <1>2, QuietStep DEF mainVars
  <1>3. CASE /\ exec_reset /\ data \in TxByte /\ Transit' \in Seq(TxByte)
             /\ Transit = Append(Transit', data)
    <2>1. lost /\ Resetting
      BY <1>3 DEF LinkInv, Phase, Restarted
    <2>2. ~Greeted(Transit')
      BY <1>3, <2>1, GreetedAppend DEF Resetting
    <2>3. QED
      BY <1>1, <2>1, <2>2 DEF LinkInv, Phase, Resetting, Streaming, hostVars, mainVars
  <1>4. QED
    BY <1>1, <1>2, <1>3, TransitWrite DEF Serve

\* The host begins a line: AccountBegin.
LEMMA BeginLineStep == LinkInv /\ BeginLine => Phase' /\ Streaming'
  <1> SUFFICES ASSUME LinkInv, BeginLine PROVE Phase' /\ Streaming'
    OBVIOUS
  <1>1. /\ IInv /\ unsent = 0 /\ ~lost /\ inflight \in Seq(Nat)
        /\ UNCHANGED <<exec_reset, lost, role, mainVars, Transit, RxContent>>
    BY DEF BeginLine, LinkInv, LinkTypeOK, ringVars, txVars, rxVars, writeVars, Transit, TxContent, RxContent
  <1>2. Phase'
    BY <1>1 DEF LinkInv, Phase, BootPoints, mainVars
  <1>3. ASSUME role = "stream" PROVE Account(inflight', unsent', RxContent, Taken)
    <2>1. PICK n \in LineLengths : /\ unsent' = n /\ Counted + n <= RX_BUFFER_SIZE
                                   /\ inflight' = Append(inflight, Counted + n)
      BY <1>3 DEF BeginLine
    <2>2. n \in Nat \ {0} /\ Counted = Total(inflight)
      BY LinkAssumption, RingAssumption DEF Counted, Total
    <2>3. Taken \in Nat /\ RxContent \in Seq(RxByte)
      BY <1>1, TransitType, RxQueue, PositionsFinite, OksPositions DEF Taken, One
    <2>4. Account(inflight, 0, RxContent, Taken)
      BY <1>1, <1>3 DEF LinkInv, Streaming
    <2>5. QED
      BY <1>1, <2>1, <2>2, <2>3, <2>4, AccountBegin
  <1>4. Taken' = Taken
    BY <1>1 DEF Taken, mainVars
  <1>5. QED
    BY <1>1, <1>2, <1>3, <1>4 DEF Streaming

\* A character arrives and finds room: AccountReceive.
LEMMA ReceiveCharStep == LinkInv /\ ReceiveChar => Phase' /\ Streaming'
  <1> SUFFICES ASSUME LinkInv, ReceiveChar PROVE Phase' /\ Streaming'
    OBVIOUS
  <1> DEFINE b == IF unsent = 1 THEN "eol" ELSE "char"
  <1>1. /\ IInv /\ unsent \in Nat \ {0} /\ ~lost /\ inflight \in Seq(Nat) /\ b \in RxByte
        /\ RxStore(b) /\ unsent' = unsent - 1
        /\ UNCHANGED <<exec_reset, lost, role, inflight, mainVars, Transit>>
    BY LinkAssumption DEF ReceiveChar, LinkInv, LinkTypeOK, Phase, txVars, writeVars, Transit, TxContent
  <1>2. Phase'
    BY <1>1 DEF LinkInv, Phase, BootPoints, mainVars
  <1>3. ASSUME role = "stream" PROVE Account(inflight, unsent', RxContent', Taken)
    <2>1. NextSlot(rx_head, RxRing) # rx_tail
      BY <1>1, <1>3, InvDropped DEF NothingDropped
    <2>2. RxContent' = Append(RxContent, b)
      BY <1>1, <2>1, RxPut
    <2>3. Taken \in Nat /\ RxContent \in Seq(RxByte)
      BY <1>1, TransitType, RxQueue, PositionsFinite, OksPositions DEF Taken, One
    <2>4. Account(inflight, unsent, RxContent, Taken)
      BY <1>1, <1>3 DEF LinkInv, Streaming
    <2>5. QED
      BY <1>1, <2>2, <2>3, <2>4, AccountReceive
  <1>4. Taken' = Taken
    BY <1>1 DEF Taken, mainVars
  <1>5. QED
    BY <1>1, <1>2, <1>3, <1>4 DEF Streaming

\* A real-time command: a reset makes the account void.
LEMMA ReceiveCommandStep == LinkInv /\ ReceiveCommand => Phase' /\ Streaming'
  <1> SUFFICES ASSUME LinkInv, ReceiveCommand PROVE Phase' /\ Streaming'
    OBVIOUS
  <1>1. UNCHANGED <<mainVars, Transit, RxContent>>
    BY DEF ReceiveCommand, txVars, rxVars, writeVars, Transit, TxContent, RxContent
  <1>2. CASE ~lost /\ exec_reset' /\ lost' /\ unsent' = 0 /\ inflight' = <<>>
    BY <1>1, <1>2 DEF LinkInv, Phase, Resetting, BootPoints, Streaming, mainVars
  <1>3. CASE UNCHANGED <<exec_reset, hostVars>>
    BY <1>1, <1>3, QuietStep DEF mainVars
  <1>4. QED
    BY <1>2, <1>3 DEF ReceiveCommand

\* A byte reaches the host: AccountAnswered, or the welcome message and a new account.
LEMMA HostReceivesStep == LinkInv /\ HostReceives => Phase' /\ Streaming'
  <1> SUFFICES ASSUME LinkInv, HostReceives PROVE Phase' /\ Streaming'
    OBVIOUS
  <1> DEFINE b == Head(Transit)
  <1>1. /\ IInv /\ Transit # <<>> /\ Transit' = Tail(Transit) /\ Head(uart) = b
        /\ Transit \in Seq(TxByte) /\ RxContent \in Seq(RxByte) /\ inflight \in Seq(Nat) /\ unsent \in Nat
    BY TransitSends, TransitType, RxQueue DEF HostReceives, LinkInv, LinkTypeOK
  <1>2. /\ UNCHANGED <<exec_reset, role, unsent, mainVars, RxContent>>
        /\ lost' = (lost /\ b # "welcome")
        /\ inflight' = IF ~lost /\ role = "stream" /\ b = "ok" THEN Forget(inflight) ELSE inflight
    BY <1>1 DEF HostReceives, UartSends, rxVars, RxContent, Answered, Forget
  <1>3. /\ ~Greeted(Transit) => ~Greeted(Transit') /\ b # "welcome"
        /\ GreetedLast(Transit) /\ b # "welcome" => GreetedLast(Transit')
        /\ GreetedLast(Transit) /\ b = "welcome" => ~Greeted(Transit') /\ Oks(Transit') = 0
    BY <1>1, GreetedTail
  <1>4. Oks(Transit) = Oks(Transit') + One(b = "ok") /\ Oks(Transit') \in Nat
    <2>1. Transit' \in Seq(TxByte)
      BY <1>1, HeadTailProperties
    <2>2. QED
      BY <1>1, <2>1, PositionsTail, PositionsFinite, OksPositions
  <1> HIDE DEF b
  <1>5. CASE ~lost
    <2>1. Phase'
      BY <1>2, <1>3, <1>5 DEF LinkInv, Phase, BootPoints, mainVars
    <2>2. /\ b = "ok" => Taken \in Nat \ {0} /\ Taken' = Taken - 1
          /\ b # "ok" => Taken' = Taken
      <3>1. Taken' = One(line # "no") + Oks(Transit')
        BY <1>2 DEF Taken, mainVars
      <3>2. One(line # "no") \in Nat /\ One(b = "ok") = IF b = "ok" THEN 1 ELSE 0
        BY DEF One
      <3>3. QED
        BY <1>4, <3>1, <3>2 DEF Taken
    <2>3. ASSUME role = "stream" PROVE Account(inflight', unsent, RxContent, Taken')
      <3>1. Account(inflight, unsent, RxContent, Taken)
        BY <1>5, <2>3 DEF LinkInv, Streaming
      <3>2. CASE b = "ok"
        <4>1. Taken \in Nat \ {0} /\ Taken' = Taken - 1
          BY <2>2, <3>2
        <4>2. inflight' = Forget(inflight)
          BY <1>2, <1>5, <2>3, <3>2
        <4>3. QED
          BY <1>1, <3>1, <4>1, <4>2, AccountAnswered
      <3>3. CASE b # "ok"
        <4>1. Taken' = Taken
          BY <2>2, <3>3
        <4>2. inflight' = inflight
          BY <1>2, <3>3
        <4>3. QED
          BY <3>1, <4>1, <4>2
      <3>4. QED
        BY <3>2, <3>3
    <2>4. QED
      BY <1>2, <2>1, <2>3 DEF Streaming
  <1>6. CASE lost /\ b # "welcome"
    <2>1. Phase'
      BY <1>2, <1>3, <1>6 DEF LinkInv, Phase, Resetting, Restarted, BootPoints, mainVars
    <2>2. QED
      BY <1>2, <1>6, <2>1 DEF Streaming
  <1>7. CASE lost /\ b = "welcome"
    <2>1. Restarted /\ unsent = 0 /\ inflight = <<>>
      BY <1>3, <1>7 DEF LinkInv, Phase, Resetting
    <2>2. Phase'
      BY <1>2, <1>3, <1>7, <2>1 DEF Phase, Restarted, BootPoints, mainVars
    <2>3. Taken' = 0 /\ unsent' = 0 /\ inflight' = <<>> /\ RxContent' = <<>>
      BY <1>2, <1>3, <1>7, <2>1 DEF Restarted, Taken, One, mainVars
    <2>4. QED
      BY <2>2, <2>3, AccountNothing DEF Streaming
  <1>8. QED
    BY <1>5, <1>6, <1>7 DEF LinkInv, LinkTypeOK

\* Every step keeps the invariant.
LEMMA LinkStep == LinkInv /\ [LinkNext]_vars => LinkInv'
  <1> SUFFICES ASSUME LinkInv, [LinkNext]_vars PROVE LinkInv'
    OBVIOUS
  <1>1. IInv'
    BY RingStep
  <1>2. CASE UNCHANGED vars
    <2>1. UNCHANGED <<Transit, RxContent, hostVars, mainVars, exec_reset>>
      BY <1>2 DEF vars, ringVars, rxVars, txVars, writeVars, Transit, TxContent, RxContent
    <2>2. LinkTypeOK' /\ Control'
      BY <2>1 DEF LinkInv, LinkTypeOK, Control, hostVars, mainVars
    <2>3. QED
      BY <1>1, <2>1, <2>2, QuietStep DEF LinkInv, mainVars
  <1>3. CASE Main
    <2>1. CASE ReadChar \/ AnswerLine \/ ExecFlags \/ Boot \/ BootFlush \/ BootWelcome \/ Serve
      BY <1>1, <2>1, ReadCharStep, AnswerLineStep, ExecFlagsStep, BootStep, ServeStep, TypesMain, <1>3
      DEF LinkInv
    <2>2. CASE ReadEmpty \/ ExecuteLine \/ ReportWritten \/ ReadOverrides \/ ApplyOverrides
               \/ OverridesDone
      <3>1. UNCHANGED <<Transit, RxContent, hostVars, exec_reset>>
        BY <2>2 DEF ReadEmpty, ExecuteLine, ReportWritten, ReadOverrides, ApplyOverrides, OverridesDone,
           ringVars, rxVars, txVars, writeVars, Transit, TxContent, RxContent
      <3>2. (line' # "no" <=> line # "no") /\ pc \notin BootPoints /\ pc' \notin BootPoints
        <4>1. CASE ReadEmpty \/ ExecuteLine \/ ReportWritten
          BY <4>1 DEF ReadEmpty, ExecuteLine, ReportWritten, At, BootPoints
        <4>2. CASE ReadOverrides
          <5>1. /\ pc \in FlagBytes
                /\ \/ UNCHANGED line /\ pc' \in {"motion.clear", "accessory.clear", "dwell.clear",
                                                 "accessory", "dwell", "overridden"}
                   \/ Return(FALSE)
            BY <4>2 DEF ReadOverrides, Clearing, After, FlagBytes, At
          <5>2. QED
            BY <5>1, ReturnTypes DEF LinkInv, FlagBytes, BootPoints
        <4>3. CASE ApplyOverrides
          BY <4>3 DEF ApplyOverrides, Clearing, After, FlagBytes, At, BootPoints
        <4>4. CASE OverridesDone
          BY <4>4, ReturnTypes DEF LinkInv, OverridesDone, At, BootPoints
        <4>5. QED
          BY <2>2, <4>1, <4>2, <4>3, <4>4
      <3>3. QED
        BY <1>1, <1>3, <3>1, <3>2, QuietStep, TypesMain DEF LinkInv
    <2>3. QED
      BY <1>3, <2>1, <2>2 DEF Main
  <1>4. CASE Host
    BY <1>1, <1>4, BeginLineStep, ReceiveCharStep, ReceiveCommandStep, TypesHost DEF LinkInv, Host
  <1>5. CASE TransmitIsr
    <2>1. Transit' = Transit
      BY <1>5, TransitIsr DEF LinkInv, TransmitIsr
    <2>2. UNCHANGED <<RxContent, hostVars, mainVars, exec_reset>>
      BY <1>5 DEF TransmitIsr, UdreIsr, rxVars, RxContent
    <2>3. QED
      BY <1>1, <1>5, <2>1, <2>2, QuietStep, TypesHost DEF LinkInv, Uart, mainVars
  <1>6. CASE HostReceives
    BY <1>1, <1>6, HostReceivesStep, TypesHost DEF LinkInv, Uart
  <1>7. QED
    BY <1>2, <1>3, <1>4, <1>5, <1>6 DEF LinkNext, Uart

\* The invariant holds.
LEMMA LinkInvHolds == LinkSpec => []LinkInv
  BY InitLinkInv, LinkStep, PTL DEF LinkSpec

\* For every buffer size, a host that counts characters as config.h:470 describes never finds the
\* receive ring full, also after a reset in the middle of lines (serial.c:201).
THEOREM DroppedTheorem == LinkSpec => []NothingDropped
  BY LinkInvHolds, InvDropped, PTL

\* For every buffer size, every line of such a host has exactly one answer: what it waits for is
\* in the receive ring, being executed, or on its way back (protocol.c:104).
THEOREM AnsweredTheorem == LinkSpec => []AnsweredOnce
  BY LinkInvHolds, InvAnswered, PTL
=============================================================================
