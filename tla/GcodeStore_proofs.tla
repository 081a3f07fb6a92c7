-------------------------- MODULE GcodeStore_proofs --------------------------
(***************************************************************************)
(* The four safety properties of GcodeStore, for all lines, startup lines  *)
(* and $ commands, all records in play and every bound.                    *)
(*                                                                         *)
(* StoreInv says at each place of the main program how the parser's        *)
(* coordinate system relates to the records: what a block has read stays   *)
(* true while it is executed, a record that is being written is not the    *)
(* active one or its new value is about to be taken over, and G54 can be   *)
(* read from boot on.                                                      *)
(*                                                                         *)
(* Sum says what a block is after the words of a set of places, whatever   *)
(* their order; the import of a line of any length is the Sum of all its   *)
(* places, so that two orders of the same words give the same block.       *)
(***************************************************************************)
EXTENDS GcodeStore, FiniteSetTheorems, SequenceTheorems, TLAPS

Selected == gc.modal.coord_select
Real     == state # "CHECK" /\ ~reset      \* check mode and a pending reset end in a boot
Restoring == pc = "restore" \/ (pc = "write" /\ next = "restore")
At(p)     == pc = p \/ (pc = "sync" /\ next = p)

\* The parts of the parser's state that are used below exist.
Shape ==
  /\ {"modal", "position", "coord_system", "coord_offset", "tool_length_offset", "feed_rate"}
       \subseteq DOMAIN gc
  /\ {"coord_select", "program_flow"} \subseteq DOMAIN gc.modal
  /\ Selected \in Records \cap CoordSystems
  /\ Records \subseteq DOMAIN eeprom

Places ==
  /\ pc = "power" => answer = "none"
  /\ pc = "write" => next \in {"idle", "motion", "data", "startup", "restore"}
  /\ pc = "sync" => next \in {"coord", "non_modal", "motion", "end"}
  /\ \/ pc \in Executing \cup {"parse", "sync"}
     \/ pc = "write" /\ next \in {"data", "motion"}
     => answer # "error"

\* G54 can be read, but before the first boot has repaired it.
Readable ==
  \/ eeprom["G54"].ok
  \/ pc \in {"power", "boot"}
  \/ answer = "none" /\ Restoring
  \/ pc = "write" /\ next = "startup" /\ job.record = "G54"

Current == eeprom[Selected].ok /\ eeprom[Selected].value = gc.coord_system

\* The active coordinate system is the stored one.
Tracks ==
  /\ Real =>
       \/ pc \in {"power", "boot", "data"} \/ Restoring
       \/ pc = "write" /\ next = "startup"
       \/ Current
  /\ pc = "write" /\ next = "startup" =>
       Selected = "G54" /\ job.record = "G54" /\ job.value = gc.coord_system
  /\ pc = "write" /\ next \in {"idle", "motion"} /\ Real => job.record # Selected
  /\ pc = "write" /\ next = "data" => job.record = block.record /\ job.value = block.data
  /\ pc = "data" /\ Real =>
       IF block.record = Selected
       THEN eeprom[Selected].ok /\ eeprom[Selected].value = block.data
       ELSE Current

\* The system that a block selects is the stored one.
Selects ==
  At("modes") \/ At("coord") =>
    /\ block.modal.coord_select \in Records \cap CoordSystems
    /\ block.modal.coord_select # Selected =>
         /\ eeprom[block.modal.coord_select].ok
         /\ eeprom[block.modal.coord_select].value = block.coord

Flagged == stale \in BOOLEAN /\ (stale => wco_counter = 0 \/ pc = "sync")

StoreInv == Shape /\ Places /\ Readable /\ Tracks /\ Selects /\ Flagged

\* The line that is executed, is stored or is being stored is a sequence of words, and the modal
\* state is a function.
IsFunction(f) == f = [x \in DOMAIN f |-> f[x]]
LineInv ==
  /\ line \in Line
  /\ "startup" \in DOMAIN eeprom /\ eeprom["startup"].value \in Line
  /\ pc = "write" /\ job.record = "startup" => job.value \in Line
  /\ At("modes") \/ At("coord") \/ At("non_modal") => block.record # "startup"
  /\ IsFunction(gc.modal)

\* What the proofs need of the operators.

\* An offset is made of three fields of the parser's state.
LEMMA WcoOf ==
  ASSUME NEW g, NEW h, g.coord_system = h.coord_system, g.coord_offset = h.coord_offset,
         g.tool_length_offset = h.tool_length_offset
  PROVE Wco(g) = Wco(h)
  BY DEF Wco, Tlo

\* The empty line is a line.
LEMMA NoLineIsLine == NoLine \in Line
  <1>1. <<>> \in Seq(Word)
    BY EmptySeq
  <1>2. QED
    BY <1>1 DEF NoLine, Line

\* The records that are not the startup line.
LEMMA OtherRecords == "startup" \notin Records \cup {"settings", "G54", "G28", "G30"}
  BY StoreAssumption DEF CoordSystems

\* What a power loss leaves of a startup line, cut or not, is a line.
LEMMA TornLine ==
  ASSUME NEW old \in Line, NEW new \in Line, NEW r \in Torn("startup", old, new)
  PROVE  r.value \in Line
  <1> DEFINE n == Len(new.words) \div 2
             cut == SubSeq(new.words, 1, n)
  <1>1. /\ new.words \in Seq(Word) /\ new.jog \in BOOLEAN
        /\ new = [jog |-> new.jog, words |-> new.words]
    BY DEF Line
  <1>2. Len(new.words) \in Nat
    BY <1>1, LenProperties
  <1>3. n \in Nat /\ n <= Len(new.words)
    <2> DEFINE m == Len(new.words)
    <2>1. m \in Nat
      BY <1>2
    <2> HIDE DEF m
    <2>2. m \div 2 \in Nat /\ m \div 2 <= m
      BY <2>1
    <2>3. QED
      BY <2>2 DEF m
  <1>4. \A i \in 1..n : new.words[i] \in Word
    <2> HIDE DEF n
    <2>1. \A i \in 1..n : i \in 1..Len(new.words)
      BY <1>2, <1>3
    <2>2. QED
      BY <1>1, <2>1, ElementOfSeq
  <1>5. cut \in Seq(Word)
    <2> HIDE DEF n
    <2>1. n \in Int /\ 1 \in Int
      BY <1>3
    <2>2. QED
      BY <1>4, <2>1, SubSeqProperties
  <1> HIDE DEF cut
  <1>6. [new EXCEPT !.words = cut] \in Line
    BY <1>1, <1>5 DEF Line
  <1>7. Blank("startup") = NoLine
    BY DEF Blank
  <1>8. Mixed("startup", old, new) = {old, new, [new EXCEPT !.words = cut]}
    BY DEF Mixed, cut
  <1>9. QED
    BY <1>6, <1>7, <1>8, NoLineIsLine DEF Torn

-----------------------------------------------------------------------------
\* The words of a line, in any order.

\* What holds of 0 and is passed on from each number to the next holds up to n.
LEMMA Upward ==
  ASSUME NEW n \in Nat, NEW T, 0 \in T, \A k \in 0..n-1 : k \in T => k+1 \in T
  PROVE  0..n \subseteq T
  <1> SUFFICES ASSUME NEW c \in 0..n, c \notin T
               PROVE  FALSE
    OBVIOUS
  <1> DEFINE R == {ss \in Nat \X Nat : ss[1] < ss[2]}
             U == {d \in 0..n : d \notin T}
  <1>1. PICK d \in U : \A e \in U : ~(<<e, d>> \in R)
    <2>1. IsWellFoundedOn(R, Nat)
      BY NatLessThanWellFounded DEF OpToRel
    <2>2. U \subseteq Nat /\ c \in U
      OBVIOUS
    <2> HIDE DEF R, U
    <2> QED
      BY <2>1, <2>2, WFMin
  <1>2. d \in 1..n /\ d-1 \in 0..n-1 /\ d-1 \in 0..n /\ d-1+1 = d
    <2>1. d \in 0..n /\ d # 0
      OBVIOUS
    <2>2. QED
      BY <2>1
  <1>3. d-1 \notin U
    <2>1. <<d-1, d>> \in R
      BY <1>2
    <2>2. QED
      BY <1>1, <2>1
  <1>4. d-1 \in T
    BY <1>2, <1>3
  <1>5. QED
    BY <1>2, <1>4

-----------------------------------------------------------------------------
\* The import of a line is a fold: a recursive function over sets of places, which is chosen
\* among all functions that satisfy its equation.

Folding(g, base, ws, D) ==
  g = [s \in SUBSET D |-> IF s = {} THEN base ELSE ImportWord(g[s \ {Max(s)}], ws[Max(s)])]

\* What FoldLeft stands for.
LEMMA FoldIs ==
  ASSUME NEW ws, NEW base
  PROVE  FoldLeft(ImportWord, base, ws) = (CHOOSE g : Folding(g, base, ws, DOMAIN ws))[DOMAIN ws]
  BY DEF FoldLeft, MapThenFoldSet, Folding

\* The greatest element of a set of numbers.
LEMMA MaxIs ==
  ASSUME NEW S \in SUBSET Nat, NEW m \in S, \A x \in S : x <= m
  PROVE  Max(S) = m
  <1>1. \E x \in S : \A y \in S : x >= y
    OBVIOUS
  <1>2. Max(S) \in S /\ \A y \in S : Max(S) >= y
    BY <1>1 DEF Max
  <1>3. Max(S) <= m /\ m <= Max(S) /\ Max(S) \in Nat /\ m \in Nat
    BY <1>2
  <1>4. QED
    BY <1>3

\* Such a function exists.
LEMMA FoldingExists ==
  ASSUME NEW n \in Nat, NEW ws, NEW base
  PROVE  \E g : Folding(g, base, ws, 1..n)
  <1> DEFINE T == {k \in 0..n : \E g : Folding(g, base, ws, 1..k)}
  <1>1. 0 \in T
    <2> DEFINE g == [s \in SUBSET (1..0) |-> base]
    <2>1. \A s \in SUBSET (1..0) : s = {}
      OBVIOUS
    <2>2. Folding(g, base, ws, 1..0)
      BY <2>1 DEF Folding
    <2>3. QED
      BY <2>2
  <1>2. ASSUME NEW k \in 0..n-1, k \in T
        PROVE  k+1 \in T
    <2>0. k \in Nat /\ k+1 \in 0..n /\ k+1 \in 1..k+1 /\ k+1 \notin 1..k
      OBVIOUS
    <2>1. PICK g : Folding(g, base, ws, 1..k)
      BY <1>2
    <2> DEFINE h == [s \in SUBSET (1..k+1) |->
                       IF k+1 \in s THEN ImportWord(g[s \ {k+1}], ws[k+1]) ELSE g[s]]
    <2>2. ASSUME NEW s \in SUBSET (1..k+1)
          PROVE  h[s] = IF s = {} THEN base ELSE ImportWord(h[s \ {Max(s)}], ws[Max(s)])
      <3>1. CASE k+1 \in s
        <4>1. Max(s) = k+1
          <5>1. s \in SUBSET Nat /\ \A x \in s : x <= k+1
            BY <2>0
          <5>2. QED
            BY <3>1, <5>1, MaxIs
        <4>2. s \ {k+1} \in SUBSET (1..k+1) /\ k+1 \notin s \ {k+1}
          BY <3>1
        <4>3. h[s \ {k+1}] = g[s \ {k+1}]
          BY <4>2
        <4>4. h[s] = ImportWord(g[s \ {k+1}], ws[k+1])
          BY <3>1
        <4> HIDE DEF h
        <4>5. QED
          BY <3>1, <4>1, <4>3, <4>4
      <3>2. CASE k+1 \notin s
        <4>1. s \in SUBSET (1..k)
          BY <2>0, <3>2
        <4>2. g[s] = IF s = {} THEN base ELSE ImportWord(g[s \ {Max(s)}], ws[Max(s)])
          BY <2>1, <4>1 DEF Folding
        <4>3. s \ {Max(s)} \in SUBSET (1..k+1) /\ k+1 \notin s \ {Max(s)}
          BY <3>2
        <4>4. h[s \ {Max(s)}] = g[s \ {Max(s)}] /\ h[s] = g[s]
          BY <3>2, <4>3
        <4> HIDE DEF h
        <4>5. QED
          BY <4>2, <4>4
      <3>3. QED
        BY <3>1, <3>2
    <2>3. Folding(h, base, ws, 1..k+1)
      <3>1. h = [s \in SUBSET (1..k+1) |-> h[s]]
        OBVIOUS
      <3> HIDE DEF h
      <3>2. QED
        BY <2>2, <3>1 DEF Folding
    <2>4. QED
      BY <2>0, <2>3
  <1>3. 0..n \subseteq T
    <2> HIDE DEF T
    <2>1. QED
      BY <1>1, <1>2, Upward
  <1>4. QED
    BY <1>3

\* The blocks after 0, 1, ... words.
LEMMA ImportIs ==
  ASSUME NEW W, NEW ws \in Seq(W), NEW base
  PROVE  \E b : /\ b[0] = base
                /\ \A k \in 1..Len(ws) : b[k] = ImportWord(b[k-1], ws[k])
                /\ FoldLeft(ImportWord, base, ws) = b[Len(ws)]
  <1> DEFINE n == Len(ws)
  <1>1. n \in Nat /\ DOMAIN ws = 1..n
    BY LenProperties
  <1>2. PICK g : Folding(g, base, ws, 1..n) /\ FoldLeft(ImportWord, base, ws) = g[1..n]
    <2> DEFINE g == CHOOSE g : Folding(g, base, ws, 1..n)
    <2>1. Folding(g, base, ws, 1..n)
      BY <1>1, FoldingExists
    <2>2. FoldLeft(ImportWord, base, ws) = g[1..n]
      BY <1>1, FoldIs
    <2>3. QED
      BY <2>1, <2>2
  <1> DEFINE b == [k \in 0..n |-> g[1..k]]
  <1>3. b[0] = base
    <2>1. 0 \in 0..n /\ 1..0 = {} /\ 1..0 \in SUBSET (1..n)
      BY <1>1
    <2>2. QED
      BY <1>2, <2>1 DEF Folding
  <1>4. ASSUME NEW k \in 1..n
        PROVE  b[k] = ImportWord(b[k-1], ws[k])
    <2>1. k \in 0..n /\ k-1 \in 0..n /\ 1..k \in SUBSET (1..n) /\ k \in 1..k /\ 1..k \in SUBSET Nat
          /\ (\A x \in 1..k : x <= k) /\ (1..k) \ {k} = 1..k-1
      BY <1>1
    <2>2. Max(1..k) = k
      BY <2>1, MaxIs
    <2>3. g[1..k] = ImportWord(g[(1..k) \ {Max(1..k)}], ws[Max(1..k)])
      BY <1>2, <2>1 DEF Folding
    <2>4. QED
      BY <2>1, <2>2, <2>3
  <1>5. FoldLeft(ImportWord, base, ws) = b[n]
    BY <1>1, <1>2
  <1> HIDE DEF b
  <1>6. QED
    BY <1>3, <1>4, <1>5

\* The fields of a block.
Shaped(b) ==
  /\ b = [ok |-> b.ok, jog |-> b.jog, non_modal |-> b.non_modal, axis_command |-> b.axis_command,
          groups |-> b.groups, value |-> b.value, modal |-> b.modal]
  /\ b.ok \in BOOLEAN /\ IsFunction(b.value) /\ IsFunction(b.modal)

IsCommand(w) == w[1] \in Commands
\* The modal state a word sets, and to what.
Sets(w, f) ==
  IF IsCommand(w) THEN GroupOf(w[1]) \in DOMAIN Field /\ w[1] # "M1" /\ f = Field[GroupOf(w[1])]
                  ELSE f = "thc" /\ w[1] = "H" /\ w[2] \in {0, 1}
To(w) == IF IsCommand(w) THEN w[1] ELSE w[2] = 0
\* Words that cannot be in a line, and pairs of words that cannot be in the same line.
Bad(w) == ~IsCommand(w) /\ w[1] \in {"F", "N", "P", "S", "T"} /\ w[2] < 0
Clash(v, w) ==
  \/ /\ IsCommand(v) /\ IsCommand(w)
     /\ \/ GroupOf(v[1]) = GroupOf(w[1])
        \/ AxisCommand(v[1]) # "none" /\ AxisCommand(w[1]) # "none"
  \/ ~IsCommand(v) /\ ~IsCommand(w) /\ v[1] = w[1]

\* What a block x is after the word w, in terms of the block b before.
After(x, b, w) ==
  /\ Shaped(x) /\ x.jog = b.jog /\ DOMAIN x.modal = DOMAIN b.modal
  /\ \A f \in DOMAIN b.modal : x.modal[f] = IF Sets(w, f) THEN To(w) ELSE b.modal[f]
  /\ IsCommand(w) =>
       /\ x.ok = (b.ok /\ GroupOf(w[1]) \notin b.groups
                       /\ ~(AxisCommand(w[1]) # "none" /\ b.axis_command # "none"))
       /\ x.groups = b.groups \cup {GroupOf(w[1])} /\ x.value = b.value
       /\ x.axis_command = IF AxisCommand(w[1]) # "none" THEN AxisCommand(w[1]) ELSE b.axis_command
       /\ x.non_modal = IF GroupOf(w[1]) = "G0" THEN w[1] ELSE b.non_modal
  /\ ~IsCommand(w) =>
       /\ x.ok = (b.ok /\ w[1] \notin DOMAIN b.value /\ ~Bad(w))
       /\ x.groups = b.groups /\ x.axis_command = b.axis_command /\ x.non_modal = b.non_modal
       /\ DOMAIN x.value = DOMAIN b.value \cup {w[1]}
       /\ \A l \in DOMAIN x.value : x.value[l] = IF l = w[1] THEN w[2] ELSE b.value[l]

\* The import of one word, field by field.
LEMMA ImportIsAfter ==
  ASSUME NEW b, Shaped(b), NEW w, NEW x, x = ImportWord(b, w)
  PROVE  After(x, b, w)
  <1> DEFINE c == w[1]
             g == GroupOf(c)
             a == AxisCommand(c)
  <1>1. CASE IsCommand(w)
    <2> DEFINE m == IF g \in DOMAIN Field /\ c # "M1" THEN [b.modal EXCEPT ![Field[g]] = c]
                                                     ELSE b.modal
    <2>1. x = [ok |-> b.ok /\ g \notin b.groups /\ ~(a # "none" /\ b.axis_command # "none"),
               jog |-> b.jog,
               non_modal |-> IF g = "G0" THEN c ELSE b.non_modal,
               axis_command |-> IF a # "none" THEN a ELSE b.axis_command,
               groups |-> b.groups \cup {g}, value |-> b.value, modal |-> m]
      <3>1. x = ImportCommand(b, c)
        BY <1>1 DEF IsCommand, ImportWord
      <3> HIDE DEF g, a, c
      <3>2. x = [b EXCEPT !.ok = /\ b.ok /\ g \notin b.groups
                                 /\ ~(a # "none" /\ b.axis_command # "none"),
                          !.groups = b.groups \cup {g},
                          !.axis_command = IF a # "none" THEN a ELSE b.axis_command,
                          !.non_modal = IF g = "G0" THEN c ELSE b.non_modal,
                          !.modal = m]
        BY <3>1 DEF ImportCommand, Shaped, g, a
      <3> HIDE DEF m
      <3>3. QED
        BY <3>2 DEF Shaped
    <2>2. IsFunction(m) /\ DOMAIN m = DOMAIN b.modal
          /\ \A f \in DOMAIN b.modal : m[f] = IF Sets(w, f) THEN To(w) ELSE b.modal[f]
      <3> HIDE DEF g
      <3>1. \A f : Sets(w, f) <=> g \in DOMAIN Field /\ c # "M1" /\ f = Field[g]
        BY <1>1 DEF Sets, g
      <3>2. To(w) = c
        BY <1>1 DEF To
      <3>3. IsFunction(b.modal)
        BY DEF Shaped
      <3>4. QED
        BY <3>1, <3>2, <3>3 DEF IsFunction
    <2> HIDE DEF m
    <2>3. QED
      BY <1>1, <2>1, <2>2 DEF After, Shaped
  <1>2. CASE ~IsCommand(w)
    <2> DEFINE v == w[2]
               t == IF c = "H" /\ v \in {0, 1} THEN v = 0 ELSE b.modal.thc
               m == [b.modal EXCEPT !.thc = t]
               u == [l \in DOMAIN b.value \cup {c} |-> IF l = c THEN v ELSE b.value[l]]
    <2>1. x = [ok |-> b.ok /\ c \notin DOMAIN b.value /\ ~Bad(w), jog |-> b.jog,
               non_modal |-> b.non_modal, axis_command |-> b.axis_command, groups |-> b.groups,
               value |-> u, modal |-> m]
      <3>1. x = ImportValue(b, c, v)
        BY <1>2 DEF IsCommand, ImportWord
      <3>2. Bad(w) <=> c \in {"F", "N", "P", "S", "T"} /\ v < 0
        BY <1>2 DEF Bad
      <3>3. x = [b EXCEPT !.ok = b.ok /\ c \notin DOMAIN b.value /\ ~Bad(w), !.value = u,
                          !.modal = m]
        BY <3>1, <3>2 DEF ImportValue, Shaped
      <3> HIDE DEF u, m
      <3>4. QED
        BY <3>3 DEF Shaped
    <2>2. IsFunction(m) /\ DOMAIN m = DOMAIN b.modal
          /\ \A f \in DOMAIN b.modal : m[f] = IF Sets(w, f) THEN To(w) ELSE b.modal[f]
      <3>1. \A f : Sets(w, f) <=> f = "thc" /\ c = "H" /\ v \in {0, 1}
        BY <1>2 DEF Sets
      <3>2. To(w) = (v = 0)
        BY <1>2 DEF To
      <3>3. IsFunction(b.modal)
        BY DEF Shaped
      <3>4. QED
        BY <3>1, <3>2, <3>3 DEF IsFunction
    <2>3. IsFunction(u) /\ DOMAIN u = DOMAIN b.value \cup {c}
          /\ \A l \in DOMAIN u : u[l] = IF l = c THEN v ELSE b.value[l]
      BY DEF IsFunction
    <2> HIDE DEF m, u
    <2>4. QED
      BY <1>2, <2>1, <2>2, <2>3 DEF After, Shaped
  <1>3. QED
    BY <1>1, <1>2

\* The block b says what the word w says.
Kept(b, w) ==
  /\ \A f \in DOMAIN b.modal : Sets(w, f) => b.modal[f] = To(w)
  /\ IsCommand(w) =>
       /\ AxisCommand(w[1]) # "none" => b.axis_command = AxisCommand(w[1])
       /\ GroupOf(w[1]) = "G0" => b.non_modal = w[1]
  /\ ~IsCommand(w) => b.value[w[1]] = w[2]

\* What a block is after the words of the places P, whatever their order.
Sum(b, base, ws, P) ==
  /\ Shaped(b) /\ b.jog = base.jog /\ DOMAIN b.modal = DOMAIN base.modal
  /\ b.ok = /\ \A i \in P : ~Bad(ws[i])
            /\ \A i, j \in P : i # j => ~Clash(ws[i], ws[j])
  /\ \A g : g \in b.groups <=> \E i \in P : IsCommand(ws[i]) /\ g = GroupOf(ws[i][1])
  /\ \A l : l \in DOMAIN b.value <=> \E i \in P : ~IsCommand(ws[i]) /\ l = ws[i][1]
  /\ b.axis_command # "none" <=> \E i \in P : IsCommand(ws[i]) /\ AxisCommand(ws[i][1]) # "none"
  /\ (\A i \in P : IsCommand(ws[i]) => GroupOf(ws[i][1]) # "G0") => b.non_modal = base.non_modal
  /\ \A f \in DOMAIN b.modal : (\A i \in P : ~Sets(ws[i], f)) => b.modal[f] = base.modal[f]
  /\ b.ok => \A i \in P : Kept(b, ws[i])

\* Different groups are kept in different fields.
LEMMA FieldFacts ==
  /\ "G0" \notin DOMAIN Field
  /\ \A g \in DOMAIN Field : Field[g] # "thc"
  /\ \A g, h \in DOMAIN Field : Field[g] = Field[h] => g = h
  BY DEF Field

\* Two words that set the same modal state clash.
LEMMA SettersClash ==
  ASSUME NEW v, NEW w, NEW f, Sets(v, f), Sets(w, f)
  PROVE  Clash(v, w)
  BY FieldFacts DEF Sets, Clash

\* It does not matter which of two clashing words comes first.
LEMMA ClashSymmetric ==
  ASSUME NEW v, NEW w, Clash(v, w)
  PROVE  Clash(w, v)
  BY DEF Clash

\* One more word: nothing in Sum says which one came last.
LEMMA SumStep ==
  ASSUME NEW b, NEW base, NEW ws, NEW P, NEW p, p \notin P, Sum(b, base, ws, P),
         NEW x, After(x, b, ws[p])
  PROVE  Sum(x, base, ws, P \cup {p})
  <1> DEFINE w == ws[p]
             Q == P \cup {p}
  <1>1. /\ Shaped(x) /\ x.jog = base.jog /\ DOMAIN x.modal = DOMAIN base.modal
        /\ DOMAIN x.modal = DOMAIN b.modal
    BY DEF Sum, After
  <1>2. b.ok \in BOOLEAN /\ x.ok \in BOOLEAN
    BY <1>1 DEF Sum, Shaped
  <1>3. x.ok <=> b.ok /\ ~Bad(w) /\ \A i \in P : ~Clash(ws[i], w)
    <2>1. CASE IsCommand(w)
      <3>1. GroupOf(w[1]) \in b.groups <=>
              \E i \in P : IsCommand(ws[i]) /\ GroupOf(w[1]) = GroupOf(ws[i][1])
        BY DEF Sum
      <3>2. b.axis_command # "none" <=>
              \E i \in P : IsCommand(ws[i]) /\ AxisCommand(ws[i][1]) # "none"
        BY DEF Sum
      <3>3. ~Bad(w)
        BY <2>1 DEF Bad
      <3>4. x.ok <=> b.ok /\ GroupOf(w[1]) \notin b.groups
                          /\ ~(AxisCommand(w[1]) # "none" /\ b.axis_command # "none")
        BY <1>2, <2>1 DEF After
      <3>5. \A i \in P : Clash(ws[i], w) <=>
              /\ IsCommand(ws[i])
              /\ \/ GroupOf(ws[i][1]) = GroupOf(w[1])
                 \/ AxisCommand(ws[i][1]) # "none" /\ AxisCommand(w[1]) # "none"
        BY <2>1 DEF Clash
      <3> HIDE DEF w
      <3>6. QED
        BY <3>1, <3>2, <3>3, <3>4, <3>5
    <2>2. CASE ~IsCommand(w)
      <3>1. w[1] \in DOMAIN b.value <=> \E i \in P : ~IsCommand(ws[i]) /\ w[1] = ws[i][1]
        BY DEF Sum
      <3>2. x.ok <=> b.ok /\ w[1] \notin DOMAIN b.value /\ ~Bad(w)
        BY <1>2, <2>2 DEF After
      <3>3. \A i \in P : Clash(ws[i], w) <=> ~IsCommand(ws[i]) /\ ws[i][1] = w[1]
        BY <2>2 DEF Clash
      <3> HIDE DEF w
      <3>4. QED
        BY <3>1, <3>2, <3>3
    <2>3. QED
      BY <2>1, <2>2
  <1>4. x.ok = /\ \A i \in Q : ~Bad(ws[i])
               /\ \A i, j \in Q : i # j => ~Clash(ws[i], ws[j])
    <2>1. b.ok <=> /\ \A i \in P : ~Bad(ws[i])
                   /\ \A i, j \in P : i # j => ~Clash(ws[i], ws[j])
      BY DEF Sum
    <2>2. (\A i \in Q : ~Bad(ws[i])) <=> ~Bad(w) /\ \A i \in P : ~Bad(ws[i])
      OBVIOUS
    <2>3. (\A i, j \in Q : i # j => ~Clash(ws[i], ws[j])) <=>
            /\ \A i, j \in P : i # j => ~Clash(ws[i], ws[j])
            /\ \A i \in P : ~Clash(ws[i], w)
      BY ClashSymmetric
    <2>4. x.ok <=> /\ \A i \in Q : ~Bad(ws[i])
                   /\ \A i, j \in Q : i # j => ~Clash(ws[i], ws[j])
      BY <1>3, <2>1, <2>2, <2>3
    <2>5. QED
      BY <1>2, <2>4
  <1>5. \A g : g \in x.groups <=> \E i \in Q : IsCommand(ws[i]) /\ g = GroupOf(ws[i][1])
    BY DEF Sum, After
  <1>6. \A l : l \in DOMAIN x.value <=> \E i \in Q : ~IsCommand(ws[i]) /\ l = ws[i][1]
    BY DEF Sum, After
  <1>7. x.axis_command # "none" <=> \E i \in Q : IsCommand(ws[i]) /\ AxisCommand(ws[i][1]) # "none"
    BY DEF Sum, After
  <1>8. (\A i \in Q : IsCommand(ws[i]) => GroupOf(ws[i][1]) # "G0") => x.non_modal = base.non_modal
    BY DEF Sum, After
  <1>9. ASSUME NEW f \in DOMAIN x.modal, \A i \in Q : ~Sets(ws[i], f)
        PROVE  x.modal[f] = base.modal[f]
    BY <1>1, <1>9 DEF Sum, After
  <1>10. ASSUME x.ok, NEW i \in Q
         PROVE  Kept(x, ws[i])
    <2>1. CASE i = p
      <3>1. ~IsCommand(w) => w[1] \in DOMAIN x.value
        BY DEF After
      <3>2. QED
        BY <1>1, <2>1, <3>1 DEF Kept, After
    <2>2. CASE i # p
      <3>1. i \in P /\ ~Clash(ws[i], w) /\ Kept(b, ws[i])
        BY <1>3, <1>10, <2>2 DEF Sum
      <3>2. \A f : Sets(ws[i], f) => ~Sets(w, f)
        BY <3>1, SettersClash
      <3>3. \A f \in DOMAIN x.modal : Sets(ws[i], f) => x.modal[f] = To(ws[i])
        BY <1>1, <3>1, <3>2 DEF Kept, After
      <3>4. ASSUME IsCommand(ws[i])
            PROVE  /\ AxisCommand(ws[i][1]) # "none" => x.axis_command = AxisCommand(ws[i][1])
                   /\ GroupOf(ws[i][1]) = "G0" => x.non_modal = ws[i][1]
        BY <3>1, <3>4 DEF Kept, After, Clash
      <3>5. ASSUME ~IsCommand(ws[i])
            PROVE  x.value[ws[i][1]] = ws[i][2]
        <4>1. ws[i][1] \in DOMAIN x.value
          BY <1>6, <3>5
        <4>2. QED
          BY <3>1, <3>5, <4>1 DEF Kept, After, Clash
      <3>6. QED
        BY <3>3, <3>4, <3>5 DEF Kept
    <2>3. QED
      BY <2>1, <2>2
  <1>11. QED
    BY <1>1, <1>4, <1>5, <1>6, <1>7, <1>8, <1>9, <1>10 DEF Sum

\* A line without words.
LEMMA SumOfNone ==
  ASSUME NEW modal, IsFunction(modal), NEW jog, NEW ws
  PROVE  LET base == NewBlock(modal, jog) IN Sum(base, base, ws, {})
  <1> DEFINE base == NewBlock(modal, jog)
  <1>1. base.ok = TRUE /\ base.groups = {} /\ base.axis_command = "none" /\ base.value = <<>>
        /\ base.modal = IF jog THEN [modal EXCEPT !.motion = "G1", !.feed_rate = "G94"] ELSE modal
    BY DEF NewBlock
  <1>2. IsFunction(base.modal)
    BY <1>1 DEF IsFunction
  <1>3. IsFunction(base.value) /\ DOMAIN base.value = {}
    BY <1>1 DEF IsFunction
  <1>4. base = [ok |-> base.ok, jog |-> base.jog, non_modal |-> base.non_modal,
                axis_command |-> base.axis_command, groups |-> base.groups, value |-> base.value,
                modal |-> base.modal]
    BY DEF NewBlock
  <1> HIDE DEF base
  <1>5. Shaped(base)
    BY <1>1, <1>2, <1>3, <1>4 DEF Shaped
  <1>6. Sum(base, base, ws, {})
    BY <1>1, <1>3, <1>5 DEF Sum
  <1>7. QED
    BY <1>6 DEF base

\* The import of a line is the sum of its words.
LEMMA ImportSum ==
  ASSUME NEW W, NEW l, l.words \in Seq(W), NEW modal, IsFunction(modal)
  PROVE  Sum(Import(l, modal), NewBlock(modal, l.jog), l.words, 1..Len(l.words))
  <1> DEFINE base == NewBlock(modal, l.jog)
             ws == l.words
             n == Len(ws)
  <1>1. n \in Nat /\ ws \in Seq(W)
    BY LenProperties
  <1> HIDE DEF ws, base, n
  <1>2. PICK b : /\ b[0] = base
                 /\ \A k \in 1..n : b[k] = ImportWord(b[k-1], ws[k])
                 /\ FoldLeft(ImportWord, base, ws) = b[n]
    BY <1>1, ImportIs DEF n
  <1> DEFINE T == {k \in 0..n : Sum(b[k], base, ws, 1..k)}
  <1>3. 0 \in T
    <2>1. Sum(base, base, ws, {})
      BY SumOfNone DEF base
    <2>2. 1..0 = {} /\ 0 \in 0..n
      BY <1>1
    <2>3. QED
      BY <1>2, <2>1, <2>2
  <1>4. ASSUME NEW k \in 0..n-1, k \in T
        PROVE  k+1 \in T
    <2>1. k+1 \in 1..n /\ k+1 \in 0..n /\ k+1-1 = k /\ k+1 \notin 1..k /\ 1..k+1 = (1..k) \cup {k+1}
      BY <1>1
    <2>2. b[k+1] = ImportWord(b[k], ws[k+1])
      BY <1>2, <2>1
    <2>3. Sum(b[k], base, ws, 1..k)
      BY <1>4
    <2>4. After(b[k+1], b[k], ws[k+1])
      BY <2>2, <2>3, ImportIsAfter DEF Sum
    <2>5. Sum(b[k+1], base, ws, (1..k) \cup {k+1})
      BY <2>1, <2>3, <2>4, SumStep
    <2>6. QED
      BY <2>1, <2>5
  <1>5. n \in T
    <2> HIDE DEF T
    <2>1. 0..n \subseteq T
      BY <1>1, <1>3, <1>4, Upward
    <2>2. QED
      BY <1>1, <2>1
  <1>6. QED
    BY <1>2, <1>5 DEF Import, base, ws, n

\* Two blocks with the same words in two orders.
LEMMA OrdersAgree ==
  ASSUME NEW b, NEW c, NEW base, NEW ws, NEW vs, NEW P, NEW p \in [P -> P],
         Sum(b, base, ws, P), Sum(c, base, vs, P),
         \A i \in P : vs[i] = ws[p[i]],
         \A i, j \in P : p[i] = p[j] => i = j,
         \A j \in P : \E i \in P : p[i] = j
  PROVE  /\ c.ok = b.ok
         /\ b.ok => c = b
  <1>1. c.ok = b.ok
    <2>1. ASSUME b.ok
          PROVE  c.ok
      <3>0. \A i \in P : ~Bad(ws[i])
        BY <2>1 DEF Sum
      <3>1. \A i \in P : ~Bad(vs[i])
        BY <3>0
      <3>2. \A i, j \in P : i # j => ~Clash(vs[i], vs[j])
        <4> TAKE i, j \in P
        <4>1. i # j => p[i] \in P /\ p[j] \in P /\ p[i] # p[j]
          OBVIOUS
        <4>2. i # j => ~Clash(ws[p[i]], ws[p[j]])
          BY <2>1, <4>1 DEF Sum
        <4>3. QED
          BY <4>2
      <3>3. QED
        BY <3>1, <3>2 DEF Sum
    <2>2. ASSUME c.ok
          PROVE  b.ok
      <3>1. ASSUME NEW i \in P
            PROVE  ~Bad(ws[i])
        <4>1. PICK k \in P : p[k] = i
          OBVIOUS
        <4>2. ~Bad(vs[k])
          BY <2>2 DEF Sum
        <4>3. QED
          BY <4>1, <4>2
      <3>2. ASSUME NEW i \in P, NEW j \in P, i # j
            PROVE  ~Clash(ws[i], ws[j])
        <4>1. PICK k \in P, m \in P : p[k] = i /\ p[m] = j
          OBVIOUS
        <4>2. k # m
          BY <3>2, <4>1
        <4>3. ~Clash(vs[k], vs[m])
          BY <2>2, <4>2 DEF Sum
        <4>4. QED
          BY <4>1, <4>3
      <3>3. QED
        BY <3>1, <3>2 DEF Sum
    <2>3. b.ok \in BOOLEAN /\ c.ok \in BOOLEAN
      BY DEF Sum, Shaped
    <2>4. QED
      BY <2>1, <2>2, <2>3
  <1>2. ASSUME b.ok
        PROVE  c = b
    <2>0. c.ok
      BY <1>1, <1>2
    <2>1. \A i \in P : Kept(b, ws[i])
      BY <1>2 DEF Sum
    <2>2. \A i \in P : Kept(c, vs[i])
      BY <2>0 DEF Sum
    <2>3. c.groups = b.groups
      <3>1. \A g : g \in b.groups <=> \E i \in P : IsCommand(ws[i]) /\ g = GroupOf(ws[i][1])
        BY DEF Sum
      <3>2. \A g : g \in c.groups <=> \E i \in P : IsCommand(vs[i]) /\ g = GroupOf(vs[i][1])
        BY DEF Sum
      <3>3. \A g : g \in c.groups <=> g \in b.groups
        BY <3>1, <3>2
      <3>4. b.groups = {g \in b.groups : TRUE} /\ c.groups = {g \in c.groups : TRUE}
        OBVIOUS
      <3>5. QED
        BY <3>3
    <2>4. c.value = b.value
      <3>1. \A l : l \in DOMAIN b.value <=> \E i \in P : ~IsCommand(ws[i]) /\ l = ws[i][1]
        BY DEF Sum
      <3>2. \A l : l \in DOMAIN c.value <=> \E i \in P : ~IsCommand(vs[i]) /\ l = vs[i][1]
        BY DEF Sum
      <3>3. DOMAIN c.value = DOMAIN b.value
        <4>1. \A l : l \in DOMAIN c.value <=> l \in DOMAIN b.value
          BY <3>1, <3>2
        <4>2. QED
          BY <4>1
      <3>4. ASSUME NEW l \in DOMAIN c.value
            PROVE  c.value[l] = b.value[l]
        <4>1. PICK i \in P : ~IsCommand(vs[i]) /\ l = vs[i][1]
          BY <3>2
        <4>2. p[i] \in P /\ vs[i] = ws[p[i]]
          OBVIOUS
        <4>3. c.value[l] = vs[i][2]
          BY <2>2, <4>1 DEF Kept
        <4>4. b.value[l] = vs[i][2]
          BY <2>1, <4>1, <4>2 DEF Kept
        <4>5. QED
          BY <4>3, <4>4
      <3>5. IsFunction(b.value) /\ IsFunction(c.value)
        BY DEF Sum, Shaped
      <3>6. QED
        BY <3>3, <3>4, <3>5 DEF IsFunction
    <2>5. c.axis_command = b.axis_command
      <3>1. CASE \E i \in P : IsCommand(vs[i]) /\ AxisCommand(vs[i][1]) # "none"
        <4>1. PICK i \in P : IsCommand(vs[i]) /\ AxisCommand(vs[i][1]) # "none"
          BY <3>1
        <4>2. p[i] \in P /\ vs[i] = ws[p[i]]
          OBVIOUS
        <4>3. c.axis_command = AxisCommand(vs[i][1])
          BY <2>2, <4>1 DEF Kept
        <4>4. b.axis_command = AxisCommand(vs[i][1])
          BY <2>1, <4>1, <4>2 DEF Kept
        <4>5. QED
          BY <4>3, <4>4
      <3>2. CASE ~\E i \in P : IsCommand(vs[i]) /\ AxisCommand(vs[i][1]) # "none"
        <4>1. ~\E i \in P : IsCommand(ws[i]) /\ AxisCommand(ws[i][1]) # "none"
          BY <3>2
        <4>2. c.axis_command = "none" /\ b.axis_command = "none"
          BY <3>2, <4>1 DEF Sum
        <4>3. QED
          BY <4>2
      <3>3. QED
        BY <3>1, <3>2
    <2>6. c.non_modal = b.non_modal
      <3>1. CASE \E i \in P : IsCommand(vs[i]) /\ GroupOf(vs[i][1]) = "G0"
        <4>1. PICK i \in P : IsCommand(vs[i]) /\ GroupOf(vs[i][1]) = "G0"
          BY <3>1
        <4>2. p[i] \in P /\ vs[i] = ws[p[i]]
          OBVIOUS
        <4>3. c.non_modal = vs[i][1]
          BY <2>2, <4>1 DEF Kept
        <4>4. b.non_modal = vs[i][1]
          BY <2>1, <4>1, <4>2 DEF Kept
        <4>5. QED
          BY <4>3, <4>4
      <3>2. CASE ~\E i \in P : IsCommand(vs[i]) /\ GroupOf(vs[i][1]) = "G0"
        <4>1. \A i \in P : IsCommand(ws[i]) => GroupOf(ws[i][1]) # "G0"
          BY <3>2
        <4>2. c.non_modal = base.non_modal /\ b.non_modal = base.non_modal
          BY <3>2, <4>1 DEF Sum
        <4>3. QED
          BY <4>2
      <3>3. QED
        BY <3>1, <3>2
    <2>7. c.modal = b.modal
      <3>1. DOMAIN c.modal = DOMAIN b.modal
        BY DEF Sum
      <3>2. ASSUME NEW f \in DOMAIN c.modal
            PROVE  c.modal[f] = b.modal[f]
        <4>1. CASE \E i \in P : Sets(vs[i], f)
          <5>1. PICK i \in P : Sets(vs[i], f)
            BY <4>1
          <5>2. p[i] \in P /\ vs[i] = ws[p[i]]
            OBVIOUS
          <5>3. c.modal[f] = To(vs[i])
            BY <2>2, <5>1 DEF Kept
          <5>4. b.modal[f] = To(vs[i])
            BY <2>1, <3>1, <5>1, <5>2 DEF Kept
          <5>5. QED
            BY <5>3, <5>4
        <4>2. CASE ~\E i \in P : Sets(vs[i], f)
          <5>1. \A i \in P : ~Sets(ws[i], f)
            BY <4>2
          <5>2. c.modal[f] = base.modal[f]
            BY <4>2 DEF Sum
          <5>3. b.modal[f] = base.modal[f]
            BY <3>1, <5>1 DEF Sum
          <5>4. QED
            BY <5>2, <5>3
        <4>3. QED
          BY <4>1, <4>2
      <3>3. IsFunction(b.modal) /\ IsFunction(c.modal)
        BY DEF Sum, Shaped
      <3>4. QED
        BY <3>1, <3>2, <3>3 DEF IsFunction
    <2>8. c.ok = b.ok /\ c.jog = b.jog /\ Shaped(b) /\ Shaped(c)
      BY <1>1 DEF Sum
    <2>9. QED
      BY <2>3, <2>4, <2>5, <2>6, <2>7, <2>8, Zenon DEF Shaped
  <1>3. QED
    BY <1>1, <1>2

\* An order of the words leaves none out.
LEMMA OneToOne ==
  ASSUME NEW n \in Nat, NEW p \in [1..n -> 1..n], \A i, j \in 1..n : p[i] = p[j] => i = j
  PROVE  \A j \in 1..n : \E i \in 1..n : p[i] = j
  <1>1. p \in Injection(1..n, 1..n)
    BY DEF Injection, IsInjective
  <1>2. IsFiniteSet(1..n)
    BY FS_Interval
  <1>3. p \in Surjection(1..n, 1..n)
    BY <1>1, <1>2, FS_Injection
  <1>4. QED
    BY <1>3 DEF Surjection

-----------------------------------------------------------------------------
\* StoreInv, action by action.

USE StoreAssumption DEF Selected, Real, Restoring, At, Current, Step, Idle, Write, SetGc, FlagWco

LEMMA InitInv == Init => StoreInv
  BY DEF Init, StoreInv, Shape, Places, Executing, Readable, Tracks, Selects, Flagged,
     InitGc, DefaultModal, CoordSystems

LEMMA PowerOnInv == StoreInv /\ PowerOn => StoreInv'
  BY DEF PowerOn, StoreInv, Shape, Places, Executing, Readable, Tracks, Selects, Flagged,
     volatile, CoordSystems

LEMMA RestoreInv == StoreInv /\ Restore => StoreInv'
  BY DEF Restore, StoreInv, Shape, Places, Executing, Readable, Tracks, Selects, Flagged,
     volatile, CoordSystems

LEMMA BootInv == StoreInv /\ Boot => StoreInv'
  <1> SUFFICES ASSUME StoreInv, Boot PROVE StoreInv'
    OBVIOUS
  <1> USE DEF StoreInv
  <1>1. Shape'
    BY DEF Boot, Shape, Selects, volatile, CoordSystems, InitGc, DefaultModal
  <1>2. Places'
    BY DEF Boot, Places, Executing, volatile, CoordSystems, InitGc, DefaultModal
  <1>3. Readable'
    BY DEF Boot, Places, Executing, Readable, volatile, CoordSystems, InitGc, DefaultModal
  <1>4. Tracks'
    BY DEF Boot, Shape, Readable, Tracks, Selects, volatile, CoordSystems, InitGc, DefaultModal
  <1>5. Selects'
    BY DEF Boot, Shape, Tracks, Selects, volatile, CoordSystems, InitGc, DefaultModal
  <1>6. Flagged'
    BY WcoOf DEF Boot, Flagged, Shape, volatile, InitGc, DefaultModal
  <1> QED
    BY <1>1, <1>2, <1>3, <1>4, <1>5, <1>6

LEMMA StartupInv == StoreInv /\ Startup => StoreInv'
  BY DEF Startup, StoreInv, Shape, Places, Executing, Readable, Tracks, Selects, Flagged,
     volatile, CoordSystems

LEMMA ReceiveLineInv == StoreInv /\ ReceiveLine => StoreInv'
  BY DEF ReceiveLine, StoreInv, Shape, Places, Executing, Readable, Tracks, Selects, Flagged,
     volatile, CoordSystems

LEMMA ParseLineOwn == StoreInv /\ ParseLine => Tracks' /\ Selects'
  <1> SUFFICES ASSUME StoreInv, ParseLine PROVE Tracks' /\ Selects'
    OBVIOUS
  <1> USE DEF StoreInv
  <1> DEFINE b == Import(line, gc.modal)
             verdict == Verdict(b, gc, eeprom)
  <1>0. InPlay(b) /\ verdict # "error" =>
          /\ verdict = "ok" /\ SelectsCoord(b, gc) => eeprom[b.modal.coord_select].ok
          /\ verdict # "ok" => \/ verdict = b.modal.coord_select /\ SelectsCoord(b, gc)
                               \/ ~eeprom[verdict].ok
    <2> HIDE DEF b
    <2> QED
      BY StoreAssumption DEF Verdict, InPlay, CoordSystems
  <1>a. CASE verdict = "ok" /\ ~b.jog
    <2>1. InPlay(b) /\ block' = Ready(b) /\ pc' = "modes"
          /\ UNCHANGED <<gc, eeprom, state, reset, next, answer>>
      BY <1>a DEF ParseLine
    <2>2. block'.modal = b.modal /\ block'.coord = BlockCoord(b, gc, eeprom)
      BY <2>1 DEF Ready
    <2> HIDE DEF b, verdict
    <2>3. SelectsCoord(b, gc) => eeprom[b.modal.coord_select].ok
      BY <1>0, <1>a, <2>1
    <2>4. Selects'
      BY <2>1, <2>2, <2>3 DEF Selects, InPlay, SelectsCoord, BlockCoord
    <2>5. Tracks'
      BY <2>1, <1>a DEF ParseLine, Tracks
    <2> QED
      BY <2>4, <2>5
  <1>b. CASE ~(verdict = "ok" /\ ~b.jog)
    <2>1. Selects'
      BY <1>b DEF ParseLine, Selects, Reject
    <2>3. CASE verdict \in {"ok", "error"}
      <3>1. pc' = "idle" /\ gc'.modal = gc.modal /\ gc'.coord_system = gc.coord_system
        BY <2>3, <1>b DEF ParseLine, Reject, Shape
      <3> QED
        BY <2>1, <2>3, <3>1 DEF ParseLine, Tracks
    <2>4. CASE verdict \notin {"ok", "error"}
      <3>1. InPlay(b) /\ Write(verdict, Zero, "idle") /\ UNCHANGED <<gc, eeprom, state, reset>>
        BY <2>4 DEF ParseLine
      <3>2. Real => Current
        BY DEF Tracks, ParseLine, Restoring
      <3> HIDE DEF b, verdict
      <3>3. Real => verdict # Selected
        BY <1>0, <3>1, <3>2, <2>4 DEF SelectsCoord
      <3> QED
        BY <2>1, <3>1, <3>2, <3>3 DEF Tracks
    <2> QED
      BY <2>1, <2>3, <2>4
  <1> QED
    BY <1>a, <1>b

LEMMA ParseLineInv == StoreInv /\ ParseLine => StoreInv'
  <1> SUFFICES ASSUME StoreInv, ParseLine PROVE StoreInv'
    OBVIOUS
  <1> USE DEF StoreInv
  <1>1. Shape'
    BY DEF ParseLine, Shape, Selects, volatile, CoordSystems, Ready, InPlay, Reject
  <1>2. Places'
    BY DEF ParseLine, Places, Executing, volatile, CoordSystems, Ready, InPlay, Reject
  <1>3. Readable'
    BY DEF ParseLine, Places, Executing, Readable, volatile, CoordSystems, Ready, InPlay, Reject
  <1>4. Tracks'
    BY ParseLineOwn
  <1>5. Selects'
    BY ParseLineOwn
  <1>6. Flagged'
    BY WcoOf DEF ParseLine, Flagged, Shape, volatile, Ready, InPlay, Reject
  <1> QED
    BY <1>1, <1>2, <1>3, <1>4, <1>5, <1>6

LEMMA SetModesOwn == StoreInv /\ SetModes => Flagged'
  <1> SUFFICES ASSUME StoreInv, SetModes PROVE Flagged'
    OBVIOUS
  <1>1. NewModes(ToolLength).coord_system = gc.coord_system
        /\ NewModes(ToolLength).coord_offset = gc.coord_offset
        /\ NewModes(ToolLength).tool_length_offset = ToolLength
    BY DEF StoreInv, Shape, NewModes
  <1>2. CASE ToolLength = gc.tool_length_offset
    <2>1. Wco(NewModes(ToolLength)) = Wco(gc)
      BY <1>1, <1>2, WcoOf
    <2> QED
      BY <2>1, <1>2 DEF SetModes, Flagged, StoreInv
  <1>3. CASE ToolLength # gc.tool_length_offset
    BY <1>3 DEF SetModes, Flagged, StoreInv
  <1> QED
    BY <1>2, <1>3

LEMMA SetModesInv == StoreInv /\ SetModes => StoreInv'
  <1> SUFFICES ASSUME StoreInv, SetModes PROVE StoreInv'
    OBVIOUS
  <1> USE DEF StoreInv
  <1>1. Shape'
    BY DEF SetModes, Shape, Selects, volatile, CoordSystems, NewModes
  <1>2. Places'
    BY DEF SetModes, Places, Executing, volatile, CoordSystems, NewModes
  <1>3. Readable'
    BY DEF SetModes, Places, Executing, Readable, volatile, CoordSystems, NewModes
  <1>4. Tracks'
    BY DEF SetModes, Shape, Readable, Tracks, Selects, volatile, CoordSystems, NewModes
  <1>5. Selects'
    BY DEF SetModes, Shape, Tracks, Selects, volatile, CoordSystems, NewModes
  <1>6. Flagged'
    BY SetModesOwn
  <1> QED
    BY <1>1, <1>2, <1>3, <1>4, <1>5, <1>6

LEMMA SelectCoordOwn == StoreInv /\ SelectCoord => Shape' /\ Tracks'
  <1> SUFFICES ASSUME StoreInv, SelectCoord PROVE Shape' /\ Tracks'
    OBVIOUS
  <1> USE DEF StoreInv
  <1>1. (Real => Current) /\ pc' \in {"sync", "non_modal"}
    BY DEF Tracks, SelectCoord
  <1>2. CASE block.modal.coord_select # Selected
    <2>1. /\ block.modal.coord_select \in Records \cap CoordSystems
          /\ eeprom[block.modal.coord_select].ok
          /\ eeprom[block.modal.coord_select].value = block.coord
      BY <1>2 DEF Selects, SelectCoord
    <2>2. gc' = [gc EXCEPT !.modal.coord_select = block.modal.coord_select,
                           !.coord_system = block.coord]
      BY <1>2 DEF SelectCoord
    <2>3. Shape'
      BY <2>1, <2>2 DEF Shape, SelectCoord
    <2>4. Current'
      BY <2>1, <2>2 DEF Shape, SelectCoord
    <2> QED
      BY <2>3, <2>4, <1>1 DEF Tracks
  <1>3. CASE block.modal.coord_select = Selected
    BY <1>1, <1>3 DEF SelectCoord, Shape, Tracks
  <1> QED
    BY <1>2, <1>3

LEMMA SelectCoordInv == StoreInv /\ SelectCoord => StoreInv'
  <1> SUFFICES ASSUME StoreInv, SelectCoord PROVE StoreInv'
    OBVIOUS
  <1> USE DEF StoreInv
  <1>1. Shape'
    BY SelectCoordOwn
  <1>2. Places'
    BY DEF SelectCoord, Places, Executing, volatile, CoordSystems
  <1>3. Readable'
    BY DEF SelectCoord, Places, Executing, Readable, volatile, CoordSystems
  <1>4. Tracks'
    BY SelectCoordOwn
  <1>5. Selects'
    BY DEF SelectCoord, Shape, Tracks, Selects, volatile, CoordSystems
  <1>6. Flagged'
    BY WcoOf DEF SelectCoord, Flagged, Shape, volatile
  <1> QED
    BY <1>1, <1>2, <1>3, <1>4, <1>5, <1>6

LEMMA NonModalOwn == StoreInv /\ NonModal => Tracks'
  <1> SUFFICES ASSUME StoreInv, NonModal PROVE Tracks'
    OBVIOUS
  <1>1. /\ gc'.modal.coord_select = Selected /\ gc'.coord_system = gc.coord_system
        /\ UNCHANGED <<eeprom, block>> /\ (Real' => Real)
    BY DEF NonModal, StoreInv, Shape, MoveTo
  <1>2. Real => Current /\ Selected \in CoordSystems
    BY DEF StoreInv, Tracks, NonModal, Shape
  <1>3. CASE block.non_modal = "G10"
    BY <1>1, <1>2, <1>3 DEF NonModal, Tracks
  <1>4. CASE block.non_modal \in {"G28.1", "G30.1"}
    BY <1>1, <1>2, <1>4 DEF NonModal, Tracks, CoordSystems
  <1>5. CASE block.non_modal \notin {"G10", "G28.1", "G30.1"}
    <2>1. pc' \in {"motion", "sync"}
      BY <1>5 DEF NonModal
    <2> QED
      BY <1>1, <1>2, <2>1 DEF Tracks
  <1> QED
    BY <1>3, <1>4, <1>5

LEMMA NonModalInv == StoreInv /\ NonModal => StoreInv'
  <1> SUFFICES ASSUME StoreInv, NonModal PROVE StoreInv'
    OBVIOUS
  <1> USE DEF StoreInv
  <1>1. Shape'
    <2>1. eeprom' = eeprom
      BY DEF NonModal, Step, Write, volatile
    <2>2. /\ DOMAIN gc' = DOMAIN gc
          /\ gc'.modal = [gc.modal EXCEPT !.distance = block.modal.distance]
      BY DEF NonModal, Shape, SetGc
    <2>3. QED
      BY <2>1, <2>2 DEF Shape
  <1>2. Places'
    BY DEF NonModal, Places, Executing, volatile, CoordSystems, MoveTo
  <1>3. Readable'
    BY DEF NonModal, Places, Executing, Readable, volatile, CoordSystems, MoveTo
  <1>4. Tracks'
    BY NonModalOwn
  <1>5. Selects'
    BY DEF NonModal, Shape, Tracks, Selects, volatile, CoordSystems, MoveTo
  <1>6. Flagged'
    BY WcoOf DEF NonModal, Flagged, Shape, volatile, MoveTo
  <1> QED
    BY <1>1, <1>2, <1>3, <1>4, <1>5, <1>6

LEMMA ApplyDataInv == StoreInv /\ ApplyData => StoreInv'
  <1> SUFFICES ASSUME StoreInv, ApplyData PROVE StoreInv'
    OBVIOUS
  <1> USE DEF StoreInv
  <1>1. Shape'
    BY DEF ApplyData, Shape, Selects, volatile, CoordSystems
  <1>2. Places'
    BY DEF ApplyData, Places, Executing, volatile, CoordSystems
  <1>3. Readable'
    BY DEF ApplyData, Places, Executing, Readable, volatile, CoordSystems
  <1>4. Tracks'
    BY DEF ApplyData, Shape, Readable, Tracks, Selects, volatile, CoordSystems
  <1>5. Selects'
    BY DEF ApplyData, Shape, Tracks, Selects, volatile, CoordSystems
  <1>6. Flagged'
    BY WcoOf DEF ApplyData, Flagged, Shape, volatile
  <1> QED
    BY <1>1, <1>2, <1>3, <1>4, <1>5, <1>6

LEMMA MotionOwn == StoreInv /\ Motion => Tracks'
  <1> SUFFICES ASSUME StoreInv, Motion PROVE Tracks'
    OBVIOUS
  <1>1. /\ gc'.modal.coord_select = Selected /\ gc'.coord_system = gc.coord_system
        /\ UNCHANGED <<eeprom, block>> /\ (Real' => Real)
    BY DEF Motion, StoreInv, Shape, MoveTo
  <1>2. Real => Current
    BY DEF StoreInv, Tracks, Motion
  <1>3. pc' \in {"flow", "end"}
    BY DEF Motion
  <1> QED
    BY <1>1, <1>2, <1>3 DEF Tracks

LEMMA MotionInv == StoreInv /\ Motion => StoreInv'
  <1> SUFFICES ASSUME StoreInv, Motion PROVE StoreInv'
    OBVIOUS
  <1> USE DEF StoreInv
  <1>1. Shape'
    BY ZenonT(60) DEF Motion, Shape
  <1>2. Places'
    BY DEF Motion, Places, Executing, volatile, CoordSystems, MoveTo
  <1>3. Readable'
    BY DEF Motion, Places, Executing, Readable, volatile, CoordSystems, MoveTo
  <1>4. Tracks'
    BY MotionOwn
  <1>5. Selects'
    BY DEF Motion, Shape, Tracks, Selects, volatile, CoordSystems, MoveTo
  <1>6. Flagged'
    BY WcoOf DEF Motion, Flagged, Shape, volatile, MoveTo
  <1> QED
    BY <1>1, <1>2, <1>3, <1>4, <1>5, <1>6

LEMMA ProgramFlowInv == StoreInv /\ ProgramFlow => StoreInv'
  <1> SUFFICES ASSUME StoreInv, ProgramFlow PROVE StoreInv'
    OBVIOUS
  <1> USE DEF StoreInv
  <1>1. eeprom["G54"].ok /\ pc = "flow"
    BY DEF Readable, ProgramFlow
  <1>2. EndModal(gc.modal).coord_select = "G54" /\ DOMAIN EndModal(gc.modal) = DOMAIN gc.modal
    BY DEF EndModal, Shape
  <1>3. gc'.modal = EndModal(gc.modal) /\ DOMAIN gc' = DOMAIN gc
    BY <1>1 DEF ProgramFlow, Shape
  <1>5. Shape'
    BY <1>2, <1>3 DEF Shape, CoordSystems, ProgramFlow
  <1>6. CASE state # "CHECK"
    <2>1. gc'.coord_system = eeprom["G54"].value /\ pc' = "sync" /\ next' = "end"
          /\ UNCHANGED <<eeprom, answer>>
      BY <1>1, <1>6 DEF ProgramFlow, Shape
    <2>2. Tracks'
      BY <2>1, <1>2, <1>3, <1>1 DEF Tracks
    <2>3. Flagged'
      BY <2>1, <1>6, <1>1 DEF Flagged, ProgramFlow
    <2> QED
      BY <2>1, <2>2, <2>3, <1>5, <1>1 DEF Places, Executing, Readable, Selects
  <1>7. CASE state = "CHECK"
    <2>1. gc'.coord_system = gc.coord_system /\ gc'.coord_offset = gc.coord_offset
          /\ gc'.tool_length_offset = gc.tool_length_offset
          /\ pc' = "end" /\ UNCHANGED <<eeprom, answer, state, wco_counter>>
      BY <1>7 DEF ProgramFlow, Shape
    <2>2. Tracks'
      BY <2>1, <1>7 DEF Tracks
    <2>3. stale' = stale
      <3>1. stale' = (stale \/ Wco(gc') # Wco(gc))
        BY <1>7 DEF ProgramFlow, SetGc
      <3> QED
        BY <3>1, <2>1, WcoOf DEF Flagged
    <2>4. Flagged'
      BY <2>1, <2>3, <1>1 DEF Flagged
    <2> QED
      BY <2>1, <2>2, <2>4, <1>5, <1>1 DEF Places, Executing, Readable, Selects
  <1> QED
    BY <1>6, <1>7

LEMMA EndLineInv == StoreInv /\ EndLine => StoreInv'
  BY DEF EndLine, StoreInv, Shape, Places, Executing, Readable, Tracks, Selects, Flagged,
     volatile, CoordSystems

LEMMA WriteDoneInv == StoreInv /\ WriteDone => StoreInv'
  <1> SUFFICES ASSUME StoreInv, WriteDone PROVE StoreInv'
    OBVIOUS
  <1> USE DEF StoreInv
  <1>1. PICK ok \in BOOLEAN :
          /\ eeprom' = [eeprom EXCEPT ![job.record] = [ok |-> ok, value |-> job.value]]
          /\ ~ok => job.record = "startup" /\ next = "restore"
    BY DEF WriteDone
  <1>2. /\ pc = "write" /\ pc' = next /\ next' = "idle" /\ UNCHANGED <<volatile, answer>>
    BY DEF WriteDone
  <1>3. Shape'
    BY <1>1, <1>2 DEF Shape, volatile
  <1>4. Places'
    BY <1>2 DEF Places, Executing, volatile
  <1>5. Readable'
    BY <1>1, <1>2 DEF Readable, Shape, Places, volatile
  <1>6. Tracks'
    BY <1>1, <1>2 DEF Tracks, Current, Real, Restoring, Shape, Places, volatile, CoordSystems
  <1>7. Selects'
    BY <1>1, <1>2 DEF Selects, Tracks, Shape, Places, volatile, CoordSystems
  <1>8. Flagged'
    BY <1>2 DEF Flagged, Places, volatile
  <1> QED
    BY <1>3, <1>4, <1>5, <1>6, <1>7, <1>8

LEMMA SyncDoneInv == StoreInv /\ SyncDone => StoreInv'
  BY DEF SyncDone, StoreInv, Shape, Places, Executing, Readable, Tracks, Selects, Flagged,
     volatile, CoordSystems

LEMMA StoreSettingInv == StoreInv /\ StoreSetting => StoreInv'
  BY DEF StoreSetting, StoreInv, Shape, Places, Executing, Readable, Tracks, Selects,
     Flagged, volatile, CoordSystems

LEMMA RestoreDefaultsInv == StoreInv /\ RestoreDefaults => StoreInv'
  BY DEF RestoreDefaults, StoreInv, Shape, Places, Executing, Readable, Tracks, Selects,
     Flagged, volatile, CoordSystems

LEMMA CheckModeInv == StoreInv /\ CheckMode => StoreInv'
  BY DEF CheckMode, StoreInv, Shape, Places, Executing, Readable, Tracks, Selects, Flagged,
     volatile, CoordSystems

LEMMA UnlockInv == StoreInv /\ Unlock => StoreInv'
  BY DEF Unlock, StoreInv, Shape, Places, Executing, Readable, Tracks, Selects, Flagged,
     volatile, CoordSystems

LEMMA AbortInv == StoreInv /\ Abort => StoreInv'
  BY DEF Abort, StoreInv, Shape, Places, Executing, Readable, Tracks, Selects, Flagged,
     volatile, CoordSystems

LEMMA PowerLossInv == StoreInv /\ PowerLoss => StoreInv'
  <1> SUFFICES ASSUME StoreInv, PowerLoss PROVE StoreInv'
    OBVIOUS
  <1> USE DEF StoreInv
  <1>1. Shape'
    BY DEF PowerLoss, Shape, Selects, volatile, CoordSystems, InitGc, DefaultModal
  <1>2. Places'
    BY DEF PowerLoss, Places, Executing, volatile, CoordSystems, InitGc, DefaultModal
  <1>3. Readable'
    BY DEF PowerLoss, Places, Executing, Readable, volatile, CoordSystems, InitGc, DefaultModal
  <1>4. Tracks'
    BY DEF PowerLoss, Shape, Readable, Tracks, Selects, volatile, CoordSystems, InitGc,
       DefaultModal
  <1>5. Selects'
    BY DEF PowerLoss, Shape, Tracks, Selects, volatile, CoordSystems, InitGc, DefaultModal
  <1>6. Flagged'
    BY WcoOf DEF PowerLoss, Flagged, Shape, volatile, InitGc, DefaultModal
  <1> QED
    BY <1>1, <1>2, <1>3, <1>4, <1>5, <1>6

LEMMA ReportInv == StoreInv /\ Report => StoreInv'
  <1> SUFFICES ASSUME StoreInv, Report PROVE StoreInv'
    OBVIOUS
  <1> USE DEF StoreInv
  <1>1. Shape'
    BY DEF Report, Shape, Selects, volatile, CoordSystems
  <1>2. Places'
    BY DEF Report, Places, Executing, volatile, CoordSystems
  <1>3. Readable'
    BY DEF Report, Places, Executing, Readable, volatile, CoordSystems
  <1>4. Tracks'
    BY DEF Report, Shape, Readable, Tracks, Selects, volatile, CoordSystems
  <1>5. Selects'
    BY DEF Report, Shape, Tracks, Selects, volatile, CoordSystems
  <1>6. Flagged'
    BY WcoOf DEF Report, Flagged, Shape, volatile
  <1> QED
    BY <1>1, <1>2, <1>3, <1>4, <1>5, <1>6

LEMMA OperatorResetInv == StoreInv /\ OperatorReset => StoreInv'
  BY DEF OperatorReset, StoreInv, Shape, Places, Executing, Readable, Tracks, Selects,
     Flagged, volatile, CoordSystems

LEMMA StoreInductive == StoreInv /\ [Next]_vars => StoreInv'
  <1> SUFFICES ASSUME StoreInv, [Next]_vars PROVE StoreInv'
    OBVIOUS
  <1>1. CASE Execute
    BY <1>1, SetModesInv, SelectCoordInv, NonModalInv, ApplyDataInv, MotionInv, ProgramFlowInv,
       EndLineInv DEF Execute
  <1>2. CASE Main /\ ~Execute
    BY <1>2, PowerOnInv, RestoreInv, BootInv, StartupInv, ReceiveLineInv, ParseLineInv,
       WriteDoneInv, SyncDoneInv, StoreSettingInv, RestoreDefaultsInv, CheckModeInv, UnlockInv,
       AbortInv DEF Main
  <1>3. CASE PowerLoss \/ Report \/ OperatorReset
    BY <1>3, PowerLossInv, ReportInv, OperatorResetInv
  <1>4. CASE UNCHANGED vars
    BY <1>4 DEF vars, StoreInv, Shape, Places, Executing, Readable, Tracks, Selects, Flagged,
       volatile
  <1> QED
    BY <1>1, <1>2, <1>3, <1>4 DEF Next, Main

-----------------------------------------------------------------------------
\* LineInv, action by action.

LEMMA LineInit == Init => LineInv
  <1> SUFFICES ASSUME Init
               PROVE  LineInv
    OBVIOUS
  <1>1. Blank("startup") = NoLine
    BY DEF Blank
  <1>2. "startup" \in DOMAIN eeprom /\ eeprom["startup"].value = NoLine
    BY <1>1 DEF Init
  <1>3. IsFunction(gc.modal)
    BY DEF Init, InitGc, DefaultModal, IsFunction
  <1>4. QED
    BY <1>2, <1>3, NoLineIsLine DEF Init, LineInv

LEMMA LineRestore == LineInv /\ Restore => LineInv'
  <1> SUFFICES ASSUME LineInv, Restore
               PROVE  LineInv'
    OBVIOUS
  <1>1. Blank("startup") = NoLine
    BY DEF Blank
  <1>2. pc' = "write" /\ job'.record = "startup" => job'.value \in Line
    <2>1. ASSUME pc' = "write"
          PROVE  \E t : job' = [record |-> t, value |-> Blank(t)]
      <3> DEFINE t == CHOOSE t \in todo : TRUE
      <3>1. todo # {}
        BY <2>1 DEF Restore
      <3>2. job' = [record |-> t, value |-> Blank(t)]
        BY <3>1 DEF Restore
      <3> HIDE DEF t
      <3>3. QED
        BY <3>2
    <2>2. QED
      BY <1>1, <2>1, NoLineIsLine
  <1>3. QED
    BY <1>2 DEF Restore, LineInv

LEMMA LineBoot == LineInv /\ (PowerOn \/ Boot \/ Startup) => LineInv'
  <1> SUFFICES ASSUME LineInv, PowerOn \/ Boot \/ Startup
               PROVE  LineInv'
    OBVIOUS
  <1>1. CASE PowerOn
    BY <1>1 DEF PowerOn, LineInv
  <1>2. CASE Boot
    BY <1>2 DEF Boot, LineInv, InitGc, DefaultModal, IsFunction
  <1>3. CASE Startup
    BY <1>3, NoLineIsLine DEF Startup, LineInv
  <1>4. QED
    BY <1>1, <1>2, <1>3

LEMMA LineReceive == LineInv /\ ReceiveLine => LineInv'
  BY LineAssumption DEF ReceiveLine, LineInv

LEMMA LineParse == LineInv /\ StoreInv /\ ParseLine => LineInv'
  <1> SUFFICES ASSUME LineInv, StoreInv, ParseLine
               PROVE  LineInv'
    OBVIOUS
  <1> DEFINE b == Import(line, gc.modal)
             verdict == Verdict(b, gc, eeprom)
  <1>1. line' \in Line
    BY NoLineIsLine DEF ParseLine, LineInv, Reject
  <1>2. eeprom' = eeprom
    BY DEF ParseLine
  <1>3. InPlay(b) /\ verdict \notin {"ok", "error"} => verdict # "startup"
    <2> HIDE DEF b
    <2>1. QED
      BY OtherRecords DEF Verdict, InPlay
  <1>4. pc' = "write" => job'.record # "startup"
    <2>1. CASE verdict \in {"ok", "error"}
      BY <2>1 DEF ParseLine, Reject
    <2>2. CASE verdict \notin {"ok", "error"}
      <3>1. InPlay(b) /\ job' = [record |-> verdict, value |-> Zero]
        BY <2>2 DEF ParseLine
      <3> HIDE DEF b, verdict
      <3>2. QED
        BY <1>3, <2>2, <3>1
    <2>3. QED
      BY <2>1, <2>2
  <1>5. pc' = "modes" => block'.record # "startup"
    <2>1. ASSUME pc' = "modes"
          PROVE  InPlay(b) /\ block' = Ready(b)
      BY <2>1 DEF ParseLine, Reject
    <2> HIDE DEF b
    <2>2. QED
      BY <2>1, OtherRecords DEF Ready, InPlay
  <1>6. pc' \notin {"sync", "coord", "non_modal"}
    BY DEF ParseLine, Reject
  <1>7. gc'.modal = gc.modal
    BY DEF ParseLine, Reject, StoreInv, Shape
  <1>8. QED
    BY <1>1, <1>2, <1>4, <1>5, <1>6, <1>7 DEF LineInv

LEMMA LineModes == LineInv /\ StoreInv /\ (SetModes \/ SelectCoord) => LineInv'
  <1> SUFFICES ASSUME LineInv, StoreInv, SetModes \/ SelectCoord
               PROVE  LineInv'
    OBVIOUS
  <1>1. CASE SetModes
    <2>1. gc' = NewModes(ToolLength) /\ pc' \in {"coord", "sync"}
          /\ (pc' = "sync" => next' = "coord")
      BY <1>1 DEF SetModes
    <2>2. IsFunction(gc'.modal)
      BY <2>1 DEF NewModes, StoreInv, Shape, LineInv, IsFunction
    <2>3. UNCHANGED <<line, eeprom, block>>
      BY <1>1 DEF SetModes
    <2>4. block.record # "startup"
      BY <1>1 DEF SetModes, LineInv
    <2>5. QED
      BY <2>1, <2>2, <2>3, <2>4 DEF LineInv
  <1>2. CASE SelectCoord
    <2>1. pc' \in {"non_modal", "sync"} /\ (pc' = "sync" => next' = "non_modal")
      BY <1>2 DEF SelectCoord
    <2>2. IsFunction(gc'.modal)
      BY <1>2 DEF SelectCoord, StoreInv, Shape, LineInv, IsFunction
    <2>3. UNCHANGED <<line, eeprom, block>>
      BY <1>2 DEF SelectCoord
    <2>4. block.record # "startup"
      BY <1>2 DEF SelectCoord, LineInv
    <2>5. QED
      BY <2>1, <2>2, <2>3, <2>4 DEF LineInv
  <1>3. QED
    BY <1>1, <1>2

LEMMA LineNonModal == LineInv /\ StoreInv /\ NonModal => LineInv'
  <1> SUFFICES ASSUME LineInv, StoreInv, NonModal
               PROVE  LineInv'
    OBVIOUS
  <1>1. gc'.modal = [gc.modal EXCEPT !.distance = block.modal.distance]
    BY DEF NonModal, StoreInv, Shape
  <1>2. IsFunction(gc'.modal)
    BY <1>1 DEF IsFunction, LineInv
  <1>3. UNCHANGED <<line, eeprom, block>> /\ block.record # "startup"
    BY DEF NonModal, LineInv
  <1>4. pc' = "write" => job'.record # "startup"
    BY <1>3 DEF NonModal
  <1>5. pc' \in {"write", "motion", "sync"} /\ (pc' = "sync" => next' = "motion")
    BY DEF NonModal
  <1>6. QED
    BY <1>2, <1>3, <1>4, <1>5 DEF LineInv

LEMMA LineMotion ==
  LineInv /\ StoreInv /\ (ApplyData \/ Motion \/ ProgramFlow \/ EndLine) => LineInv'
  <1> SUFFICES ASSUME LineInv, StoreInv, ApplyData \/ Motion \/ ProgramFlow \/ EndLine
               PROVE  LineInv'
    OBVIOUS
  <1>1. CASE ApplyData
    BY <1>1 DEF ApplyData, StoreInv, Shape, LineInv
  <1>2. CASE Motion
    <2>1. gc'.modal = [gc.modal EXCEPT !.motion = block.modal.motion,
                                       !.program_flow = block.modal.program_flow]
      BY <1>2 DEF Motion, StoreInv, Shape
    <2>2. IsFunction(gc'.modal)
      BY <2>1 DEF IsFunction, LineInv
    <2>3. pc' \in {"flow", "end"} /\ UNCHANGED <<line, eeprom>>
      BY <1>2 DEF Motion
    <2>4. QED
      BY <2>2, <2>3 DEF LineInv
  <1>3. CASE ProgramFlow
    <2>1. gc'.modal = EndModal(gc.modal)
      BY <1>3 DEF ProgramFlow, StoreInv, Shape
    <2>2. IsFunction(gc'.modal)
      <3> DEFINE m == gc.modal
      <3>1. IsFunction(m)
        BY DEF LineInv
      <3> HIDE DEF m
      <3>2. IsFunction(EndModal(m))
        BY <3>1 DEF IsFunction, EndModal
      <3>3. QED
        BY <2>1, <3>2 DEF m
    <2>3. pc' \in {"write", "sync", "end"} /\ (pc' = "sync" => next' = "end")
          /\ (pc' = "write" => job'.record = "G54")
          /\ line' \in {line, NoLine} /\ UNCHANGED eeprom
      <3>1. eeprom["G54"].ok
        BY <1>3 DEF ProgramFlow, StoreInv, Readable
      <3>2. \/ pc' = "sync" /\ next' = "end" /\ UNCHANGED line
            \/ pc' = "end" /\ UNCHANGED line
        BY <1>3, <3>1 DEF ProgramFlow
      <3>3. UNCHANGED eeprom
        BY <1>3 DEF ProgramFlow
      <3>4. QED
        BY <3>2, <3>3
    <2>4. QED
      BY <2>2, <2>3, NoLineIsLine DEF LineInv
  <1>4. CASE EndLine
    <2>1. gc'.modal = [gc.modal EXCEPT !.program_flow = "run"]
      BY <1>4 DEF EndLine, StoreInv, Shape
    <2>2. IsFunction(gc'.modal)
      BY <2>1 DEF IsFunction, LineInv
    <2>3. QED
      BY <1>4, <2>2, NoLineIsLine DEF EndLine, LineInv
  <1>5. QED
    BY <1>1, <1>2, <1>3, <1>4

LEMMA LineWriteDone == LineInv /\ StoreInv /\ WriteDone => LineInv'
  <1> SUFFICES ASSUME LineInv, StoreInv, WriteDone
               PROVE  LineInv'
    OBVIOUS
  <1>1. PICK ok \in BOOLEAN :
          eeprom' = [eeprom EXCEPT ![job.record] = [ok |-> ok, value |-> job.value]]
    BY DEF WriteDone
  <1>2. "startup" \in DOMAIN eeprom' /\ eeprom'["startup"].value \in Line
    BY <1>1 DEF WriteDone, LineInv
  <1>3. UNCHANGED <<line, gc>>
    BY DEF WriteDone, volatile
  <1>4. pc' \notin {"write", "sync", "modes", "coord", "non_modal"}
    BY DEF WriteDone, StoreInv, Places
  <1>5. QED
    BY <1>2, <1>3, <1>4 DEF LineInv

LEMMA LinePowerLoss == LineInv /\ PowerLoss => LineInv'
  <1> SUFFICES ASSUME LineInv, PowerLoss
               PROVE  LineInv'
    OBVIOUS
  <1>1. "startup" \in DOMAIN eeprom' /\ eeprom'["startup"].value \in Line
    <2>1. CASE pc = "write" /\ job.record = "startup"
      <3>1. PICK r \in Torn("startup", eeprom["startup"].value, job.value) :
              eeprom' = [eeprom EXCEPT !["startup"] = r]
        BY <2>1 DEF PowerLoss
      <3>2. r.value \in Line
        BY <2>1, TornLine DEF LineInv
      <3>3. QED
        BY <3>1, <3>2 DEF LineInv
    <2>2. CASE pc = "write" /\ job.record # "startup"
      <3>1. PICK r : eeprom' = [eeprom EXCEPT ![job.record] = r]
        BY <2>2 DEF PowerLoss
      <3>2. QED
        BY <2>2, <3>1 DEF LineInv
    <2>3. CASE pc # "write"
      BY <2>3 DEF PowerLoss, LineInv
    <2>4. QED
      BY <2>1, <2>2, <2>3
  <1>2. line' = NoLine /\ pc' = "power" /\ gc' = InitGc(Zero, Zero)
    BY DEF PowerLoss
  <1>3. IsFunction(gc'.modal)
    BY <1>2 DEF InitGc, DefaultModal, IsFunction
  <1>4. QED
    BY <1>1, <1>2, <1>3, NoLineIsLine DEF LineInv

LEMMA LineOthers ==
  /\ LineInv /\ StoreInv /\ (SyncDone \/ StoreSetting \/ RestoreDefaults \/ CheckMode \/ Unlock
                            \/ Abort \/ Report \/ OperatorReset) => LineInv'
  /\ LineInv /\ UNCHANGED vars => LineInv'
  <1>1. ASSUME LineInv, StoreInv, SyncDone \/ StoreSetting \/ RestoreDefaults \/ CheckMode \/ Unlock
                        \/ Abort \/ Report \/ OperatorReset
        PROVE  LineInv'
    <2>1. UNCHANGED <<line, eeprom, gc, block>>
      BY <1>1 DEF SyncDone, StoreSetting, RestoreDefaults, CheckMode, Unlock, Abort, Report,
         OperatorReset, volatile
    <2>2. CASE SyncDone
      BY <1>1, <2>1, <2>2 DEF SyncDone, LineInv, StoreInv, Places
    <2>3. CASE StoreSetting \/ RestoreDefaults
      BY <1>1, <2>1, <2>3 DEF StoreSetting, RestoreDefaults, LineInv
    <2>4. CASE CheckMode \/ Unlock \/ Abort \/ Report \/ OperatorReset
      BY <1>1, <2>1, <2>4 DEF CheckMode, Unlock, Abort, Report, OperatorReset, LineInv
    <2>5. QED
      BY <1>1, <2>2, <2>3, <2>4
  <1>2. LineInv /\ UNCHANGED vars => LineInv'
    BY DEF vars, volatile, LineInv
  <1>3. QED
    BY <1>1, <1>2

-----------------------------------------------------------------------------
\* The theorems.

\* The invariant holds in every state of every behaviour of the parser and its records.
THEOREM StoreInvariant == Spec => []StoreInv
  <1>1. Init => StoreInv
    BY InitInv
  <1>2. StoreInv /\ [Next]_vars => StoreInv'
    BY StoreInductive
  <1> QED
    BY <1>1, <1>2, PTL DEF Spec

\* Between lines the parser works with the stored data of the selected coordinate system,
\* through every G10, system change, program end, restore, failed read and power loss
\* (gcode.c:1015, eeprom.c:130).
THEOREM CoordTheorem == Spec => []CoordSystemCurrent
  <1>1. StoreInv => CoordSystemCurrent
    BY DEF StoreInv, Tracks, CoordSystemCurrent, Between
  <1> QED
    BY <1>1, StoreInvariant, PTL

\* When a line has changed the work coordinate offset the next status report shows it
\* (system.c:284, report.c:591).
THEOREM OffsetsTheorem == Spec => []OffsetsReported
  <1>1. StoreInv => OffsetsReported
    BY DEF StoreInv, Flagged, OffsetsReported, Between
  <1> QED
    BY <1>1, StoreInvariant, PTL

\* A line fails before it changes anything or not at all: the read at the end of a program
\* cannot fail (gcode.c:1134).
THEOREM WholeTheorem == Spec => ExecutesWhole
  <1> DEFINE Whole == answer' = "error" => ~(pc \in Executing)
  <1>1. StoreInv /\ StoreInv' /\ [Next]_vars => [Whole]_vars
    <2> SUFFICES ASSUME StoreInv, Next, pc \in Executing, answer' = "error" PROVE FALSE
      BY DEF vars
    <2>1. answer # "error"
          /\ pc \notin {"power", "idle", "parse", "startup", "restore", "boot", "write", "sync"}
      BY DEF StoreInv, Places, Executing
    <2>2. pc = "flow" => eeprom["G54"].ok
      BY DEF StoreInv, Readable
    <2>3. CASE PowerLoss \/ Report \/ OperatorReset
      BY <2>1, <2>3 DEF PowerLoss, Report, OperatorReset
    <2>4. CASE Execute
      BY <2>1, <2>2, <2>4 DEF Execute, SetModes, SelectCoord, NonModal, ApplyData, Motion,
         ProgramFlow, EndLine
    <2>5. CASE Main /\ ~Execute
      BY <2>1, <2>5 DEF Main, PowerOn, Restore, Boot, Startup, ReceiveLine, ParseLine,
         WriteDone, SyncDone, StoreSetting, RestoreDefaults, CheckMode, Unlock, Abort
    <2> QED
      BY <2>3, <2>4, <2>5 DEF Next, Main
  <1> QED
    BY <1>1, StoreInvariant, PTL DEF Spec, ExecutesWhole

\* The executed and the stored line stay sequences of words, through cut texts and restores.
THEOREM LineInvariant == Spec => []LineInv
  <1>1. LineInv /\ StoreInv /\ [Next]_vars => LineInv'
    BY LineRestore, LineBoot, LineReceive, LineParse, LineModes, LineNonModal, LineMotion,
       LineWriteDone, LinePowerLoss, LineOthers DEF Next, Main, Execute
  <1>2. QED
    BY <1>1, LineInit, StoreInvariant, PTL DEF Spec

\* The order of the words of a line does not matter, for lines of any length and every modal
\* state: it decides neither whether the line is accepted nor what it says (gcode.c:117).
THEOREM OrderTheorem == Spec => []OrderIndependent
  <1>1. LineInv => OrderIndependent
    <2> SUFFICES ASSUME LineInv, NEW p \in [DOMAIN line.words -> DOMAIN line.words],
                        \A i, j \in DOMAIN line.words : p[i] = p[j] => i = j
                 PROVE  LET b == Import(line, gc.modal)
                            ws == [i \in DOMAIN line.words |-> line.words[p[i]]]
                            c == Import([line EXCEPT !.words = ws], gc.modal)
                        IN c.ok = b.ok /\ (b.ok => c = b)
      BY DEF OrderIndependent
    <2> DEFINE ws == [i \in DOMAIN line.words |-> line.words[p[i]]]
               other == [line EXCEPT !.words = ws]
               n == Len(line.words)
               base == NewBlock(gc.modal, line.jog)
               b == Import(line, gc.modal)
               c == Import(other, gc.modal)
    <2>1. /\ line.words \in Seq(Word) /\ n \in Nat /\ DOMAIN line.words = 1..n
          /\ line = [jog |-> line.jog, words |-> line.words]
      <3>1. line \in Line
        BY DEF LineInv
      <3>2. line.words \in Seq(Word) /\ line = [jog |-> line.jog, words |-> line.words]
        BY <3>1 DEF Line
      <3>3. QED
        BY <3>2, LenProperties
    <2>2. other.words = ws /\ other.jog = line.jog
      BY <2>1
    <2>3. ws \in Seq(Word) /\ Len(ws) = n
      <3>1. \A i \in 1..n : ws[i] \in Word
        BY <2>1, ElementOfSeq
      <3>2. ws \in [1..n -> Word]
        BY <2>1, <3>1
      <3>3. ws \in Seq(Word)
        BY <2>1, <3>2, IsASeq
      <3>4. QED
        BY <2>1, <3>3, LenProperties
    <2>4. Sum(b, base, line.words, 1..n)
      BY <2>1, ImportSum DEF LineInv
    <2>5. Sum(c, base, ws, 1..n)
      <3> HIDE DEF other, ws
      <3>1. other.words \in Seq(Word)
        BY <2>2, <2>3
      <3>2. Sum(c, NewBlock(gc.modal, other.jog), other.words, 1..Len(other.words))
        BY <3>1, ImportSum DEF LineInv
      <3>3. QED
        BY <2>2, <2>3, <3>2
    <2>6. \A i \in 1..n : ws[i] = line.words[p[i]]
      BY <2>1
    <2>7. n \in Nat /\ p \in [1..n -> 1..n] /\ \A i, j \in 1..n : p[i] = p[j] => i = j
      BY <2>1
    <2> HIDE DEF n, base, b, c, ws
    <2>8. c.ok = b.ok /\ (b.ok => c = b)
      <3>1. \A j \in 1..n : \E i \in 1..n : p[i] = j
        BY <2>7, OneToOne
      <3> DEFINE P == 1..n
      <3>2. /\ Sum(b, base, line.words, P) /\ Sum(c, base, ws, P) /\ p \in [P -> P]
            /\ \A i \in P : ws[i] = line.words[p[i]]
            /\ \A i, j \in P : p[i] = p[j] => i = j
            /\ \A j \in P : \E i \in P : p[i] = j
        BY <2>4, <2>5, <2>6, <2>7, <3>1
      <3> HIDE DEF P
      <3>3. QED
        BY <3>2, OrdersAgree
    <2>9. QED
      BY <2>8 DEF b, c, other, ws
  <1>2. QED
    BY <1>1, LineInvariant, PTL
=============================================================================
