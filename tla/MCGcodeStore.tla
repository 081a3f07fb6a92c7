---------------------------- MODULE MCGcodeStore ----------------------------
\* Lines for GcodeStore.
EXTENDS GcodeStore

Gcode(words) == [jog |-> FALSE, words |-> words]
C(c) == <<c, 0>>
Z(v) == <<"Z", v>>

StoreLines == {
  Gcode(<<C("G55")>>),
  Gcode(<<C("G54"), C("G55")>>),                                  \* two of a group
  Gcode(<<C("G55"), C("G10"), <<"L", 2>>, Z(1)>>),
  Gcode(<<C("G10"), <<"L", 2>>, <<"P", 1>>, Z(1)>>),
  Gcode(<<C("G43.1"), Z(1)>>),
  Gcode(<<C("G92"), Z(0)>>),
  Gcode(<<C("G0"), Z(-1)>>),
  Gcode(<<C("G30")>>),
  Gcode(<<C("M2")>>),
  [jog |-> TRUE, words |-> <<C("G91"), Z(-1), <<"F", 1>>>>],
  [jog |-> TRUE, words |-> <<<<"F", 1>>>>]}                       \* no axis word
StoreStartup == {Gcode(<<C("G55")>>)}
StoreCommands == {"$22=0", "$22=1", "$RST=#", "$RST=*", "$C", "$X"}
=============================================================================
