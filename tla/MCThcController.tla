--------------------------- MODULE MCThcController ---------------------------
\* Instances of ThcController for TLC.
EXTENDS ThcController

Readings     == {0, 2, 4}
HostNominals == {3}
StepPulses   == {0, 2}
=============================================================================
