--------------------------- MODULE MCRealtimeExec ---------------------------
\* Instances of RealtimeExec for TLC.
EXTENDS RealtimeExec

NoScript    == {<<>>}
TorchScript == {<<>>, <<"M3">>}

CutLines    == {<<"M3">>, <<"G1">>, <<"M5">>, <<"C">>}
DoorLines   == {<<"J">>, <<"M3">>, <<"M8">>, <<"G1">>}
AlarmLines  == {<<"G1">>, <<"G1far">>, <<"X">>, <<"C">>, <<"SLP">>,
                <<"M3", "G1", "M0">>}
MoveLines   == {<<"G1">>, <<"G38">>, <<"G1", "M30">>}
EndLines    == {<<"G1">>, <<"M30">>}
=============================================================================
