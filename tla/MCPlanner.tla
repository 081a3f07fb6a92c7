----------------------------- MODULE MCPlanner -----------------------------
(* Instances of Planner for TLC: slow and fast moves of two lengths, with tight and open corners. *)
EXTENDS Planner
SomeLines == [rate : {1, 2}, junction : {1, 9}, run : {1, 4}]
FewLines == {[rate |-> 1, junction |-> 9, run |-> 3], [rate |-> 2, junction |-> 9, run |-> 1],
             [rate |-> 2, junction |-> 9, run |-> 4]}
Factors == {1, 2}
=============================================================================
