----------------------------- MODULE MCHostLink -----------------------------
\* Small numbers for HostLink: the same relations between default, limits and increments as
\* in config.h.
EXTENDS HostLink

SmallLimits ==
  [k \in Stepped |-> [Default |-> 3, Max |-> 4, Min |-> 2, Coarse |-> 2, Fine |-> 1, Width |-> 16]]
FeedDown == {<<"feed", "coarse-">>, <<"feed", "fine-">>}
=============================================================================
