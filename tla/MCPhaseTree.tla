---------------------------- MODULE MCPhaseTree ----------------------------
(***************************************************************************)
(* Instances of PhaseTree for TLC: the applications.                       *)
(***************************************************************************)
EXTENDS PhaseTree

AppOf(labels, level, ops, rollbacks, loops, targets, midway) ==
  [labels |-> labels, level |-> level, ops |-> ops, fails |-> rollbacks, loops |-> loops,
   targets |-> targets, midway |-> midway]

SomeWords == {"Root", "a", "b"}
TwoLabels == {<<"a">>, <<"b">>}

\* Every parent begins a label once; an error rolls back to any level.
Straight == AppOf(TwoLabels, 2, 14, 2, {}, {0, 1}, FALSE)

\* The same one level deeper.
Deep == AppOf(TwoLabels, 3, 12, 2, {}, {0, 1, 2}, FALSE)

\* The root loops over its children; errors of level 2 roll back to level 1.
Loop == AppOf(TwoLabels, 2, 11, 2, {0, 1}, {1}, FALSE)

\* A level deeper: every level loops, and errors of level 3 roll back to level 2.
DeepLoop == AppOf(TwoLabels, 3, 11, 2, {0, 1, 2}, {2}, FALSE)

\* Every level loops and every CD re-executes by itself.
Alone == AppOf(TwoLabels, 2, 9, 2, {0, 1, 2}, {}, FALSE)

\* Anything goes.
Any == AppOf(TwoLabels, 2, 10, 2, {0, 1, 2}, {0, 1, 2}, TRUE)

\* Two children of one label, and an error of the second that rolls the root back.
LoopBelowTarget == AppOf(TwoLabels, 1, 8, 1, {0, 1}, {0}, FALSE)

Recovering == {Straight, Deep, Loop, DeepLoop, Alone, Any}
LoopsBelow == {LoopBelowTarget}
=============================================================================
