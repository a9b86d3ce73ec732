--------------------------- MODULE MCTrainingRun ---------------------------
(***************************************************************************)
(* TrainingRun on small instances.                                         *)
(***************************************************************************)
EXTENDS TrainingRun

\* A run that logs and validates every step and saves every second one; and one
\* that saves every step but has nothing to log before the last.
Dense  == [target |-> 3, log |-> 1, eval |-> 1, save |-> 2]
Sparse == [target |-> 4, log |-> 4, eval |-> 4, save |-> 1]
MCConfigs == {Dense, Sparse}

\* Isolated overflows, and overflows that exhaust SkipLimit = 2.
MCOverflows == {{2, 4}, 2 .. 6}

\* Up and down: a score can beat the current one but not the minimum, and is an
\* improvement where an earlier validation failed.
MCScoreCurves == {<<3, 5, 4, 1, 1, 1>>}

\* The directories are interchangeable: the first command is about this one.
FirstRun == CHOOSE r \in Runs : TRUE
FirstCommandInFirstRun == commands = 1 => job.run \in {FirstRun, NoRun}
=============================================================================
