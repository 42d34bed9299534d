----------------------------- MODULE MCJobTasks ------------------------------
(* Instances of JobTasks for TLC.                                          *)
EXTENDS JobTasks, TLC

\* Workers are interchangeable; used only where no temporal property is checked.
WorkerSymmetry == Permutations(Workers)
==============================================================================
