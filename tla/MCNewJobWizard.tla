--------------------------- MODULE MCNewJobWizard ---------------------------
(* A dataset with an objective and a model that fit, and one that no       *)
(* module fits; an objective that fits neither.                            *)
EXTENDS NewJobWizard

CONSTANTS d1, d2, o1, o2, m1

MCFits == {<<d1, o1>>, <<d1, m1>>}
==============================================================================
