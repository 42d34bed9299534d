------------------------- MODULE MCNewDatasetWizard -------------------------
(* The archives of a user: they have the same name up to its extension.    *)
EXTENDS NewDatasetWizard

CONSTANTS f1, f2, f3, name

MCIdOf == [f \in Files |-> name]
==============================================================================
