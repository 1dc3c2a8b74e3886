------------------------------ MODULE MCChecks ------------------------------
(* Values of ChecksInputs' constants that a configuration cannot spell.    *)
EXTENDS ChecksInputs

\* One tick of tolerance either way, and none.
MCTolerances == {-1, 0, 1}
=============================================================================
