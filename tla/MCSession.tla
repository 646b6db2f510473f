------------------------------ MODULE MCSession ------------------------------
(***************************************************************************)
(* The session on terminals that change in height only: the assumption of  *)
(* HexxedSteady is evaluated on the run's constants.                       *)
(***************************************************************************)
EXTENDS MCHexxed, HexxedSteady

=============================================================================
