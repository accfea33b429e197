------------------------------ MODULE MCAdmin ------------------------------
(***************************************************************************)
(* Instances of Admin for TLC: the configurations give every constant.     *)
(***************************************************************************)
EXTENDS Admin
=============================================================================
