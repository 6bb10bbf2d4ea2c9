------------------------------ MODULE MCBondLife ------------------------------
(***************************************************************************)
(* BondLife with one of the sample bonds.                                  *)
(***************************************************************************)
EXTENDS BondLife, SampleBonds
=============================================================================
