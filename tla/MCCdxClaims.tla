---------------------------- MODULE MCCdxClaims ----------------------------
(* Instances of CdxClaims for TLC. *)
EXTENDS CdxClaims
=============================================================================
