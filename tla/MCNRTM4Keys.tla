---------------------------- MODULE MCNRTM4Keys ----------------------------
(***************************************************************************)
(* NRTM4Keys for TLC: three keys, so that a key is announced, replaced and *)
(* announced again.                                                        *)
(***************************************************************************)
EXTENDS NRTM4Keys
=============================================================================
