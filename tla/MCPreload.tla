----------------------------- MODULE MCPreload -----------------------------
(***************************************************************************)
(* Preload for TLC: TLC gives the constants their values in the cfg.       *)
(***************************************************************************)
EXTENDS Preload, TLC
=============================================================================
