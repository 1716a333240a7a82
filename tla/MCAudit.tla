------------------------------ MODULE MCAudit ------------------------------
(***************************************************************************)
(* Instances of Audit for TLC: four ballots on pages of two, and three on  *)
(* pages of one, so that an audit takes several pages, the last one may be *)
(* partial and one more ballot may shift the pages in between.             *)
(***************************************************************************)
EXTENDS Audit

CONSTANTS b1, b2, b3, b4
=============================================================================
