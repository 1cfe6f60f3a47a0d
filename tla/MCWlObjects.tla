----------------------------- MODULE MCWlObjects -----------------------------
(***************************************************************************)
(* A small instance of WlObjects: one type pick_mimes keeps and one it does *)
(* not, and fewer ids than offers, so that ids are used again.              *)
(***************************************************************************)
EXTENDS WlObjects

CONSTANTS text, other
=============================================================================
