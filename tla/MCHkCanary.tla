----------------------------- MODULE MCHkCanary -----------------------------
(* The HK canary for TLC. *)
EXTENDS HkCanary, TLC
=============================================================================
