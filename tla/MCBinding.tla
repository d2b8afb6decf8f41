----------------------------- MODULE MCBinding -----------------------------
(* Instances of Binding for TLC.                                           *)
EXTENDS Binding

CONSTANTS i1, i2, i3
=============================================================================
