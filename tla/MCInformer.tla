----------------------------- MODULE MCInformer -----------------------------
(* Small instances of Informer for TLC. *)
EXTENDS Informer
=============================================================================
