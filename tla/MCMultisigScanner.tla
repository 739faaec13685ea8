-------------------------- MODULE MCMultisigScanner --------------------------
(* Instances of MultisigScanner. *)
EXTENDS MultisigScanner
=============================================================================
