-------------------------- MODULE MCBlockListener --------------------------
(* Model-checking instance of BlockListener.                               *)
EXTENDS BlockListener
=============================================================================
