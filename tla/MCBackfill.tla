----------------------------- MODULE MCBackfill -----------------------------
(* Model-checking instances of Backfill.                                   *)
EXTENDS Backfill

Skipped == {3}
Garbled == {6}
=============================================================================
