-------------------------- MODULE MCQueueHandler --------------------------
(* Model-checking instances of QueueHandler.                               *)
EXTENDS QueueHandler, TLC

CONSTANTS m1, m2, m3, m4, w1, w2, w3, w4

AllMsgs   == {m1, m2, m3, m4}
Pool      == {w1, w2, w3, w4}
OneBad    == {m1}
OnePoison == {m4}
=============================================================================
