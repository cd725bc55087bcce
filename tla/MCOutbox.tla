------------------------------ MODULE MCOutbox ------------------------------
(* Model values for the TLC runs of Outbox. *)
EXTENDS Outbox

CONSTANTS w1, w2, c1, c2

WorkersVal == {w1, w2}
OneWorker  == {w1}
Keys1 == {c1}
Keys2 == {c1, c2}

OneId  == 1 .. 1
TwoIds == 1 .. 2

AllImports == {"failed", "unknown"} \X BOOLEAN
NoIds     == {}
NoImports == {}
=============================================================================
