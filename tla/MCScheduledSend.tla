--------------------------- MODULE MCScheduledSend ---------------------------
(* Model values for the TLC runs of ScheduledSend. *)
EXTENDS ScheduledSend, TLC

CONSTANTS i1, i2, r1, r2, alice

OneId    == {i1}
TwoIds   == {i1, i2}
OneOwner == [i \in Ids |-> alice]

OneReq  == {r1}
TwoReqs == {r1, r2}

PlainBodies == {"text"}
AllBodies   == {"text", "injection"}
Injections  == {"injection"}
NoIds       == {}

\* Requests are alike.
Alike == Permutations(TwoReqs)
=============================================================================
