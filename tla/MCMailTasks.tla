----------------------------- MODULE MCMailTasks -----------------------------
(* Model values for the TLC runs of MailTasks. *)
EXTENDS MailTasks, TLC

CONSTANTS m1, m2, alice, bob, a1, a2, n1, n2

OneMessage  == {m1}
TwoMessages == {m1, m2}
OneMailbox  == [m \in Messages |-> alice]
TwoMailbox  == [m \in Messages |-> IF m = m1 THEN alice ELSE bob]

\* An AI lane and two overlapping notification lanes of one mailbox.
Overlapping == {a1, n1, n2}
\* The AI lanes of two mailboxes.
TwoLanes    == {a1, a2}
Twins       == Permutations({n1, n2})
LaneVal     == [w \in Workers |-> IF w \in {a1, a2} THEN "ai" ELSE "notification"]
ServesAlice == [w \in Workers |-> alice]
ServesBoth  == [w \in Workers |-> IF w = a2 THEN bob ELSE alice]

Notifying == [m \in Messages |-> {"analysis", "notification"}]
\* Both kinds of AI work compete in one mailbox, and another mailbox wants the AI.
Thinking  == [m \in Messages |-> IF m = m1 THEN {"analysis", "reply"} ELSE {"reply"}]

\* Two attempts where a run is about repeated attempts, one elsewhere.
NotifyTwice == [k \in {"analysis", "reply", "notification"} |-> IF k = "notification" THEN 2 ELSE 1]
ThinkTwice  == [k \in {"analysis", "reply", "notification"} |-> IF k = "analysis" THEN 2 ELSE 1]
=============================================================================
