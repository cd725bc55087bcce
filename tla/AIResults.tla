----------------------------- MODULE AIResults -----------------------------
(***************************************************************************)
(* One AI result of one message: the row of message_summaries for an       *)
(* analysis, a translation or a suggested reply, and the callers that      *)
(* share it - HandleSummarizeMail, HandleTranslateMail, HandleWriteEmail   *)
(* and the background task worker.  GetOrCreate... serves a ready row,     *)
(* or claims the row under a lease and asks the model, or waits for the    *)
(* caller that holds the lease.                                            *)
(*                                                                         *)
(* The evidence of an analysis is the message itself and the older mail    *)
(* the agent reads; each has a version here, and a source hash is the pair *)
(* of versions it was computed from.                                       *)
(***************************************************************************)
EXTENDS Integers

CONSTANTS
  Callers,     \* requests at a time
  MaxAsks,     \* bound: requests
  MaxClaims,   \* bound: leases handed out
  MaxChanges,  \* bound: changes of the mirrored mail
  MaxCrashes   \* bound: restarts of the process

ResultsAssumption ==
  MaxAsks \in Nat /\ MaxClaims \in Nat /\ MaxChanges \in Nat /\ MaxCrashes \in Nat

VARIABLES
  kind,     \* summary_type of the row
  row,      \* the row: [status, token, live, text, source]
  mail,     \* versions in the mirror: [trigger, history]; trigger 0: deleted
  callers,  \* Callers -> the call in progress
  answers,  \* Callers -> the last answer
  renewed,  \* a regeneration took the lease since the text was written
  bounds    \* [asks, claims, changes, crashes]

vars == <<kind, row, mail, callers, answers, renewed, bounds>>

Kinds == {"summary", "translation", "reply"}
NoHash == [trigger |-> 0, history |-> 0]
NoCall == [pc |-> "idle", regenerate |-> FALSE, message |-> 0, since |-> 0,
           hash |-> NoHash, token |-> 0, read |-> 0]
NoAnswer == [text |-> 0, stale |-> TRUE, source |-> NoHash, message |-> 0, since |-> 0]
Empty == [status |-> "none", token |-> 0, live |-> FALSE, text |-> 0, source |-> NoHash]

Init ==
  /\ kind \in Kinds
  /\ row = Empty /\ mail = [trigger |-> 1, history |-> 1]
  /\ callers = [c \in Callers |-> NoCall]
  /\ answers = [c \in Callers |-> NoAnswer]
  /\ renewed = FALSE
  /\ bounds = [asks |-> 0, claims |-> 0, changes |-> 0, crashes |-> 0]

TypeOK ==
  /\ kind \in Kinds
  /\ row.status \in {"none", "generating", "ready", "failed"}
  /\ row.token \in 0..bounds.claims /\ row.text \in 0..bounds.claims
  /\ (row.status = "generating") = (row.token # 0)
  /\ row.live => row.token # 0
  /\ row.status = "ready" => row.text # 0
  /\ \A c \in Callers :
       /\ callers[c].pc \in {"idle", "hash", "look", "claim", "wait", "work", "write"}
       /\ callers[c].pc \in {"work", "write"} => callers[c].token # 0

-----------------------------------------------------------------------------
(* A call.                                                                 *)

Move(c, pc) == callers' = [callers EXCEPT ![c].pc = pc]
Return(c) == callers' = [callers EXCEPT ![c] = NoCall]
Answer(c, text, stale, source) ==
  /\ Return(c)
  /\ answers' = [answers EXCEPT ![c] =
       [text |-> text, stale |-> stale, source |-> source,
        message |-> callers[c].message, since |-> callers[c].since]]
\* The caller gets an error; what it was told before is over.
Error(c) == Return(c) /\ answers' = [answers EXCEPT ![c] = NoAnswer]

\* A handler or the worker loads the message and calls GetOrCreate...
Start(c, regenerate) ==
  /\ callers[c].pc = "idle" /\ mail.trigger # 0 /\ bounds.asks < MaxAsks
  /\ bounds' = [bounds EXCEPT !.asks = @ + 1]
  /\ callers' = [callers EXCEPT ![c] =
       [NoCall EXCEPT !.pc = "hash", !.regenerate = regenerate,
                      !.message = mail.trigger, !.since = mail.history]]
  /\ UNCHANGED <<kind, row, mail, answers, renewed>>

HashStored(c) == IF row.text = 0 THEN [trigger |-> callers[c].message, history |-> 0] ELSE row.source
\* The hash of the evidence as the mirror has it now; without an analysis, of the
\* message alone.
SourceHash(c) ==
  [trigger |-> callers[c].message,
   history |-> IF row.text = 0 \/ kind # "summary" THEN 0 ELSE mail.history]

Hash(c) ==
  /\ callers[c].pc = "hash"
  /\ callers' = [callers EXCEPT ![c].pc = "look", ![c].hash = SourceHash(c)]
  /\ UNCHANGED <<kind, row, mail, answers, renewed, bounds>>

Stale(c) == kind = "summary" /\ row.source # callers[c].hash
\* A ready row is served as it is, marked stale when the evidence changed.
Look(c) ==
  /\ callers[c].pc = "look"
  /\ IF row.status = "ready" /\ ~callers[c].regenerate
       THEN Answer(c, row.text, Stale(c), row.source)
       ELSE Move(c, "claim") /\ UNCHANGED answers
  /\ UNCHANGED <<kind, row, mail, renewed, bounds>>

\* No model, no agent, no key, or no message any more: nothing is claimed.
Refused(c) ==
  /\ callers[c].pc = "claim" /\ Error(c)
  /\ UNCHANGED <<kind, row, mail, renewed, bounds>>

ClaimableReady(c) == row.status # "generating" \/ ~row.live
\* The WHERE of the upsert.
Claimable(c) ==
  /\ row.status # "generating" \/ ~row.live
  /\ callers[c].regenerate \/ row.status # "ready"

\* The text of an earlier generation stays in the row until a new one is written.
Claim(c) ==
  /\ callers[c].pc = "claim" /\ Claimable(c)
  /\ mail.trigger # 0 /\ bounds.claims < MaxClaims
  /\ bounds' = [bounds EXCEPT !.claims = @ + 1]
  /\ row' = [row EXCEPT !.status = "generating", !.token = bounds.claims + 1, !.live = TRUE,
                        !.source = IF row.status = "none" THEN callers[c].hash ELSE @]
  /\ callers' = [callers EXCEPT ![c].pc = "work", ![c].token = bounds.claims + 1]
  /\ renewed' = (renewed \/ callers[c].regenerate)
  /\ UNCHANGED <<kind, mail, answers>>

\* Somebody else holds the lease, or has just finished.
NotClaimed(c) ==
  /\ callers[c].pc = "claim" /\ ~Claimable(c)
  /\ IF row.status = "ready"
       THEN Answer(c, row.text, Stale(c), row.source)
       ELSE Move(c, "wait") /\ UNCHANGED answers
  /\ UNCHANGED <<kind, row, mail, renewed, bounds>>

\* The ticker of a waiting caller: no row is an error, a ready one the answer; a
\* failed one is an error for an analysis and a new attempt otherwise, an expired
\* lease a new attempt.
Poll(c) ==
  /\ callers[c].pc = "wait"
  /\ CASE row.status = "none" -> Error(c)
       [] row.status = "ready" ->
            Answer(c, row.text, kind = "summary" /\ row.source # SourceHash(c), row.source)
       [] row.status = "failed" /\ kind = "summary" -> Error(c)
       [] row.status = "failed" /\ kind # "summary" -> Move(c, "hash") /\ UNCHANGED answers
       [] OTHER -> ~row.live /\ Move(c, "hash") /\ UNCHANGED answers
  /\ UNCHANGED <<kind, row, mail, renewed, bounds>>

\* The request of a waiting caller ends.
GiveUp(c) ==
  /\ callers[c].pc = "wait" /\ Error(c)
  /\ UNCHANGED <<kind, row, mail, renewed, bounds>>

-----------------------------------------------------------------------------
(* The generation.                                                         *)

\* The fingerprint of the older mail in scope, and the mail the agent reads.
ReadMail(c) ==
  /\ callers[c].pc = "work" /\ kind = "summary"
  /\ callers[c].read = 0
  /\ callers' = [callers EXCEPT ![c].read = mail.history]
  /\ UNCHANGED <<kind, row, mail, answers, renewed, bounds>>

\* What was read and what the searches found must still be so at the end.
Unchanged(c) == kind = "summary" => callers[c].read = mail.history
Checked(c) ==
  /\ callers[c].pc = "work" /\ Unchanged(c)
  /\ Move(c, "write")
  /\ UNCHANGED <<kind, row, mail, answers, renewed, bounds>>

\* The WHERE generation_token of Complete... and Fail...
Owns(c) == row.token = callers[c].token

Complete(c) ==
  LET source == [trigger |-> callers[c].message, history |-> callers[c].read] IN
  /\ callers[c].pc = "write"
  /\ IF Owns(c)
       THEN /\ row' = [status |-> "ready", token |-> 0, live |-> FALSE,
                       text |-> callers[c].token, source |-> source]
            /\ renewed' = FALSE
            /\ Answer(c, callers[c].token, FALSE, source)
       ELSE Error(c) /\ UNCHANGED <<row, renewed>>
  /\ UNCHANGED <<kind, mail, bounds>>

FailedStatus == IF row.text # 0 THEN "ready" ELSE "failed"
\* The model, the evidence or the request fails.  A translation records it with
\* the context of the request, so one that was cancelled leaves its lease behind.
Fail(c) ==
  /\ callers[c].pc = "work"
  /\ \E cancelled \in BOOLEAN :
       row' = IF Owns(c) /\ ~(cancelled /\ kind = "translation")
                THEN [row EXCEPT !.status = FailedStatus, !.token = 0, !.live = FALSE]
                ELSE row
  /\ Error(c)
  /\ UNCHANGED <<kind, mail, renewed, bounds>>

-----------------------------------------------------------------------------
(* The world.                                                              *)

\* Two minutes pass.  An analysis is over after 90 seconds.
LeaseExpires ==
  /\ row.live
  /\ kind = "summary" => \A c \in Callers : ~(callers[c].pc = "work" /\ Owns(c))
  /\ row' = [row EXCEPT !.live = FALSE]
  /\ UNCHANGED <<kind, mail, callers, answers, renewed, bounds>>

MailChanges ==
  /\ bounds.changes < MaxChanges /\ bounds' = [bounds EXCEPT !.changes = @ + 1]
  /\ mail.trigger # 0
  /\ \/ mail' = [mail EXCEPT !.trigger = @ + 1] /\ UNCHANGED row
     \/ mail' = [mail EXCEPT !.history = @ + 1] /\ UNCHANGED row
     \* The row goes with the message (ON DELETE CASCADE).
     \/ mail' = [mail EXCEPT !.trigger = 0] /\ row' = Empty
  /\ UNCHANGED <<kind, callers, answers, renewed>>

Crash ==
  /\ bounds.crashes < MaxCrashes /\ bounds' = [bounds EXCEPT !.crashes = @ + 1]
  /\ callers' = [c \in Callers |-> NoCall]
  /\ answers' = [c \in Callers |-> NoAnswer]
  /\ UNCHANGED <<kind, row, mail, renewed>>

Step(c) ==
  \/ Hash(c) \/ Look(c) \/ Refused(c) \/ Claim(c) \/ NotClaimed(c)
  \/ Poll(c) \/ GiveUp(c) \/ ReadMail(c) \/ Checked(c) \/ Complete(c) \/ Fail(c)

Next ==
  \/ \E c \in Callers : Step(c) \/ \E regenerate \in BOOLEAN : Start(c, regenerate)
  \/ LeaseExpires \/ MailChanges \/ Crash

Spec == Init /\ [][Next]_vars

-----------------------------------------------------------------------------
(* Properties.                                                             *)

\* "A ready result is immutable unless regenerate is explicitly requested"
\* (message_summaries.go), and a text never gives way to an older one or to none,
\* whatever expires, fails, finishes late or restarts, while the message is there.
ResultKept ==
  row'.text # row.text /\ mail'.trigger # 0 =>
    row'.text > row.text /\ (row.text = 0 \/ renewed)

\* What a caller is shown as current was made from the message it asked about and
\* from older mail not older than the mirror had when it asked.
CurrentIsCurrent ==
  \A c \in Callers :
    answers[c].text # 0 /\ ~answers[c].stale /\ kind = "summary" =>
      /\ answers[c].source.trigger = answers[c].message
      /\ answers[c].source.history >= answers[c].since
=============================================================================
