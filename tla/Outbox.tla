------------------------------- MODULE Outbox -------------------------------
(***************************************************************************)
(* The server outbox: mailstore/outbox.go (the outgoing_messages table)    *)
(* and handlers/web/outbox.go (the compose, retry and delete handlers and  *)
(* the two delivery workers), with the SMTP server and the Sent folder     *)
(* they talk to.                                                           *)
(*                                                                         *)
(* One outgoing_messages row per element of Ids; ids are handed out in     *)
(* created_at order, so the oldest queued row is the least queued id.      *)
(* Every SQL statement that is atomic in SQLite is one step; every network *)
(* exchange of a worker is a step of its own, and the process can die      *)
(* between any two of them.                                                *)
(***************************************************************************)
EXTENDS Naturals, FiniteSets

CONSTANTS
  Ids,           \* outbox row ids, numbered in creation order
  Workers,       \* the delivery goroutines started by StartOutbox
  Compositions,  \* client keys: one per message a browser composes
  NoId,          \* "no row": a compose that replaces nothing
  NoKey,         \* key of a row that was never created
  Imports,       \* bound: the <<status, has MIME>> pairs imports create
  Expungeable,   \* bound: rows whose Sent copy another client may remove
  MaxRetries,    \* bound: explicit retries of one row
  MaxBoots       \* bound: starts of the process

ASSUME OutboxAssumption ==
  /\ Ids \subseteq Nat
  /\ NoId \notin Ids
  /\ NoKey \notin Compositions
  /\ Imports \subseteq {"failed", "unknown"} \X BOOLEAN
  /\ Expungeable \subseteq Ids
  /\ MaxRetries \in Nat
  /\ MaxBoots \in Nat

VARIABLES
  status,     \* row status; "none": no such row yet, "gone": row deleted
  key,        \* client_key of the row
  payload,    \* raw_mime is not empty
  replaces,   \* the row whose replaces_outbox_id created this one
  attempts,   \* attempt_count
  pc,         \* where each worker is inside deliverOutgoing
  job,        \* the row each worker claimed last
  result,     \* the send result a worker is about to record
  phase,      \* "down", "up" (workers claim) or "stopping" (StopOutbox)
  boots,      \* number of StartOutbox calls so far
  account,    \* the mail account still exists
  drafts,     \* compositions whose server-side draft still exists
  cleanup,    \* compose handlers that committed and still hold a draft to drop
  accepted,   \* how often the SMTP server accepted the row's message
  late,       \* submissions whose final DATA reply nobody is waiting for
  sentCopy,   \* rows whose message is in the IMAP Sent folder
  mirror,     \* rows whose message is mirrored by Message-ID in SQLite
  imported,   \* observer: rows created by the import of an old bubble
  retries,    \* observer: explicit user retries of the row
  doubts,     \* observer: those that retried an "unknown" row
  lostFinish  \* observer: rows whose result this process failed to record

rowVars     == <<status, key, payload, replaces, attempts>>
workerVars  == <<pc, job, result>>
processVars == <<phase, boots>>
composeVars == <<drafts, cleanup>>
smtpVars    == <<accepted, late>>
folderVars  == <<sentCopy, mirror>>
askVars     == <<imported, retries, doubts>>
vars == <<rowVars, workerVars, processVars, account, composeVars, smtpVars,
          folderVars, askVars, lostFinish>>

Results  == {"sent", "failed", "unknown"}
Statuses == {"none", "queued", "sending", "superseded", "gone"} \cup Results
Settled  == {"superseded", "gone"} \cup Results

TypeOK ==
  /\ status \in [Ids -> Statuses]
  /\ key \in [Ids -> Compositions \cup {NoKey}]
  /\ payload \in [Ids -> BOOLEAN]
  /\ replaces \in [Ids -> Ids \cup {NoId}]
  /\ attempts \in [Ids -> Nat]
  /\ pc \in [Workers -> {"stopped", "idle", "claimed", "smtp", "accepted",
                         "answered", "copying", "mirroring"}]
  /\ job \in [Workers -> Ids \cup {NoId}]
  /\ result \in [Workers -> Results]
  /\ phase \in {"down", "up", "stopping"}
  /\ boots \in Nat
  /\ account \in BOOLEAN
  /\ drafts \in SUBSET Compositions
  /\ cleanup \in SUBSET Compositions
  /\ accepted \in [Ids -> Nat]
  /\ late \in [Ids -> Nat]
  /\ sentCopy \in SUBSET Ids
  /\ mirror \in SUBSET Ids
  /\ imported \in SUBSET Ids
  /\ retries \in [Ids -> Nat]
  /\ doubts \in [Ids -> Nat]
  /\ lostFinish \in SUBSET Ids

Init ==
  /\ status = [i \in Ids |-> "none"]
  /\ key = [i \in Ids |-> NoKey]
  /\ payload = [i \in Ids |-> FALSE]
  /\ replaces = [i \in Ids |-> NoId]
  /\ attempts = [i \in Ids |-> 0]
  /\ pc = [w \in Workers |-> "stopped"]
  /\ job = [w \in Workers |-> NoId]
  /\ result = [w \in Workers |-> "failed"]
  /\ phase = "down"
  /\ boots = 0
  /\ account = TRUE
  /\ drafts = Compositions
  /\ cleanup = {}
  /\ accepted = [i \in Ids |-> 0]
  /\ late = [i \in Ids |-> 0]
  /\ sentCopy = {}
  /\ mirror = {}
  /\ imported = {}
  /\ retries = [i \in Ids |-> 0]
  /\ doubts = [i \in Ids |-> 0]
  /\ lostFinish = {}

-----------------------------------------------------------------------------
(* Composing *)

Live(i) == status[i] \notin {"none", "gone"}

\* The next id to be created: rows are numbered in creation order.
Fresh(i) == /\ status[i] = "none"
            /\ \A j \in Ids : status[j] = "none" => i <= j

\* Mutant: only a row still to be delivered stands for its key.
HoldsWhilePending(i, c) == status[i] \in {"queued", "sending"} /\ key[i] = c

\* UNIQUE(account_id, client_key): the row a repeated upload runs into.
Holds(i, c) == Live(i) /\ key[i] = c

\* Mutant: the caller is told its message is saved without looking.
SavedUnchecked(c) == c \in Compositions

\* The message of this client key is in the outbox.
Saved(c) == \E i \in Ids : Holds(i, c)

\* What the UPDATE to 'superseded' accepts; anything else rolls back (409).
Replaceable(o) == o = NoId \/ (o \in Ids /\ status[o] \in {"failed", "unknown"})

\* POST /api/compose (st = "queued") and the import of an old browser-only
\* bubble (st = "failed" or "unknown", possibly without its attachments):
\* CreateOutgoing inserts the row and supersedes the one it replaces in one
\* transaction.  The handler then still has the draft, if any, to discard.
Compose(c, st, full, o) ==
  /\ phase = "up" /\ account
  /\ ~Saved(c)
  /\ Replaceable(o)
  /\ \E i \in Ids :
       /\ Fresh(i)
       /\ status' = [j \in Ids |-> IF j = i THEN st
                                   ELSE IF j = o THEN "superseded" ELSE status[j]]
       /\ key' = [key EXCEPT ![i] = c]
       /\ payload' = [payload EXCEPT ![i] = full]
       /\ replaces' = [replaces EXCEPT ![i] = o]
       /\ imported' = IF st = "queued" THEN imported ELSE imported \cup {i}
  /\ cleanup' = cleanup \cup ({c} \cap drafts)
  /\ UNCHANGED <<attempts, workerVars, processVars, account, drafts, smtpVars,
                 folderVars, retries, doubts, lostFinish>>

\* The same client key again: ON CONFLICT DO NOTHING, the stored row is
\* returned, and the handler goes on to the draft as if it had created it
\* (without a draft there is nothing left to do).
ComposeAgain(c) ==
  /\ phase = "up" /\ account
  /\ Saved(c) /\ c \in drafts
  /\ cleanup' = cleanup \cup {c}
  /\ UNCHANGED <<rowVars, workerVars, processVars, account, drafts, smtpVars,
                 folderVars, askVars, lostFinish>>

\* DeleteDraftsForConversation after the commit; best effort.
DiscardDraft(c) ==
  /\ c \in cleanup
  /\ cleanup' = cleanup \ {c}
  /\ \/ drafts' = drafts \ {c}
     \/ UNCHANGED drafts
  /\ UNCHANGED <<rowVars, workerVars, processVars, account, smtpVars, folderVars,
                 askVars, lostFinish>>

-----------------------------------------------------------------------------
(* The delivery workers *)

\* Mutant: failures are taken up again automatically.
ClaimableFailed(i) == /\ status[i] \in {"queued", "failed"}
                      /\ \A j \in Ids : status[j] = "queued" => i <= j

\* Mutant: the UPDATE does not test the status again.
ClaimableTwice(i) == /\ status[i] \in {"queued", "sending"}
                     /\ \A j \in Ids : status[j] = "queued" => i <= j

\* ClaimOutgoing: the oldest queued row, re-tested in the same UPDATE.
Claimable(i) == /\ status[i] = "queued"
                /\ \A j \in Ids : status[j] = "queued" => i <= j

Claim(w) ==
  /\ phase = "up" /\ pc[w] = "idle"
  /\ \E i \in Ids :
       /\ Claimable(i)
       /\ status' = [status EXCEPT ![i] = "sending"]
       /\ attempts' = [attempts EXCEPT ![i] = @ + 1]
       /\ job' = [job EXCEPT ![w] = i]
  /\ pc' = [pc EXCEPT ![w] = "claimed"]
  /\ UNCHANGED <<key, payload, replaces, result, processVars, account,
                 composeVars, smtpVars, folderVars, askVars, lostFinish>>

\* Mutant: every error is a failure.
OutcomeNoDoubt(err) == IF err = "none" THEN "sent" ELSE "failed"

\* The status recorded for what SendRawMessage returned: nil, a connection
\* lost after the terminating dot, or any other error.
Outcome(err) == CASE err = "none" -> "sent"
                  [] err = "lost" -> "unknown"
                  [] OTHER        -> "failed"

Answer(w, r) == /\ pc' = [pc EXCEPT ![w] = "answered"]
                /\ result' = [result EXCEPT ![w] = r]
                /\ job' = job

Goto(w, label) == /\ pc' = [pc EXCEPT ![w] = label]
                  /\ job' = job
                  /\ result' = [result EXCEPT ![w] = "failed"]

\* deliverOutgoing returns: its record and its result go out of scope.
Return(w) == /\ pc' = [pc EXCEPT ![w] = "idle"]
             /\ job' = [job EXCEPT ![w] = NoId]
             /\ result' = [result EXCEPT ![w] = "failed"]

\* GetAccount and the SMTP client; a missing account or client is a failure.
OpenSender(w) ==
  /\ pc[w] = "claimed"
  /\ \/ account /\ Goto(w, "smtp")
     \/ Answer(w, Outcome("refused"))
  /\ UNCHANGED <<rowVars, processVars, account, composeVars, smtpVars,
                 folderVars, askVars, lostFinish>>

\* Dial, TLS, AUTH, RCPT, DATA or body failed, or the final reply is an SMTP
\* error: the server does not have the message.
SmtpReject(w) ==
  /\ pc[w] = "smtp"
  /\ Answer(w, Outcome("refused"))
  /\ UNCHANGED <<rowVars, processVars, account, composeVars, smtpVars,
                 folderVars, askVars, lostFinish>>

\* The connection died after the terminating dot (ErrSMTPDeliveryUnknown):
\* the server may still accept, later.
SmtpLose(w) ==
  /\ pc[w] = "smtp"
  /\ Answer(w, Outcome("lost"))
  /\ late' = [late EXCEPT ![job[w]] = @ + 1]
  /\ UNCHANGED <<rowVars, processVars, account, composeVars, accepted,
                 folderVars, askVars, lostFinish>>

\* The server takes responsibility for the message ...
SmtpAccept(w) ==
  /\ pc[w] = "smtp"
  /\ Goto(w, "accepted")
  /\ accepted' = [accepted EXCEPT ![job[w]] = @ + 1]
  /\ UNCHANGED <<rowVars, processVars, account, composeVars, late, folderVars,
                 askVars, lostFinish>>

\* ... and its 250 arrives, or does not.
SmtpReply(w) ==
  /\ pc[w] = "accepted"
  /\ Answer(w, Outcome("none")) \/ Answer(w, Outcome("lost"))
  /\ UNCHANGED <<rowVars, processVars, account, composeVars, smtpVars,
                 folderVars, askVars, lostFinish>>

\* The server accepts a submission whose client has gone away.
SmtpAcceptLate(i) ==
  /\ late[i] > 0
  /\ late' = [late EXCEPT ![i] = @ - 1]
  /\ accepted' = [accepted EXCEPT ![i] = @ + 1]
  /\ UNCHANGED <<rowVars, workerVars, processVars, account, composeVars,
                 folderVars, askVars, lostFinish>>

\* Mutant: a doubtful delivery is filed under Sent, too.
CopiedInDoubt(r) == r # "failed"

\* Only a message whose delivery is on record gets a Sent copy.
Copied(r) == r = "sent"

\* FinishOutgoing: guarded by status 'sending'.  A row removed with its
\* account is ErrNotFound, and the worker moves on.
Finish(w) ==
  /\ pc[w] = "answered"
  /\ IF status[job[w]] = "sending"
       THEN /\ status' = [status EXCEPT ![job[w]] = result[w]]
            /\ IF Copied(result[w]) THEN Goto(w, "copying") ELSE Return(w)
       ELSE /\ status' = status
            /\ Return(w)
  /\ UNCHANGED <<key, payload, replaces, attempts, processVars, account,
                 composeVars, smtpVars, folderVars, askVars, lostFinish>>

\* The UPDATE itself fails: it is logged and the row stays 'sending'.
FinishFails(w) ==
  /\ pc[w] = "answered"
  /\ Return(w)
  /\ lostFinish' = lostFinish \cup {job[w]}
  /\ UNCHANGED <<rowVars, processVars, account, composeVars, smtpVars,
                 folderVars, askVars>>

\* saveOutgoingSent: append the copy to the Sent folder; a failure is logged.
SaveCopy(w) ==
  /\ pc[w] = "copying"
  /\ \/ sentCopy' = sentCopy \cup {job[w]} /\ Goto(w, "mirroring")
     \/ UNCHANGED sentCopy /\ Return(w)
  /\ UNCHANGED <<rowVars, processVars, account, composeVars, smtpVars, mirror,
                 askVars, lostFinish>>

\* SyncNewMessagesNow on the Sent folder, or a failure that leaves the copy
\* to the next background synchronization.
MirrorCopy(w) ==
  /\ pc[w] = "mirroring"
  /\ \/ account /\ mirror' = mirror \cup sentCopy
     \/ UNCHANGED mirror
  /\ Return(w)
  /\ UNCHANGED <<rowVars, processVars, account, composeVars, smtpVars, sentCopy,
                 askVars, lostFinish>>

-----------------------------------------------------------------------------
(* The user *)

\* Mutant: a replaced row can be retried.
RetryableReplaced(i) == status[i] \in {"failed", "unknown", "superseded"} /\ payload[i]

\* RetryOutgoing: only from a settled failure, with its MIME, and not when
\* the mirror already shows the message.
Retryable(i) == /\ status[i] \in {"failed", "unknown"}
                /\ payload[i]
                /\ i \notin mirror

Retry(i) ==
  /\ phase = "up"
  /\ retries[i] < MaxRetries
  /\ Retryable(i)
  /\ status' = [status EXCEPT ![i] = "queued"]
  /\ retries' = [retries EXCEPT ![i] = @ + 1]
  /\ doubts' = IF status[i] = "unknown" THEN [doubts EXCEPT ![i] = @ + 1] ELSE doubts
  /\ UNCHANGED <<key, payload, replaces, attempts, workerVars, processVars,
                 account, composeVars, smtpVars, folderVars, imported, lostFinish>>

\* DeleteOutgoing: any row that is not being submitted.
Deletable(i) == Live(i) /\ status[i] # "sending"

Delete(i) ==
  /\ phase = "up"
  /\ Deletable(i)
  /\ status' = [status EXCEPT ![i] = "gone"]
  /\ UNCHANGED <<key, payload, replaces, attempts, workerVars, processVars,
                 account, composeVars, smtpVars, folderVars, askVars, lostFinish>>

\* Store.DeleteAccount: the foreign keys take every row and mirrored message
\* along, whatever a worker is doing with it.
DeleteAccount ==
  /\ phase = "up" /\ account
  /\ account' = FALSE
  /\ status' = [i \in Ids |-> IF Live(i) THEN "gone" ELSE status[i]]
  /\ mirror' = {}
  /\ UNCHANGED <<key, payload, replaces, attempts, workerVars, processVars,
                 composeVars, smtpVars, sentCopy, askVars, lostFinish>>

-----------------------------------------------------------------------------
(* The process *)

\* Mutants: no recovery; a status nothing else knows; a definite failure; the
\* message is queued again; delivered rows are reopened as well.
RecoveredNot(s)      == s
RecoveredUnlisted(s) == IF s = "sending" THEN "interrupted" ELSE s
RecoveredFailed(s)   == IF s = "sending" THEN "failed" ELSE s
RecoveredQueued(s)   == IF s = "sending" THEN "queued" ELSE s
RecoveredSent(s)     == IF s \in {"sending", "sent"} THEN "unknown" ELSE s

\* RecoverOutgoing: what a row found at start-up becomes.
Recovered(s) == IF s = "sending" THEN "unknown" ELSE s

\* StartOutbox: recover, then start the workers.
Boot ==
  /\ phase = "down" /\ boots < MaxBoots
  /\ phase' = "up"
  /\ boots' = boots + 1
  /\ status' = [i \in Ids |-> Recovered(status[i])]
  /\ pc' = [w \in Workers |-> "idle"]
  /\ lostFinish' = {}
  /\ UNCHANGED <<key, payload, replaces, attempts, job, result, account,
                 composeVars, smtpVars, folderVars, askVars>>

\* StopOutbox cancels the context and waits for the deliveries in progress.
Stop ==
  /\ phase = "up" /\ boots < MaxBoots
  /\ phase' = "stopping"
  /\ UNCHANGED <<rowVars, workerVars, boots, account, composeVars, smtpVars,
                 folderVars, askVars, lostFinish>>

Stopped ==
  /\ phase = "stopping"
  /\ \A w \in Workers : pc[w] = "idle"
  /\ phase' = "down"
  /\ pc' = [w \in Workers |-> "stopped"]
  /\ job' = [w \in Workers |-> NoId]
  /\ result' = [w \in Workers |-> "failed"]
  /\ cleanup' = {}
  /\ UNCHANGED <<rowVars, boots, account, drafts, smtpVars,
                 folderVars, askVars, lostFinish>>

\* The process dies.  A submission in progress may already have sent its dot.
Crash ==
  /\ phase # "down" /\ boots < MaxBoots
  /\ phase' = "down"
  /\ pc' = [w \in Workers |-> "stopped"]
  /\ job' = [w \in Workers |-> NoId]
  /\ result' = [w \in Workers |-> "failed"]
  /\ cleanup' = {}
  /\ late' = [i \in Ids |-> IF \E w \in Workers : pc[w] = "smtp" /\ job[w] = i
                            THEN late[i] + 1 ELSE late[i]]
  /\ UNCHANGED <<rowVars, boots, account, drafts, accepted,
                 folderVars, askVars, lostFinish>>

-----------------------------------------------------------------------------
(* The mail provider and the background synchronization (environment) *)

\* Many providers file a copy of what they accept by themselves.
ProviderCopy(i) ==
  /\ accepted[i] > 0
  /\ sentCopy' = sentCopy \cup {i}
  /\ UNCHANGED <<rowVars, workerVars, processVars, account, composeVars,
                 smtpVars, mirror, askVars, lostFinish>>

\* The user removes the copy with another client.
Expunge(i) ==
  /\ i \in sentCopy \cap Expungeable
  /\ sentCopy' = sentCopy \ {i}
  /\ UNCHANGED <<rowVars, workerVars, processVars, account, composeVars,
                 smtpVars, mirror, askVars, lostFinish>>

\* A completed synchronization of the Sent folder, prune included.
SyncSent ==
  /\ phase = "up" /\ account
  /\ mirror' = sentCopy
  /\ UNCHANGED <<rowVars, workerVars, processVars, account, composeVars,
                 smtpVars, sentCopy, askVars, lostFinish>>

-----------------------------------------------------------------------------
Requests ==
  \/ \E c \in Compositions, o \in Ids \cup {NoId} :
       \/ Compose(c, "queued", TRUE, o)
       \/ \E import \in Imports : Compose(c, import[1], import[2], o)
  \/ \E c \in Compositions : ComposeAgain(c) \/ DiscardDraft(c)
  \/ \E i \in Ids : Retry(i) \/ Delete(i)
  \/ DeleteAccount

Deliver(w) ==
  \/ Claim(w) \/ OpenSender(w)
  \/ SmtpReject(w) \/ SmtpLose(w) \/ SmtpAccept(w) \/ SmtpReply(w)
  \/ Finish(w) \/ FinishFails(w)
  \/ SaveCopy(w) \/ MirrorCopy(w)

Process == Boot \/ Stop \/ Stopped \/ Crash

Provider ==
  \/ \E i \in Ids : SmtpAcceptLate(i) \/ ProviderCopy(i) \/ Expunge(i)
  \/ SyncSent

Next ==
  \/ Requests
  \/ \E w \in Workers : Deliver(w)
  \/ Process
  \/ Provider

Spec == Init /\ [][Next]_vars

\* The worker goroutines are scheduled, every network call of a delivery is
\* bounded (smtpSendTimeout, dial timeouts, a 15 s sync context), StopOutbox
\* completes, and whoever supervises the process starts it again.
Fairness ==
  /\ \A w \in Workers : WF_vars(Deliver(w))
  /\ WF_vars(Stopped)
  /\ WF_vars(Boot)

FairSpec == Spec /\ Fairness

-----------------------------------------------------------------------------
(* Properties *)

\* Inside deliverOutgoing, respectively before its result is recorded.
Busy(w)     == pc[w] \notin {"stopped", "idle"}
InFlight(w) == pc[w] \in {"claimed", "smtp", "accepted", "answered"}

\* Two workers never deliver the same row at the same time: the claim is
\* atomic, and nothing makes a row claimable again while a worker holds it.
ExclusiveSubmission ==
  \A v, w \in Workers : v # w /\ Busy(v) /\ Busy(w) => job[v] # job[w]

\* While the process runs, a row says "sending" only if a worker is on it or
\* this very process failed to write its result: StartOutbox leaves no row of
\* an earlier process behind in a state nobody can retry or delete.
NoStraySending ==
  phase = "up" =>
    \A i \in Ids : status[i] = "sending" =>
      i \in lostFinish \/ \E w \in Workers : InFlight(w) /\ job[w] = i

\* However workers, crashes, lost replies and late acceptances interleave, the
\* recipients get a row's message at most once, plus once for every explicit
\* retry of an outcome that was shown to be unknown.
AcceptedOncePerAsk == \A i \in Ids : accepted[i] <= 1 + doubts[i]

\* A row shown as failed, or waiting to be sent, was not delivered by any
\* request but those the user repeated in doubt: retrying a failure is safe.
FailedWasNotDelivered ==
  \A i \in Ids : status[i] \in {"failed", "queued"} => accepted[i] <= doubts[i]

\* Nothing is submitted that nobody asked for: not an imported bubble, not a
\* row found after a restart, not a failure.
SubmissionsAreRequested ==
  \A i \in Ids : attempts[i] <= retries[i] + (IF i \in imported THEN 0 ELSE 1)

\* Uploading the same composition again does not deliver it again, unless the
\* user removed the delivered row from the outbox in between.
RepeatedUploadSendsOnce ==
  \A i, j \in Ids :
    i < j /\ key[i] = key[j] /\ accepted[i] > 0 /\ accepted[j] > 0 => status[i] = "gone"

\* A row that was replaced by an edited message is out of the game for good:
\* not retried, not in a worker's hands, and not replaced a second time.
ReplacedStaysRetired ==
  \A i \in Ids : replaces[i] # NoId =>
    /\ status[replaces[i]] \in {"superseded", "gone"}
    /\ \A w \in Workers : InFlight(w) => job[w] # replaces[i]
    /\ \A j \in Ids : replaces[j] = replaces[i] => j = i

\* A draft is dropped only when its text is in the outbox: a crash, a refused
\* replacement or a repeated upload never leaves a composition in neither.
ContentKept == \A c \in Compositions \ drafts : \E i \in Ids : key[i] = c

\* No copy is filed under Sent for a message the server did not accept: such a
\* copy, once mirrored, would also block the retry that is still needed.
CopyOnlyOfDelivered == \A i \in sentCopy : accepted[i] > 0

\* What the outbox tells of a delivery is true: no failure was delivered, nothing
\* was sent unasked, and no copy claims what the server refused.
DeliveryIsHonest == FailedWasNotDelivered /\ SubmissionsAreRequested /\ CopyOnlyOfDelivered

\* A row that is being sent is in the hands of one worker.
RowsAreOwned == ExclusiveSubmission /\ NoStraySending

\* What was written is kept, goes out once however often it is uploaded, and what it
\* replaced stays replaced.
CompositionsAreKept == ContentKept /\ RepeatedUploadSendsOnce /\ ReplacedStaysRetired

\* A recorded delivery is never reopened, whatever happens to its Sent copy.
SentIsFinal ==
  [][\A i \in Ids : status[i] = "sent" => status'[i] \in {"sent", "gone"}]_vars

\* Every queued row is settled, by a worker or by the recovery of a restart,
\* unless the running process could not write its result.
QueuedIsSettled ==
  \A i \in Ids : status[i] = "queued" ~> (status[i] \in Settled \/ i \in lostFinish)

\* The outbox implements the promise of SendPromise.
Told(i) ==
  CASE status[i] = "queued"  -> "pending"
    [] status[i] = "sending" -> "inflight"
    [] status[i] \in {"superseded", "gone"} -> "withdrawn"
    [] OTHER -> status[i]

Promise == INSTANCE SendPromise
  WITH Messages <- Ids, state <- [i \in Ids |-> Told(i)],
       delivered <- accepted, doubt <- doubts

\* Every outbox behaviour is one the user was promised.
KeepsPromise == Promise!Spec

=============================================================================
