------------------------------ MODULE MailTasks ------------------------------
(***************************************************************************)
(* Background work on new mail: mailstore/mail_tasks.go (the task rows and *)
(* their leases), mail_task_runner.go (one AI and one notification lane    *)
(* per mailbox), mail_task_worker.go (what a task does), mail_task_runs.go *)
(* (the attempt journal) and task_failure.go (what a failure means).       *)
(*                                                                         *)
(* A worker is one lane goroutine of one runner.  Runners of a mailbox can *)
(* overlap: two processes on one database, or an account restarted while   *)
(* its old runner is still finishing.  A lease can run out under a worker  *)
(* that still runs (a suspended host, a wall clock that jumps, a dial that *)
(* ignores its context), and a worker can die anywhere.                    *)
(*                                                                         *)
(* A worker keeps one lease at a time and forgets it when it returns, so   *)
(* the worker's name stands for the token of its present lease.  The run   *)
(* of a token is 'running' in the journal exactly while the token is on    *)
(* the row: both change in the same transactions.                          *)
(***************************************************************************)
EXTENDS Integers, FiniteSets

CONSTANTS
  Messages,
  Mailbox,      \* the account of each message
  Workers,
  Lane,         \* "ai" or "notification", for each worker
  Serves,       \* the account each worker works for
  NoWorker,     \* the empty token
  NoTask,
  MaxAI,        \* mailTaskMaxConcurrentAI
  MaxAttempts,  \* mailTaskMaxAttempts, for each type
  Types,        \* bound: the types of task a run follows, for each message
  MaxRetries,   \* bound: explicit retries
  MaxLosses,    \* bound: leases and results lost by workers that live on
  MaxStops      \* bound: stops and deaths of workers

AITypes == {"analysis", "reply"}
Tasks   == {t \in Messages \X (AITypes \cup {"notification"}) : t[2] \in Types[t[1]]}

ASSUME MailTasksAssumption ==
  /\ Lane \in [Workers -> {"ai", "notification"}]
  /\ DOMAIN Mailbox = Messages /\ DOMAIN Serves = Workers
  /\ NoWorker \notin Workers /\ NoTask \notin Tasks
  /\ MaxAI \in Nat \ {0}
  /\ Types \in [Messages -> SUBSET (AITypes \cup {"notification"})]
  /\ MaxAttempts \in [AITypes \cup {"notification"} -> Nat \ {0}]
  /\ MaxRetries \in Nat /\ MaxLosses \in Nat /\ MaxStops \in Nat

VARIABLES
  row,        \* the mail_tasks row of each task
  due,        \* tasks whose next_attempt has passed
  waited,     \* messages enqueued mailTaskNotificationWait ago
  summary,    \* messages with a 'ready' summary
  redoing,    \* messages whose summary the user has regenerated right now
  life,       \* "off", "on", or "stopping": the runner's context is cancelled
  pc,         \* where each worker is inside process
  job,        \* the task it has claimed
  note,       \* the notification text it holds
  end,        \* how its execution ended
  sent,       \* observer: the texts that were accepted
  surplus,    \* observer: accepted notifications of each message, less those whose
              \* success could not be recorded
  runs,       \* observer: executions since the last retry, interrupted ones
              \* not counted, of the mail that is still there
  hopeless,   \* observer: tasks that failed for good on their merits
  retries, losses, stops

workVars == <<pc, job, note, end>>
mailVars == <<due, waited, summary, redoing>>
seenVars == <<sent, surplus>>
boundVars == <<retries, losses, stops>>
vars == <<row, mailVars, life, workVars, seenVars, runs, hopeless, boundVars>>

Texts == {"none", "basic", "summary"}
Rows  == [status : {"none", "pending", "running", "ready", "skipped", "failed", "gone"},
          attempts : Nat, holder : Workers \cup {NoWorker},
          lease : {"none", "live", "over"}, payload : Texts]
Ends  == {"ready", "skipped", "permanent", "invalid", "transient", "interrupted"}

TypeOK ==
  /\ row \in [Tasks -> Rows]
  /\ due \in SUBSET Tasks
  /\ waited \in SUBSET Messages
  /\ summary \in SUBSET Messages
  /\ redoing \in SUBSET Messages
  /\ life \in [Workers -> {"off", "on", "stopping"}]
  /\ pc \in [Workers -> {"idle", "begin", "body", "record", "choose", "save", "send",
                         "accepted", "settle"}]
  /\ job \in [Workers -> Tasks \cup {NoTask}]
  /\ note \in [Workers -> Texts]
  /\ end \in [Workers -> Ends]
  /\ sent \in [Messages -> SUBSET Texts]
  /\ surplus \in [Messages -> Int]
  /\ runs \in [Tasks -> Nat]
  /\ hopeless \in SUBSET Tasks
  /\ retries \in Nat /\ losses \in Nat /\ stops \in Nat

Nothing == [status |-> "none", attempts |-> 0, holder |-> NoWorker, lease |-> "none",
            payload |-> "none"]

\* The runners have started; one that has not is like one that has not claimed.
Init ==
  /\ row = [t \in Tasks |-> Nothing]
  /\ due = {}
  /\ waited = {}
  /\ summary = {}
  /\ redoing = {}
  /\ life = [w \in Workers |-> "on"]
  /\ pc = [w \in Workers |-> "idle"]
  /\ job = [w \in Workers |-> NoTask]
  /\ note = [w \in Workers |-> "none"]
  /\ end = [w \in Workers |-> "ready"]
  /\ sent = [m \in Messages |-> {}]
  /\ surplus = [m \in Messages |-> 0]
  /\ runs = [t \in Tasks |-> 0]
  /\ hopeless = {}
  /\ retries = 0 /\ losses = 0 /\ stops = 0

-----------------------------------------------------------------------------
(* New mail *)

\* enqueueMailTasksTx, in the transaction that inserts the message: an analysis,
\* a reply and, if the mailbox has an enabled webhook, a notification.
Enqueue(m) ==
  /\ \A k \in Types[m] : row[<<m, k>>].status = "none"
  /\ \E wanted \in {Types[m], Types[m] \cap AITypes} :
       /\ row' = [t \in Tasks |-> IF t \in {m} \X wanted
                                  THEN [Nothing EXCEPT !.status = "pending"] ELSE row[t]]
       /\ due' = due \cup ({m} \X wanted)
  /\ UNCHANGED <<waited, summary, redoing, life, workVars, seenVars, runs,
                 hopeless, boundVars>>

\* Time passes: a backoff, or the wait of a notification for its summary.
Elapse(t) ==
  /\ row[t].status = "pending"
  /\ due' = due \cup {t}
  /\ UNCHANGED <<row, waited, summary, redoing, life, workVars, seenVars, runs,
                 hopeless, boundVars>>

Wait(m) ==
  /\ \E t \in Tasks : /\ t = <<m, "notification">>
                     /\ row[t].status = "pending" /\ row[t].payload = "none"
  /\ waited' = waited \cup {m}
  /\ UNCHANGED <<row, due, summary, redoing, life, workVars, seenVars, runs,
                 hopeless, boundVars>>

-----------------------------------------------------------------------------
(* Claiming *)

LaneOf(t) == IF t[2] \in AITypes THEN "ai" ELSE "notification"

Live(t) == row[t].status = "running" /\ row[t].lease = "live"

\* Mutant: what a dead worker left behind is never taken up.
ReadyPending(t) == row[t].status = "pending" /\ t \in due

\* A pending task that is due, or one whose lease has run out.
Ready(t) == \/ row[t].status = "pending" /\ t \in due
            \/ row[t].status = "running" /\ row[t].lease = "over"

\* No live lease in the same lane of the same mailbox.
LaneFree(t) ==
  \A u \in Tasks : Mailbox[u[1]] = Mailbox[t[1]] /\ LaneOf(u) = LaneOf(t) => ~Live(u)

\* Mutant: one too many.
CapacityOver(t) ==
  t[2] \in AITypes => Cardinality({u \in Tasks : u[2] \in AITypes /\ Live(u)}) <= MaxAI

\* The cap on AI tasks over all mailboxes.
Capacity(t) ==
  t[2] \in AITypes => Cardinality({u \in Tasks : u[2] \in AITypes /\ Live(u)}) < MaxAI

\* The first analysis of this message may still deliver a summary.
FirstAnalysisOpen(m) ==
  \E t \in Tasks :
    /\ t = <<m, "analysis">>
    /\ row[t].status = "running" \/ (row[t].status = "pending" /\ row[t].attempts = 0)

\* A notification waits for the summary of its message, for the end of the first
\* analysis, or for 30 seconds; one that is frozen does not wait.
Eligible(t) ==
  t[2] = "notification" =>
    \/ row[t].payload # "none"
    \/ t[1] \in waited \cup summary
    \/ ~FirstAnalysisOpen(t[1])

Candidate(w, t) ==
  /\ Mailbox[t[1]] = Serves[w] /\ LaneOf(t) = Lane[w]
  /\ Ready(t) /\ LaneFree(t) /\ Capacity(t) /\ Eligible(t)

Claimed(r, w) == [r EXCEPT !.status = "running", !.attempts = @ + 1, !.holder = w,
                           !.lease = "live"]

\* Mutant: the attempts of dead workers count for nothing.
ExhaustedNever(t) == t \notin Tasks

\* The attempt that starts now is beyond the limit: only workers that died, or
\* lost their lease, leave such a task behind.
Exhausted(t) == row[t].attempts + 1 > MaxAttempts[t[2]]

\* claimMailTaskInLane, one statement; analyses before replies.  Tasks of the
\* same kind are taken in any order, and the AI claim that the adapter refuses
\* while the mailbox is refreshed is a claim that comes later.
Claim(w) ==
  /\ life[w] = "on" /\ pc[w] = "idle"
  /\ \E t \in Tasks :
       /\ Candidate(w, t)
       /\ t[2] = "reply" => ~\E u \in Tasks : u[2] = "analysis" /\ Candidate(w, u)
       /\ row' = [row EXCEPT ![t] = Claimed(@, w)]
       /\ job' = [job EXCEPT ![w] = t]
       /\ note' = [note EXCEPT ![w] = row[t].payload]
       /\ IF Exhausted(t)
            THEN /\ pc' = [pc EXCEPT ![w] = "settle"]
                 /\ end' = [end EXCEPT ![w] = "permanent"]
                 /\ UNCHANGED runs
            ELSE /\ pc' = [pc EXCEPT ![w] = "begin"]
                 /\ UNCHANGED end
                 /\ runs' = [runs EXCEPT ![t] = @ + 1]
  /\ UNCHANGED <<mailVars, life, seenVars, hopeless, boundVars>>

-----------------------------------------------------------------------------
(* Executing *)

Goto(w, label) == pc' = [pc EXCEPT ![w] = label] /\ UNCHANGED <<job, note, end>>

Finish(w, e) == /\ pc' = [pc EXCEPT ![w] = "settle"]
                /\ end' = [end EXCEPT ![w] = e]
                /\ UNCHANGED <<job, note>>

\* process returns to its loop, or its worker is gone.
Forget(w) == /\ pc' = [pc EXCEPT ![w] = "idle"]
             /\ job' = [job EXCEPT ![w] = NoTask]
             /\ note' = [note EXCEPT ![w] = "none"]
             /\ end' = [end EXCEPT ![w] = "ready"]

\* Mutant: any lease will do.
OwnsAny(w) == job[w] # NoTask

\* generation_token = task.Token AND status = 'running'.
Owns(w) == job[w] # NoTask /\ row[job[w]].holder = w

\* A guarded step: on to the next one, or "mail task lease was lost".
Step(w, label) == IF Owns(w) THEN Goto(w, label) ELSE Finish(w, "transient")

\* The task is disabled or not configured, which is looked up again while the
\* result is generated; the webhook was switched off.
Skip(w) ==
  /\ pc[w] \in IF Lane[w] = "ai" THEN {"begin", "body"} ELSE {"choose"}
  /\ Finish(w, "skipped")
  /\ UNCHANGED <<row, mailVars, life, seenVars, runs, hopeless, boundVars>>

\* recordMailTaskPhase: only under a run that is still 'running'.
Begin(w) ==
  /\ pc[w] = "begin"
  /\ Step(w, IF Lane[w] = "ai" THEN "body" ELSE "choose")
  /\ UNCHANGED <<row, mailVars, life, seenVars, runs, hopeless, boundVars>>

\* The cached result, or a new one from the model under the result's own lease;
\* the mail must still be there.
Generate(w) ==
  /\ pc[w] = "body"
  /\ row[job[w]].status # "gone"
  /\ LET new == {job[w][1]} \cap {m \in Messages : job[w][2] = "analysis"}
     IN /\ summary' = summary \cup new
        /\ redoing' = redoing \ new
  /\ Goto(w, "record")
  /\ UNCHANGED <<row, due, waited, life, seenVars, runs, hopeless, boundVars>>

\* recordMailTaskCacheResult, then the execution has succeeded.
Record(w) ==
  /\ pc[w] = "record"
  /\ IF Owns(w) THEN Finish(w, "ready") ELSE Finish(w, "transient")
  /\ UNCHANGED <<row, mailVars, life, seenVars, runs, hopeless, boundVars>>

\* Mutant: a text that was frozen by an earlier attempt is written anew.
FrozenNever(w) == w \notin Workers

\* The payload that came with the claim is final.
Frozen(w) == note[w] # "none"

\* The notification text: the summary if there is one, else the basic notice; the
\* mail must still be there.
Choose(w) ==
  /\ pc[w] = "choose"
  /\ row[job[w]].status # "gone"
  /\ IF Frozen(w)
       THEN Goto(w, "send")
       ELSE /\ note' = [note EXCEPT ![w] = IF job[w][1] \in summary THEN "summary"
                                           ELSE "basic"]
            /\ pc' = [pc EXCEPT ![w] = "save"]
            /\ UNCHANGED <<job, end>>
  /\ UNCHANGED <<row, mailVars, life, seenVars, runs, hopeless, boundVars>>

\* saveMailTaskPayload: frozen before it is sent.
Save(w) ==
  /\ pc[w] = "save"
  /\ Step(w, "send")
  /\ row' = IF Owns(w) THEN [row EXCEPT ![job[w]].payload = note[w]] ELSE row
  /\ UNCHANGED <<mailVars, life, seenVars, runs, hopeless, boundVars>>

Accepted(w) == sent' = [sent EXCEPT ![job[w][1]] = @ \cup {note[w]}]

\* The change of surplus by an acceptance (1), by a success that nobody will
\* record (-1), or by both (0).
Surplus(w, n) == surplus' = IF job[w][2] = "notification"
                              THEN [surplus EXCEPT ![job[w][1]] = @ + n] ELSE surplus

\* The webhook takes the notification ...
Send(w) ==
  /\ pc[w] = "send"
  /\ Accepted(w) /\ Surplus(w, 1)
  /\ Goto(w, "accepted")
  /\ UNCHANGED <<row, mailVars, life, runs, hopeless, boundVars>>

\* ... and its acknowledgement arrives, or the request ends without it.
Answer(w) ==
  /\ pc[w] = "accepted"
  /\ \/ Finish(w, "ready") /\ UNCHANGED surplus
     \/ /\ Finish(w, "transient") \/ (life[w] = "stopping" /\ Finish(w, "interrupted"))
        /\ Surplus(w, -1)
  /\ UNCHANGED <<row, mailVars, life, sent, runs, hopeless, boundVars>>

\* The error of a step: a database, network or time limit anywhere, a broken
\* configuration or a refusal, an output of the model that is not valid; once
\* the runner stops, every step can end in context.Canceled.
Fail(w) ==
  /\ pc[w] \in {"begin", "body", "record", "choose", "save", "send"}
  /\ \/ Finish(w, "transient")
     \/ pc[w] \in {"begin", "body", "send"} /\ Finish(w, "permanent")
     \/ pc[w] = "body" /\ job[w][2] = "analysis" /\ Finish(w, "invalid")
     \/ life[w] = "stopping" /\ Finish(w, "interrupted")
  /\ UNCHANGED <<row, mailVars, life, seenVars, runs, hopeless, boundVars>>

-----------------------------------------------------------------------------
(* Settling *)

\* classifyMailTaskFailure: is there another attempt?
Retryable(t, e) ==
  \/ e = "interrupted"
  \/ /\ e \in {"transient", "invalid"}
     /\ row[t].attempts < MaxAttempts[t[2]]
     /\ e = "invalid" => row[t].attempts < 2

\* Mutant: an interrupted attempt is given back twice.
RefundedTwice(n, e) == IF e = "interrupted" THEN n - 2 ELSE n

\* A shutdown does not consume the budget.
Refunded(n, e) == IF e = "interrupted" /\ n > 0 THEN n - 1 ELSE n

\* Mutant: an attempt that a shutdown interrupted is taken for a success.
OutcomeSwallowed(t, e) == IF e \in {"ready", "interrupted"} THEN "ready"
                          ELSE IF e = "skipped" THEN e
                          ELSE IF Retryable(t, e) THEN "pending" ELSE "failed"

Outcome(t, e) == IF e \in {"ready", "skipped"} THEN e
                 ELSE IF Retryable(t, e) THEN "pending" ELSE "failed"

\* completeMailTask and failMailTask: under the token, or not at all.
Settle(w) ==
  /\ pc[w] = "settle"
  /\ LET t == job[w]
         e == end[w]
         s == Outcome(t, e)
     IN IF Owns(w)
          THEN /\ row' = [row EXCEPT ![t].status = s,
                                     ![t].attempts = Refunded(@, e),
                                     ![t].holder = NoWorker, ![t].lease = "none"]
               /\ due' = IF e = "interrupted" THEN due \cup {t} ELSE due \ {t}
               /\ runs' = IF e = "interrupted" /\ runs[t] > 0
                            THEN [runs EXCEPT ![t] = @ - 1] ELSE runs
               /\ hopeless' = IF /\ s = "failed" /\ e # "transient"
                                 /\ row[t].attempts <= MaxAttempts[t[2]]
                                THEN hopeless \cup {t} ELSE hopeless
          ELSE UNCHANGED <<row, due, runs, hopeless>>
  /\ Forget(w)
  /\ UNCHANGED <<waited, summary, redoing, life, seenVars, boundVars>>

\* The transaction fails: the row stays 'running' until its lease is over.
SettleFails(w) ==
  /\ pc[w] = "settle" /\ losses < MaxLosses
  /\ losses' = losses + 1
  /\ Surplus(w, IF end[w] = "ready" THEN -1 ELSE 0)
  /\ Forget(w)
  /\ UNCHANGED <<row, mailVars, life, sent, runs, hopeless, retries, stops>>

\* Three minutes have passed.  Under a worker that lives on, a notification may
\* now be delivered by somebody else as well.
LeaseOver(t) ==
  /\ Live(t)
  /\ row' = [row EXCEPT ![t].lease = "over"]
  /\ LET w == row[t].holder
     IN IF job[w] = t
          THEN /\ losses < MaxLosses
               /\ losses' = losses + 1
               /\ Surplus(w, -1)
          ELSE UNCHANGED <<losses, surplus>>
  /\ UNCHANGED <<mailVars, life, workVars, sent, runs, hopeless, retries, stops>>

-----------------------------------------------------------------------------
(* The user *)

\* Mutant: whatever has ended may be run again.
RepeatableAny(t) == row[t].status \in {"failed", "ready"}

\* RetryMailTask: only what has failed for good.
Repeatable(t) == row[t].status = "failed"

Retry(t) ==
  /\ Repeatable(t) /\ retries < MaxRetries
  /\ row' = [row EXCEPT ![t].status = "pending", ![t].attempts = 0]
  /\ due' = due \cup {t}
  /\ runs' = [runs EXCEPT ![t] = 0]
  /\ hopeless' = hopeless \ {t}
  /\ retries' = retries + 1
  /\ UNCHANGED <<waited, summary, redoing, life, workVars, seenVars, losses, stops>>

\* The mail is deleted, and the foreign keys take its tasks and summary along.
DeleteMessage(m) ==
  /\ \E k \in Types[m] : row[<<m, k>>].status \notin {"none", "gone"}
  /\ row' = [t \in Tasks |-> IF t[1] = m THEN [Nothing EXCEPT !.status = "gone"] ELSE row[t]]
  /\ due' = {t \in due : t[1] # m}
  /\ waited' = waited \ {m}
  /\ summary' = summary \ {m}
  /\ redoing' = redoing \ {m}
  /\ runs' = [t \in Tasks |-> IF t[1] = m THEN 0 ELSE runs[t]]
  /\ hopeless' = {t \in hopeless : t[1] # m}
  /\ UNCHANGED <<life, workVars, seenVars, boundVars>>

\* A new summary on request: 'generating' until it, or the old text, is 'ready'.
Redo(m) ==
  /\ m \in summary
  /\ summary' = summary \ {m} /\ redoing' = redoing \cup {m}
  /\ UNCHANGED <<row, due, waited, life, workVars, seenVars, runs, hopeless,
                 boundVars>>

\* It is ready, as is a first summary the user did not want to wait for.
Redone(m) ==
  /\ \E k \in Types[m] : row[<<m, k>>].status \notin {"none", "gone"}
  /\ m \notin summary
  /\ summary' = summary \cup {m} /\ redoing' = redoing \ {m}
  /\ UNCHANGED <<row, due, waited, life, workVars, seenVars, runs, hopeless,
                 boundVars>>

-----------------------------------------------------------------------------
(* The runners *)

Start(w) ==
  /\ life[w] = "off"
  /\ life' = [life EXCEPT ![w] = "on"]
  /\ UNCHANGED <<row, mailVars, workVars, seenVars, runs, hopeless, boundVars>>

\* StopAccount, or the end of the process: the context is cancelled ...
Stop(w) ==
  /\ life[w] = "on" /\ stops < MaxStops
  /\ life' = [life EXCEPT ![w] = "stopping"]
  /\ stops' = stops + 1
  /\ UNCHANGED <<row, mailVars, workVars, seenVars, runs, hopeless, retries, losses>>

\* ... and the lane is joined.
Stopped(w) ==
  /\ life[w] = "stopping" /\ pc[w] = "idle"
  /\ life' = [life EXCEPT ![w] = "off"]
  /\ UNCHANGED <<row, mailVars, workVars, seenVars, runs, hopeless, boundVars>>

\* The process dies; a request it has just made may arrive.
Crash(w) ==
  /\ life[w] # "off" /\ stops < MaxStops
  /\ life' = [life EXCEPT ![w] = "off"]
  /\ stops' = stops + 1
  /\ \/ pc[w] = "send" /\ Accepted(w) /\ Surplus(w, 0)
     \/ /\ UNCHANGED sent
        /\ IF pc[w] = "accepted" \/ (pc[w] = "settle" /\ end[w] = "ready")
             THEN Surplus(w, -1) ELSE UNCHANGED surplus
  /\ Forget(w)
  /\ UNCHANGED <<row, mailVars, runs, hopeless, retries, losses>>

-----------------------------------------------------------------------------
Execute(w) ==
  \/ Skip(w) \/ Begin(w) \/ Generate(w) \/ Record(w)
  \/ Choose(w) \/ Save(w) \/ Send(w) \/ Answer(w) \/ Fail(w)
  \/ Settle(w) \/ SettleFails(w)

Runner(w) == Start(w) \/ Stop(w) \/ Stopped(w) \/ Crash(w)

Mail(m) == Enqueue(m) \/ Wait(m) \/ DeleteMessage(m) \/ Redo(m) \/ Redone(m)

Next ==
  \/ \E w \in Workers : Claim(w) \/ Execute(w) \/ Runner(w)
  \/ \E m \in Messages : Mail(m)
  \/ \E t \in Tasks : Elapse(t) \/ LeaseOver(t) \/ Retry(t)

Spec == Init /\ [][Next]_vars

\* Executions have time limits (100 s, 15 s), lanes poll every 5 s and are woken
\* when a synchronization or a task ends, leases and delays run out, and runners
\* are started again.
Fairness ==
  /\ \A w \in Workers : /\ WF_vars(Execute(w)) /\ WF_vars(Claim(w))
                        /\ WF_vars(Start(w)) /\ WF_vars(Stopped(w))
  /\ \A m \in Messages : WF_vars(Wait(m))
  /\ \A t \in Tasks : WF_vars(Elapse(t)) /\ WF_vars(LeaseOver(t))

FairSpec == Spec /\ Fairness

-----------------------------------------------------------------------------
(* Properties *)

\* The text of a notification is frozen before it is sent: retries, takeovers by
\* another worker and an analysis that succeeds late never send a second text.
OneText == \A m \in Messages : Cardinality(sent[m]) <= 1

\* A notification is delivered twice only if its success could not be recorded:
\* an acknowledgement, a lease, a result or a worker was lost.
NotifiedTwiceInDoubt == \A m \in Messages : surplus[m] <= 1

\* What is reported as done was done: a ready notification was accepted, a ready
\* analysis has its summary.  A worker that lost its lease reports nothing.
ReadyMeansDone ==
  \A t \in Tasks : row[t].status = "ready" =>
    /\ t[2] = "notification" => sent[t[1]] # {}
    /\ t[2] = "analysis" => t[1] \in summary \cup redoing

\* A task that succeeded or was skipped is never run again, neither by the late
\* failure of a worker that lost its lease nor by an explicit retry.
DoneIsFinal ==
  [][\A t \in Tasks : row[t].status \in {"ready", "skipped"} =>
       row'[t].status \in {row[t].status, "gone"}]_vars

\* The attempt budget: never exceeded, not even by workers that die in the middle
\* of the work, and never cut short by shutdowns.
BudgetKept ==
  \A t \in Tasks :
    /\ runs[t] <= MaxAttempts[t[2]]
    /\ row[t].status = "failed" => t \in hopeless \/ runs[t] = MaxAttempts[t[2]]

\* The task rows and the notifications account for the work: one text, twice only in
\* doubt, done when it says so, within its attempts.
WorkIsAccounted == OneText /\ NotifiedTwiceInDoubt /\ ReadyMeansDone /\ BudgetKept

\* At most MaxAI workers run AI tasks under live leases, over all mailboxes and
\* processes.
Working(w) == pc[w] # "idle" /\ Owns(w) /\ Live(job[w])

AICapacity ==
  Cardinality({w \in Workers : Working(w) /\ job[w][2] \in AITypes}) <= MaxAI

\* Work that was accepted with the mail comes to an end.
EventuallySettled ==
  \A t \in Tasks :
    row[t].status = "pending" ~> row[t].status \in {"ready", "skipped", "failed", "gone"}

=============================================================================
