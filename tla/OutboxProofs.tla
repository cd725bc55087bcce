---------------------------- MODULE OutboxProofs ----------------------------
(***************************************************************************)
(* What the runs of MCOutbox show on small instances, proved for every     *)
(* number of rows, workers, compositions, retries and restarts.            *)
(***************************************************************************)
EXTENDS Outbox, TLAPS

-----------------------------------------------------------------------------
(* Type correctness *)

\* Counting one more keeps a vector of counters one, whatever the index.
LEMMA CountUp ==
  ASSUME NEW f \in [Ids -> Nat], NEW x
  PROVE  [f EXCEPT ![x] = @ + 1] \in [Ids -> Nat]
<1>1. CASE x \in Ids
  BY <1>1
<1>2. CASE x \notin Ids
  <2>1. [f EXCEPT ![x] = @ + 1] = f
    BY <1>2
  <2>2. QED
    BY <2>1
<1>3. QED
  BY <1>1, <1>2

\* The status recorded for each way a submission can end.
LEMMA Outcomes ==
  /\ Outcome("none") = "sent"
  /\ Outcome("lost") = "unknown"
  /\ Outcome("refused") = "failed"
BY DEF Outcome

\* A worker inside deliverOutgoing holds the record ClaimOutgoing gave it.
JobOK == \A w \in Workers : Busy(w) => job[w] \in Ids

\* Every step of the outbox keeps its variables in their types.
LEMMA TypeStep == TypeOK /\ JobOK /\ [Next]_vars => TypeOK'
<1> USE OutboxAssumption DEF TypeOK, Statuses, Results
<1> SUFFICES ASSUME TypeOK, JobOK, [Next]_vars
             PROVE  TypeOK'
  OBVIOUS
<1>1. ASSUME NEW c \in Compositions, NEW st \in {"queued", "failed", "unknown"},
             NEW full \in BOOLEAN, NEW o \in Ids \cup {NoId},
             Compose(c, st, full, o)
      PROVE  TypeOK'
  BY <1>1 DEF Compose, workerVars, processVars, smtpVars, folderVars
<1>2. ASSUME NEW c \in Compositions, ComposeAgain(c) \/ DiscardDraft(c)
      PROVE  TypeOK'
  BY <1>2 DEF ComposeAgain, DiscardDraft, rowVars, workerVars, processVars,
              smtpVars, folderVars, askVars
<1>3. ASSUME NEW i \in Ids, Retry(i)
      PROVE  TypeOK'
  BY <1>3 DEF Retry, workerVars, processVars, composeVars, smtpVars, folderVars
<1>4. ASSUME NEW i \in Ids, Delete(i)
      PROVE  TypeOK'
  BY <1>4 DEF Delete, workerVars, processVars, composeVars, smtpVars, folderVars, askVars
<1>5. CASE DeleteAccount
  BY <1>5 DEF DeleteAccount, workerVars, processVars, composeVars, smtpVars, askVars
<1>6. ASSUME NEW w \in Workers, Claim(w)
      PROVE  TypeOK'
  BY <1>6 DEF Claim, processVars, composeVars, smtpVars, folderVars, askVars
<1>7. ASSUME NEW w \in Workers, OpenSender(w)
      PROVE  TypeOK'
  BY <1>7, Outcomes DEF OpenSender, Goto, Answer, rowVars, processVars,
              composeVars, smtpVars, folderVars, askVars
<1>8. ASSUME NEW w \in Workers, SmtpReject(w)
      PROVE  TypeOK'
  BY <1>8, Outcomes DEF SmtpReject, Answer, rowVars, processVars, composeVars,
              smtpVars, folderVars, askVars
<1>9. ASSUME NEW w \in Workers, SmtpLose(w)
      PROVE  TypeOK'
  BY <1>9, CountUp, Outcomes DEF SmtpLose, Answer, rowVars, processVars,
              composeVars, folderVars, askVars
<1>10. ASSUME NEW w \in Workers, SmtpAccept(w)
       PROVE  TypeOK'
  BY <1>10, CountUp DEF SmtpAccept, Goto, rowVars, processVars, composeVars,
                        folderVars, askVars
<1>11. ASSUME NEW w \in Workers, SmtpReply(w)
       PROVE  TypeOK'
  BY <1>11, Outcomes DEF SmtpReply, Answer, rowVars, processVars, composeVars,
               smtpVars, folderVars, askVars
<1>12. ASSUME NEW w \in Workers, Finish(w)
       PROVE  TypeOK'
  BY <1>12 DEF Finish, Goto, Return, Copied, processVars, composeVars, smtpVars,
               folderVars, askVars
<1>13. ASSUME NEW w \in Workers, FinishFails(w)
       PROVE  TypeOK'
  BY <1>13 DEF JobOK, Busy, FinishFails, Return, rowVars, processVars,
               composeVars, smtpVars, folderVars, askVars
<1>14. ASSUME NEW w \in Workers, SaveCopy(w) \/ MirrorCopy(w)
       PROVE  TypeOK'
  BY <1>14 DEF JobOK, Busy, SaveCopy, MirrorCopy, Goto, Return, rowVars,
               processVars, composeVars, smtpVars, askVars
<1>15. CASE Boot
  BY <1>15, SMTT(30) DEF Boot, Recovered, composeVars, smtpVars, folderVars, askVars
<1>16. CASE Stop \/ Stopped
  BY <1>16 DEF Stop, Stopped, rowVars, workerVars, processVars,
               composeVars, smtpVars, folderVars, askVars
<1>17. CASE Crash
  <2>1. late' \in [Ids -> Nat]
    BY <1>17 DEF Crash
  <2>2. QED
    BY <1>17, <2>1 DEF Crash, rowVars, composeVars, folderVars, askVars
<1>18. ASSUME NEW i \in Ids, SmtpAcceptLate(i)
       PROVE  TypeOK'
  <2>1. late[i] \in Nat /\ late[i] - 1 \in Nat
    BY <1>18 DEF SmtpAcceptLate
  <2>2. late' \in [Ids -> Nat] /\ accepted' \in [Ids -> Nat]
    BY <1>18, <2>1, CountUp DEF SmtpAcceptLate
  <2>3. QED
    BY <1>18, <2>2 DEF SmtpAcceptLate, rowVars, workerVars, processVars,
                       composeVars, folderVars, askVars
<1>19. ASSUME NEW i \in Ids, ProviderCopy(i) \/ Expunge(i)
       PROVE  TypeOK'
  BY <1>19 DEF ProviderCopy, Expunge, rowVars, workerVars, processVars,
               composeVars, smtpVars, askVars
<1>20. CASE SyncSent
  BY <1>20 DEF SyncSent, rowVars, workerVars, processVars, composeVars, smtpVars, askVars
<1>21. CASE UNCHANGED vars
  BY <1>21 DEF vars, rowVars, workerVars, processVars, composeVars, smtpVars,
               folderVars, askVars
<1>22. CASE Requests
  <2>1. ASSUME NEW c \in Compositions, NEW o \in Ids \cup {NoId},
               NEW import \in Imports, Compose(c, import[1], import[2], o)
        PROVE  TypeOK'
    <3>1. import[1] \in {"queued", "failed", "unknown"} /\ import[2] \in BOOLEAN
      OBVIOUS
    <3>2. QED
      BY <1>1, <2>1, <3>1
  <2>2. QED
    BY <1>1, <1>2, <1>3, <1>4, <1>5, <1>22, <2>1 DEF Requests
<1>23. CASE \E w \in Workers : Deliver(w)
  BY <1>6, <1>7, <1>8, <1>9, <1>10, <1>11, <1>12, <1>13, <1>14, <1>23 DEF Deliver
<1>24. CASE Process
  BY <1>15, <1>16, <1>17, <1>24 DEF Process
<1>25. CASE Provider
  BY <1>18, <1>19, <1>20, <1>25 DEF Provider
<1>26. QED
  BY <1>21, <1>22, <1>23, <1>24, <1>25 DEF Next

\* The steps that move no worker.
LEMMA WorkersRest ==
  Requests \/ Stop \/ Provider \/ UNCHANGED vars => UNCHANGED <<pc, job>>
BY DEF Requests, Compose, ComposeAgain, DiscardDraft, Retry, Delete, DeleteAccount,
       Stop, Provider, SmtpAcceptLate, ProviderCopy, Expunge, SyncSent, vars, workerVars

\* A step of one worker leaves the others where they are.
LEMMA OthersRest ==
  ASSUME NEW w \in Workers, Deliver(w), TypeOK
  PROVE  \A v \in Workers \ {w} :
           pc'[v] = pc[v] /\ job'[v] = job[v] /\ result'[v] = result[v]
BY DEF TypeOK, Deliver, Claim, OpenSender, SmtpReject, SmtpLose, SmtpAccept, SmtpReply,
       Finish, FinishFails, SaveCopy, MirrorCopy, Goto, Answer, Return

\* A worker takes up a row when it claims one, and keeps it until it returns.
LEMMA JobStep == TypeOK /\ JobOK /\ [Next]_vars => JobOK'
<1> USE DEF JobOK, Busy
<1> SUFFICES ASSUME TypeOK, JobOK, [Next]_vars
             PROVE  JobOK'
  OBVIOUS
<1>1. CASE Requests \/ Stop \/ Provider \/ UNCHANGED vars
  BY <1>1, WorkersRest
<1>2. ASSUME NEW w \in Workers, Deliver(w)
      PROVE  JobOK'
  <2>1. pc'[w] # "idle" => job'[w] \in Ids
    BY <1>2 DEF TypeOK, Deliver, Claim, OpenSender, SmtpReject, SmtpLose, SmtpAccept,
                SmtpReply, Finish, FinishFails, SaveCopy, MirrorCopy, Goto, Answer, Return
  <2>2. QED
    BY <1>2, <2>1, OthersRest
<1>3. CASE Boot \/ Stopped \/ Crash
  BY <1>3 DEF Boot, Stopped, Crash
<1>4. QED
  BY <1>1, <1>2, <1>3 DEF Next, Process

\* Every variable of the outbox keeps its type: in particular a row's status
\* is always one of those the handlers, the workers and the recovery know.
THEOREM TypeCorrect == Spec => []TypeOK
<1>1. Init => TypeOK /\ JobOK
  BY OutboxAssumption DEF Init, TypeOK, Statuses, Results, JobOK, Busy
<1>2. TypeOK /\ JobOK /\ [Next]_vars => TypeOK' /\ JobOK'
  BY TypeStep, JobStep
<1>3. QED
  BY <1>1, <1>2, PTL DEF Spec

-----------------------------------------------------------------------------
(* Who may touch a row *)

\* No delivery outlives its process.
DownStopped == phase = "down" => \A w \in Workers : ~Busy(w)

\* What the row of a worker can have become meanwhile: until its result is
\* recorded nothing but the removal of the account changes it, afterwards the
\* user may remove it, too.
HeldStatus ==
  \A w \in Workers :
    /\ InFlight(w) => status[job[w]] \in {"sending", "gone"}
    /\ Busy(w) /\ ~InFlight(w) => status[job[w]] \in {"sent", "gone"}

\* NoStraySending, for a process that is stopping as well.
Accounted ==
  phase # "down" =>
    \A i \in Ids : status[i] = "sending" =>
      i \in lostFinish \/ \E w \in Workers : InFlight(w) /\ job[w] = i

\* The inductive invariant behind the three theorems of this section.
Ownership ==
  /\ TypeOK /\ JobOK /\ DownStopped
  /\ HeldStatus /\ ExclusiveSubmission /\ Accounted

\* No request makes a row a worker may hold claimable again.
LEMMA RequestsSpareRows ==
  ASSUME TypeOK, Requests \/ Stop \/ Stopped \/ Provider \/ UNCHANGED vars, NEW i \in Ids
  PROVE  /\ status[i] \in {"sending", "gone"} => status'[i] \in {"sending", "gone"}
         /\ status[i] \in {"sent", "gone"} => status'[i] \in {"sent", "gone"}
<1> USE OutboxAssumption DEF TypeOK
<1>1. ASSUME NEW c, NEW st, NEW full, NEW o, Compose(c, st, full, o)
      PROVE  status[i] \in {"sending", "sent", "gone"} => status'[i] = status[i]
  BY <1>1 DEF Compose, Fresh, Replaceable
<1>2. ASSUME NEW j \in Ids, Retry(j)
      PROVE  status[i] \in {"sending", "sent", "gone"} => status'[i] = status[i]
  BY <1>2 DEF Retry, Retryable
<1>3. ASSUME NEW j \in Ids, Delete(j)
      PROVE  status'[i] = status[i] \/ (status[i] # "sending" /\ status'[i] = "gone")
  BY <1>3 DEF Delete, Deletable
<1>4. ASSUME DeleteAccount
      PROVE  status[i] # "none" => status'[i] = "gone"
  BY <1>4 DEF DeleteAccount, Live
<1>5. ASSUME \/ \E c \in Compositions : ComposeAgain(c) \/ DiscardDraft(c)
             \/ Stop \/ Stopped \/ Provider \/ UNCHANGED vars
      PROVE  status'[i] = status[i]
  BY <1>5 DEF ComposeAgain, DiscardDraft, Stop, Stopped, Provider, SmtpAcceptLate,
              ProviderCopy, Expunge, SyncSent, vars, rowVars
<1>6. QED
  BY <1>1, <1>2, <1>3, <1>4, <1>5 DEF Requests

\* Workers run only while the process does.
LEMMA DownStep == TypeOK /\ DownStopped /\ [Next]_vars => DownStopped'
<1> USE DEF DownStopped, Busy
<1> SUFFICES ASSUME TypeOK, DownStopped, [Next]_vars
             PROVE  DownStopped'
  OBVIOUS
<1>1. CASE Requests \/ Provider \/ UNCHANGED vars
  <2>1. phase' = phase
    BY <1>1 DEF Requests, Compose, ComposeAgain, DiscardDraft, Retry, Delete, DeleteAccount,
                Provider, SmtpAcceptLate, ProviderCopy, Expunge, SyncSent, vars, processVars
  <2>2. QED
    BY <1>1, <2>1, WorkersRest
<1>2. ASSUME NEW w \in Workers, Deliver(w)
      PROVE  DownStopped'
  <2>1. phase' = phase /\ (phase = "up" \/ Busy(w))
    BY <1>2 DEF Deliver, Claim, OpenSender, SmtpReject, SmtpLose, SmtpAccept, SmtpReply,
                Finish, FinishFails, SaveCopy, MirrorCopy, processVars
  <2>2. QED
    BY <2>1
<1>3. CASE Process
  BY <1>3 DEF Process, Boot, Stop, Stopped, Crash, TypeOK
<1>4. QED
  BY <1>1, <1>2, <1>3 DEF Next

\* Claims are exclusive, and so is everything that follows from them.
LEMMA ExclusiveStep == Ownership /\ [Next]_vars => ExclusiveSubmission'
<1> USE DEF ExclusiveSubmission
<1> SUFFICES ASSUME Ownership, [Next]_vars
             PROVE  ExclusiveSubmission'
  OBVIOUS
<1>1. CASE Requests \/ Stop \/ Provider \/ UNCHANGED vars
  BY <1>1, WorkersRest DEF Ownership, Busy
<1>2. ASSUME NEW w \in Workers, Deliver(w)
      PROVE  ExclusiveSubmission'
  <2> USE <1>2 DEF Ownership
  <2>1. CASE Claim(w)
    <3>1. ASSUME NEW v \in Workers, v # w, Busy(v)
          PROVE  job'[w] # job[v]
      BY <2>1, <3>1 DEF Claim, Claimable, HeldStatus, InFlight, Busy, TypeOK
    <3>2. QED
      BY <3>1, OthersRest DEF Busy
  <2>2. CASE ~Claim(w)
    <3>1. Busy(w) /\ (job'[w] = job[w] \/ pc'[w] = "idle")
      BY <2>2 DEF Deliver, OpenSender, SmtpReject, SmtpLose, SmtpAccept, SmtpReply, Finish,
                  FinishFails, SaveCopy, MirrorCopy, Goto, Answer, Return, TypeOK, Busy
    <3>2. QED
      BY <3>1, OthersRest DEF Busy
  <2>3. QED
    BY <2>1, <2>2
<1>3. CASE Boot \/ Stopped \/ Crash
  BY <1>3 DEF Boot, Stopped, Crash, Ownership, Busy
<1>4. QED
  BY <1>1, <1>2, <1>3 DEF Next, Process

\* A worker's row stays where the worker needs it, or is gone.
LEMMA HeldStep == Ownership /\ [Next]_vars => HeldStatus'
<1> USE DEF HeldStatus
<1> SUFFICES ASSUME Ownership, [Next]_vars
             PROVE  HeldStatus'
  OBVIOUS
<1>1. CASE Requests \/ Stop \/ Provider \/ UNCHANGED vars
  BY <1>1, WorkersRest, RequestsSpareRows DEF Ownership, JobOK, Busy, InFlight
<1>2. ASSUME NEW w \in Workers, Deliver(w)
      PROVE  HeldStatus'
  <2> USE <1>2 DEF Ownership
  <2>1. /\ InFlight(w)' => status'[job'[w]] \in {"sending", "gone"}
        /\ Busy(w)' /\ ~InFlight(w)' => status'[job'[w]] \in {"sent", "gone"}
    <3>1. CASE Claim(w)
      BY <3>1 DEF Claim, InFlight, Busy, TypeOK
    <3>2. CASE Finish(w)
      BY <3>2 DEF Finish, Goto, Return, Copied, InFlight, Busy, TypeOK, JobOK
    <3>3. CASE ~Claim(w) /\ ~Finish(w)
      BY <3>3 DEF Deliver, OpenSender, SmtpReject, SmtpLose, SmtpAccept, SmtpReply,
                  FinishFails, SaveCopy, MirrorCopy, Goto, Answer, Return, TypeOK,
                  Busy, InFlight, rowVars
    <3>4. QED
      BY <3>1, <3>2, <3>3
  <2>2. ASSUME NEW v \in Workers \ {w}, Busy(v)
        PROVE  status'[job[v]] = status[job[v]]
    BY <2>2 DEF Deliver, Claim, Claimable, OpenSender, SmtpReject, SmtpLose, SmtpAccept,
                SmtpReply, Finish, FinishFails, SaveCopy, MirrorCopy, TypeOK, rowVars,
                HeldStatus, ExclusiveSubmission, JobOK, Busy, InFlight
  <2>3. QED
    BY <2>1, <2>2, OthersRest DEF Busy, InFlight
<1>3. CASE Boot \/ Stopped \/ Crash
  BY <1>3 DEF Boot, Stopped, Crash, Ownership, Busy, InFlight
<1>4. QED
  BY <1>1, <1>2, <1>3 DEF Next, Process

\* A row leaves "sending" with its worker, or is noted as lost.
LEMMA AccountedStep == Ownership /\ [Next]_vars => Accounted'
<1> USE DEF Accounted
<1> SUFFICES ASSUME Ownership, [Next]_vars
             PROVE  Accounted'
  OBVIOUS
<1>1. CASE Requests \/ Stop \/ Provider \/ UNCHANGED vars
  <2>1. /\ phase' # "down" => phase # "down"
        /\ \A i \in Ids : status'[i] = "sending" => status[i] = "sending"
        /\ lostFinish' = lostFinish
    BY <1>1, OutboxAssumption
       DEF Requests, Compose, Fresh, ComposeAgain, DiscardDraft, Retry, Delete, DeleteAccount,
           Stop, Provider, SmtpAcceptLate, ProviderCopy, Expunge, SyncSent, vars, rowVars,
           processVars, Ownership, TypeOK
  <2>2. QED
    BY <1>1, <2>1, WorkersRest DEF Ownership, InFlight
<1>2. ASSUME NEW w \in Workers, Deliver(w)
      PROVE  Accounted'
  <2> USE <1>2 DEF Ownership
  <2>1. /\ phase' = phase
        /\ lostFinish \subseteq lostFinish'
        /\ \A i \in Ids : status'[i] = "sending" =>
             status[i] = "sending" \/ (InFlight(w)' /\ job'[w] = i)
    BY DEF Deliver, Claim, OpenSender, SmtpReject, SmtpLose, SmtpAccept, SmtpReply, Finish,
           FinishFails, SaveCopy, MirrorCopy, TypeOK, rowVars, processVars, InFlight
  <2>2. InFlight(w) => \/ InFlight(w)' /\ job'[w] = job[w]
                       \/ status'[job[w]] # "sending"
                       \/ job[w] \in lostFinish'
    BY DEF Deliver, Claim, OpenSender, SmtpReject, SmtpLose, SmtpAccept, SmtpReply, Finish,
           FinishFails, SaveCopy, MirrorCopy, Goto, Answer, Return, TypeOK, JobOK, Busy,
           rowVars, InFlight, Results
  <2>3. QED
    BY <2>1, <2>2, OthersRest DEF InFlight
<1>3. CASE Boot
  BY <1>3 DEF Boot, Recovered, Ownership, TypeOK
<1>4. CASE Stopped \/ Crash
  BY <1>4 DEF Stopped, Crash
<1>5. QED
  BY <1>1, <1>2, <1>3, <1>4 DEF Next, Process

\* All of Ownership holds throughout.
LEMMA OwnershipAlways == Spec => []Ownership
<1>1. Init => Ownership
  BY OutboxAssumption DEF Init, Ownership, TypeOK, Statuses, Results, JobOK, DownStopped,
     HeldStatus, ExclusiveSubmission, Accounted, Busy, InFlight
<1>2. Ownership /\ [Next]_vars => Ownership'
  BY TypeStep, JobStep, DownStep, HeldStep, ExclusiveStep, AccountedStep DEF Ownership
<1>3. QED
  BY <1>1, <1>2, PTL DEF Spec

\* ExclusiveSubmission for any number of rows, workers and restarts: ClaimOutgoing
\* never gives one row to two deliveries at a time.
THEOREM ClaimsAreExclusive == Spec => []ExclusiveSubmission
<1>1. Ownership => ExclusiveSubmission
  BY DEF Ownership
<1>2. QED
  BY <1>1, OwnershipAlways, PTL

\* NoStraySending: RecoverOutgoing and FinishOutgoing together leave no row
\* "sending" that nobody is sending, but for a result that could not be written.
THEOREM NothingLeftSending == Spec => []NoStraySending
<1>1. Ownership => NoStraySending
  BY DEF Ownership, Accounted, NoStraySending
<1>2. QED
  BY <1>1, OwnershipAlways, PTL

\* RowsAreOwned: ClaimOutgoing and the recovery of StartOutbox keep every row that is
\* being sent in the hands of one worker.
THEOREM OneOwner == Spec => []RowsAreOwned
<1>1. ExclusiveSubmission /\ NoStraySending => RowsAreOwned
  BY DEF RowsAreOwned
<1>2. QED
  BY <1>1, ClaimsAreExclusive, NothingLeftSending, PTL

\* SentIsFinal: no handler, worker or recovery reopens a recorded delivery.
THEOREM SentStaysSent == Spec => SentIsFinal
<1> DEFINE Final == \A i \in Ids : status[i] = "sent" => status'[i] \in {"sent", "gone"}
<1>1. Ownership /\ [Next]_vars => [Final]_vars
  <2> SUFFICES ASSUME Ownership, Next
               PROVE  Final
    OBVIOUS
  <2> USE DEF Ownership
  <2>1. CASE Requests \/ Stop \/ Stopped \/ Provider
    BY <2>1, RequestsSpareRows
  <2>2. ASSUME NEW w \in Workers, Deliver(w)
        PROVE  Final
    BY <2>2 DEF Deliver, Claim, Claimable, OpenSender, SmtpReject, SmtpLose, SmtpAccept,
                SmtpReply, Finish, FinishFails, SaveCopy, MirrorCopy, TypeOK, rowVars
  <2>3. CASE Boot \/ Crash
    BY <2>3 DEF Boot, Recovered, Crash, rowVars, TypeOK
  <2>4. QED
    BY <2>1, <2>2, <2>3 DEF Next, Process
<1>2. QED
  BY <1>1, OwnershipAlways, PTL DEF Spec, SentIsFinal

-----------------------------------------------------------------------------
(* Deliveries are bounded by what was asked for *)

\* A worker that has handed nothing to the server, or was refused.
Clean(w) == \/ pc[w] \in {"claimed", "smtp"}
            \/ pc[w] = "answered" /\ result[w] = "failed"

Handed == [i \in Ids |-> accepted[i] + late[i]]

\* Every delivery made or still possible is covered by a doubtful retry or by
\* the current request, and by the latter only once that request is in doubt.
Debt ==
  /\ \A i \in Ids : Handed[i] <= doubts[i] + 1
  /\ \A i \in Ids : status[i] \in {"none", "queued", "failed"} => Handed[i] <= doubts[i]
  /\ \A w \in Workers : Clean(w) => Handed[job[w]] <= doubts[job[w]]

\* A worker that knows the server accepted its message.
Knows(w) == \/ pc[w] \in {"accepted", "copying", "mirroring"}
            \/ pc[w] = "answered" /\ result[w] = "sent"

\* Whoever knows is right, and so is every copy and every row marked "sent".
Evidence ==
  /\ \A w \in Workers : Knows(w) => accepted[job[w]] > 0
  /\ \A i \in Ids : i \in sentCopy => accepted[i] > 0

\* A row that does not exist yet has no past.
Unborn ==
  \A i \in Ids :
    /\ status[i] = "none" <=> key[i] = NoKey
    /\ status[i] = "none" =>
         /\ accepted[i] = 0 /\ late[i] = 0
         /\ attempts[i] = 0 /\ replaces[i] = NoId /\ i \notin imported

\* A claim uses up a request: the creation of a queued row, or a retry.
Requested ==
  \A i \in Ids :
    attempts[i] + (IF status[i] = "queued" THEN 1 ELSE 0)
      <= retries[i] + (IF i \in imported THEN 0 ELSE 1)

\* Rows are created in order, and a key is free again only once its row is gone.
KeysOnce ==
  \A i, j \in Ids : i < j /\ status[j] # "none" =>
    /\ status[i] # "none"
    /\ key[i] = key[j] => status[i] = "gone"

\* A draft that is gone, or about to go, is in the outbox.
Committed == \A c \in Compositions : c \notin drafts \/ c \in cleanup => \E i \in Ids : key[i] = c

Ledger == Ownership /\ Debt /\ Evidence /\ Unborn /\ Requested /\ KeysOnce
             /\ Committed /\ ReplacedStaysRetired

\* The steps that touch no counter of the ledger.
QuietRequest == \/ \E c \in Compositions : ComposeAgain(c) \/ DiscardDraft(c)
                \/ Stop \/ Stopped
                \/ \E i \in Ids : Expunge(i)
                \/ SyncSent
                \/ UNCHANGED vars

\* What a quiet step leaves alone.
LEMMA QuietFrame ==
  QuietRequest => /\ UNCHANGED <<rowVars, smtpVars, askVars>>
                  /\ sentCopy' \subseteq sentCopy
                  /\ (UNCHANGED workerVars \/ \A w \in Workers : ~Busy(w)')
                  /\ drafts' \subseteq drafts
                  /\ drafts \ drafts' \subseteq cleanup
                  /\ cleanup' \subseteq cleanup \cup {c \in Compositions : Saved(c)}
BY DEF QuietRequest, ComposeAgain, DiscardDraft, Stop, Stopped, Expunge, SyncSent, vars,
       rowVars, smtpVars, askVars, workerVars, composeVars, folderVars, Busy

\* The actions of Next, with the quiet ones taken together.
LEMMA Cases ==
  ASSUME [Next]_vars
  PROVE  \/ QuietRequest
         \/ \E c \in Compositions, o \in Ids \cup {NoId},
              st \in {"queued", "failed", "unknown"}, full \in BOOLEAN : Compose(c, st, full, o)
         \/ \E i \in Ids : \/ Retry(i) \/ Delete(i) \/ SmtpAcceptLate(i) \/ ProviderCopy(i)
         \/ DeleteAccount \/ Boot \/ Crash
         \/ \E w \in Workers : Deliver(w)
<1>1. ASSUME NEW c \in Compositions, NEW o \in Ids \cup {NoId}, NEW import \in Imports,
             Compose(c, import[1], import[2], o)
      PROVE  \E st \in {"queued", "failed", "unknown"}, full \in BOOLEAN : Compose(c, st, full, o)
  <2>1. import[1] \in {"queued", "failed", "unknown"} /\ import[2] \in BOOLEAN
    BY OutboxAssumption
  <2>2. QED
    BY <1>1, <2>1
<1>2. QED
  BY <1>1 DEF Next, Requests, Process, Provider, QuietRequest

\* Handed, row by row.
LEMMA HandedIs ==
  \A i \in Ids : Handed[i] = accepted[i] + late[i] /\ Handed'[i] = accepted'[i] + late'[i]
BY DEF Handed

\* One more acceptance, or one more submission nobody waits for.
LEMMA HandedUp ==
  ASSUME NEW k \in Ids, accepted \in [Ids -> Nat], late \in [Ids -> Nat],
         \/ accepted' = [accepted EXCEPT ![k] = @ + 1] /\ late' = late
         \/ late' = [late EXCEPT ![k] = @ + 1] /\ accepted' = accepted
  PROVE  /\ Handed'[k] = Handed[k] + 1
         /\ \A i \in Ids \ {k} : Handed'[i] = Handed[i]
<1>1. /\ accepted'[k] + late'[k] = (accepted[k] + late[k]) + 1
      /\ \A i \in Ids \ {k} : accepted'[i] = accepted[i] /\ late'[i] = late[i]
  <2>1. accepted[k] \in Nat /\ late[k] \in Nat
    OBVIOUS
  <2>2. CASE accepted' = [accepted EXCEPT ![k] = @ + 1] /\ late' = late
    BY <2>1, <2>2
  <2>3. CASE late' = [late EXCEPT ![k] = @ + 1] /\ accepted' = accepted
    BY <2>1, <2>3
  <2>4. QED
    BY <2>2, <2>3
<1>2. QED
  BY <1>1, HandedIs

\* A step that hands nothing over, and waits for nothing new, keeps the balance.
LEMMA DebtKept ==
  ASSUME Ownership, Debt,
         UNCHANGED <<smtpVars, doubts>>,
         \A w \in Workers : Clean(w)' => Clean(w) /\ job'[w] = job[w],
         \A i \in Ids : status'[i] \in {"none", "queued", "failed"} =>
                            status[i] \in {"none", "queued", "failed"}
  PROVE  Debt'
<1>1. Handed' = Handed
  BY DEF smtpVars, Handed
<1>2. \A w \in Workers : Clean(w) => job[w] \in Ids
  BY DEF Ownership, JobOK, Busy, Clean
<1>3. QED
  BY <1>1, <1>2 DEF Debt

\* A handover or a late acceptance is covered when it happens.
LEMMA DebtStep == Ownership /\ Debt /\ [Next]_vars => Debt'
<1> USE OutboxAssumption DEF Ownership, TypeOK
<1> SUFFICES ASSUME Ownership, Debt, [Next]_vars
             PROVE  Debt'
  OBVIOUS
<1>0. \A i \in Ids : /\ Handed[i] \in Nat /\ doubts[i] \in Nat
                      /\ accepted[i] \in Nat /\ late[i] \in Nat
  BY HandedIs
<1>1. CASE QuietRequest
  BY <1>1, QuietFrame, DebtKept DEF rowVars, smtpVars, askVars, workerVars, Clean, Busy
<1>2. ASSUME NEW c \in Compositions, NEW o \in Ids \cup {NoId},
             NEW st \in {"queued", "failed", "unknown"}, NEW full \in BOOLEAN,
             Compose(c, st, full, o)
      PROVE  Debt'
  BY <1>2, DebtKept DEF Compose, Fresh, Replaceable, workerVars, Clean
<1>3. ASSUME NEW i \in Ids, Retry(i)
      PROVE  Debt'
  <2>1. Handed' = Handed /\ workerVars' = workerVars
    BY <1>3 DEF Retry, smtpVars, Handed
  <2>2. /\ status[i] \in {"failed", "unknown"}
        /\ status' = [status EXCEPT ![i] = "queued"]
        /\ \A j \in Ids : doubts'[j] \in Nat /\ doubts'[j] >= doubts[j]
        /\ status[i] = "unknown" => doubts'[i] = doubts[i] + 1
    <3>1. CASE status[i] = "unknown"
      BY <1>3, <3>1 DEF Retry, Retryable
    <3>2. CASE status[i] # "unknown"
      BY <1>3, <3>2 DEF Retry, Retryable
    <3>3. QED
      BY <3>1, <3>2
  <2>3. \A w \in Workers : Clean(w)' => Clean(w) /\ job'[w] = job[w] /\ job[w] \in Ids
    BY <2>1 DEF JobOK, Busy, Clean, workerVars
  <2>4. QED
    <3>1. ASSUME NEW j \in Ids
          PROVE  /\ Handed'[j] <= doubts'[j] + 1
                 /\ status'[j] \in {"none", "queued", "failed"} => Handed'[j] <= doubts'[j]
      <4>1. CASE j = i
        BY <1>0, <2>1, <2>2, <4>1 DEF Debt
      <4>2. CASE j # i
        BY <1>0, <2>1, <2>2, <4>2 DEF Debt
      <4>3. QED
        BY <4>1, <4>2
    <3>2. ASSUME NEW w \in Workers, Clean(w)'
          PROVE  Handed'[job'[w]] <= doubts'[job'[w]]
      <4>1. PICK k \in Ids : k = job[w] /\ k = job'[w]
        BY <2>3, <3>2
      <4>2. Handed[k] <= doubts[k]
        BY <2>3, <3>2, <4>1 DEF Debt
      <4>3. Handed'[k] <= doubts'[k]
        <5> HIDE DEF TypeOK, Ownership
        <5>1. QED
          BY <1>0, <2>1, <2>2, <4>2
      <4>4. QED
        BY <4>1, <4>3
    <3>3. QED
      BY <3>1, <3>2 DEF Debt
<1>4. ASSUME NEW i \in Ids, Delete(i)
      PROVE  Debt'
  BY <1>4, DebtKept DEF Delete, workerVars, askVars, Clean
<1>5. CASE DeleteAccount
  BY <1>5, DebtKept DEF DeleteAccount, Live, workerVars, askVars, Clean
<1>6. ASSUME NEW i \in Ids, ProviderCopy(i)
      PROVE  Debt'
  BY <1>6, DebtKept DEF ProviderCopy, rowVars, workerVars, askVars, Clean
<1>7. ASSUME NEW i \in Ids, SmtpAcceptLate(i)
      PROVE  Debt'
  <2>1. /\ late' = [late EXCEPT ![i] = @ - 1]
        /\ accepted' = [accepted EXCEPT ![i] = @ + 1]
        /\ UNCHANGED <<status, doubts, pc, job, result>>
    BY <1>7 DEF SmtpAcceptLate, rowVars, workerVars, askVars
  <2>2. \A j \in Ids : Handed'[j] = Handed[j]
    BY <2>1, HandedIs
  <2>3. \A w \in Workers : Clean(w)' => Clean(w) /\ job[w] \in Ids
    BY <2>1 DEF JobOK, Busy, Clean
  <2>4. QED
    BY <2>1, <2>2, <2>3 DEF Debt
<1>8. CASE Boot
  BY <1>8, DebtKept DEF Boot, Recovered, askVars, Clean
<1>9. CASE Crash
  <2>1. ASSUME NEW i \in Ids
        PROVE  \/ Handed'[i] = Handed[i]
               \/ /\ Handed'[i] = Handed[i] + 1
                  /\ Handed[i] <= doubts[i]
                  /\ status[i] \in {"sending", "gone"}
    <3>1. CASE \E w \in Workers : pc[w] = "smtp" /\ job[w] = i
      <4>1. Handed'[i] = Handed[i] + 1
        <5>1. late'[i] = late[i] + 1 /\ accepted' = accepted
          BY <1>9, <3>1 DEF Crash
        <5>2. QED
          BY <5>1, HandedIs
      <4>2. Handed[i] <= doubts[i] /\ status[i] \in {"sending", "gone"}
        BY <3>1 DEF Debt, Clean, HeldStatus, InFlight
      <4>3. QED
        BY <4>1, <4>2
    <3>2. CASE ~ \E w \in Workers : pc[w] = "smtp" /\ job[w] = i
      BY <1>9, <3>2, HandedIs DEF Crash
    <3>3. QED
      BY <3>1, <3>2
  <2>2. UNCHANGED <<status, doubts>> /\ \A w \in Workers : ~Clean(w)'
    BY <1>9 DEF Crash, rowVars, askVars, Clean
  <2>3. QED
    BY <1>0, <2>1, <2>2 DEF Debt
<1>10. ASSUME NEW w \in Workers, Deliver(w)
      PROVE  Debt'
  <2>1. ASSUME NEW v \in Workers, v # w, Clean(v)'
        PROVE  Clean(v) /\ job'[v] = job[v] /\ job[v] \in Ids
    BY <1>10, <2>1, OthersRest DEF JobOK, Busy, Clean
  <2>2. doubts' = doubts
    BY <1>10 DEF Deliver, Claim, OpenSender, SmtpReject, SmtpLose, SmtpAccept, SmtpReply,
                Finish, FinishFails, SaveCopy, MirrorCopy, askVars
  <2>3. CASE SmtpLose(w) \/ SmtpAccept(w)
    <3>1. job[w] \in Ids /\ status[job[w]] \in {"sending", "gone"} /\ Clean(w)
      BY <2>3 DEF SmtpLose, SmtpAccept, HeldStatus, InFlight, JobOK, Busy, Clean
    <3>2. PICK k \in Ids : k = job[w]
      BY <3>1
    <3>3. /\ Handed'[k] = Handed[k] + 1
          /\ \A i \in Ids \ {k} : Handed'[i] = Handed[i]
      <4>1. CASE SmtpLose(w)
        <5>1. late' = [late EXCEPT ![k] = @ + 1] /\ accepted' = accepted
          BY <3>2, <4>1 DEF SmtpLose
        <5>2. QED
          BY <5>1, HandedUp
      <4>2. CASE SmtpAccept(w)
        <5>1. accepted' = [accepted EXCEPT ![k] = @ + 1] /\ late' = late
          BY <3>2, <4>2 DEF SmtpAccept
        <5>2. QED
          BY <5>1, HandedUp
      <4>3. QED
        BY <2>3, <4>1, <4>2
    <3>4. status' = status /\ ~Clean(w)'
      BY <2>3, Outcomes DEF SmtpLose, SmtpAccept, rowVars, Answer, Goto, Clean
    <3>5. ASSUME NEW v \in Workers, v # w, Clean(v)
          PROVE  job[v] # k
      BY <3>1, <3>2, <3>5 DEF ExclusiveSubmission, Busy, Clean
    <3>6. /\ \A i \in Ids : Handed'[i] <= doubts[i] + 1
          /\ \A i \in Ids : status'[i] \in {"none", "queued", "failed"} => Handed'[i] <= doubts[i]
      BY <1>0, <3>1, <3>2, <3>4, <3>3 DEF Debt
    <3>7. \A v \in Workers : Clean(v)' => Handed'[job'[v]] <= doubts[job'[v]]
      BY <2>1, <3>4, <3>5, <3>3 DEF Debt
    <3>8. QED
      BY <2>2, <3>6, <3>7 DEF Debt
  <2>4. CASE ~SmtpLose(w) /\ ~SmtpAccept(w)
    <3>1. smtpVars' = smtpVars
      BY <1>10, <2>4 DEF Deliver, Claim, OpenSender, SmtpReject, SmtpReply, Finish, FinishFails,
                        SaveCopy, MirrorCopy, smtpVars
    <3>2. Handed' = Handed
      BY <3>1 DEF smtpVars, Handed
    <3>3. Clean(w)' => Handed[job'[w]] <= doubts[job'[w]]
      BY <1>10, <2>4, Outcomes
         DEF Deliver, Claim, Claimable, OpenSender, SmtpReject, SmtpReply, Finish, FinishFails,
             SaveCopy, MirrorCopy, Answer, Goto, Return, Clean, Debt
    <3>4. \A i \in Ids : status'[i] \in {"none", "queued", "failed"} =>
             status[i] = status'[i] \/ (Clean(w) /\ i = job[w])
      BY <1>10, <2>4
         DEF Deliver, Claim, Claimable, OpenSender, SmtpReject, SmtpReply, Finish, FinishFails,
             SaveCopy, MirrorCopy, rowVars, Results, Clean
    <3>5. QED
      <4>1. \A v \in Workers : Clean(v)' => job'[v] \in Ids
        BY <1>10, JobStep DEF JobOK, Busy, Clean
      <4>2. QED
        BY <2>1, <2>2, <3>2, <3>3, <3>4, <4>1 DEF Debt
  <2>5. QED
    BY <2>3, <2>4
<1>11. QED
  BY Cases, <1>1, <1>2, <1>3, <1>4, <1>5, <1>6, <1>7, <1>8, <1>10, <1>9

-----------------------------------------------------------------------------
(* The life of a row *)

Composing == \E c \in Compositions, o \in Ids \cup {NoId},
               st \in {"queued", "failed", "unknown"}, full \in BOOLEAN : Compose(c, st, full, o)

\* Rows come into being by Compose alone, keep their identity, and never
\* return from the state of a replaced or a removed row.
LEMMA RowLife ==
  ASSUME Ownership, [Next]_vars, ~Composing, NEW i \in Ids
  PROVE  /\ key'[i] = key[i] /\ replaces'[i] = replaces[i]
         /\ (i \in imported') = (i \in imported)
         /\ (status'[i] = "none") = (status[i] = "none")
         /\ status[i] = "gone" => status'[i] = "gone"
         /\ status[i] \in {"superseded", "gone"} => status'[i] \in {"superseded", "gone"}
<1> DEFINE Lives == /\ key' = key /\ replaces' = replaces /\ imported' = imported
                    /\ (status'[i] = "none") = (status[i] = "none")
                    /\ status[i] = "gone" => status'[i] = "gone"
                    /\ status[i] \in {"superseded", "gone"} => status'[i] \in {"superseded", "gone"}
<1> USE DEF Ownership
<1>1. CASE QuietRequest
  BY <1>1, QuietFrame DEF rowVars, askVars
<1>2. ASSUME NEW j \in Ids, Retry(j) \/ Delete(j) \/ SmtpAcceptLate(j) \/ ProviderCopy(j)
      PROVE  Lives
  BY <1>2 DEF Retry, Retryable, Delete, Deletable, Live, SmtpAcceptLate, ProviderCopy,
              rowVars, askVars, TypeOK
<1>3. CASE DeleteAccount \/ Boot \/ Crash
  BY <1>3 DEF DeleteAccount, Live, Boot, Recovered, Crash, rowVars, askVars, TypeOK
<1>4. ASSUME NEW w \in Workers, Deliver(w)
      PROVE  Lives
  BY <1>4 DEF Deliver, Claim, Claimable, OpenSender, SmtpReject, SmtpLose, SmtpAccept, SmtpReply,
              Finish, FinishFails, SaveCopy, MirrorCopy, rowVars, askVars, TypeOK, Results
<1>5. QED
  BY Cases, <1>1, <1>2, <1>3, <1>4 DEF Composing

\* What Compose does to the rows: one that did not exist is created, the one it
\* replaces is superseded, and the key was held by nobody.
LEMMA ComposeRows ==
  ASSUME Ownership, Composing
  PROVE  \E c \in Compositions, o \in Ids \cup {NoId}, n \in Ids :
           /\ Fresh(n) /\ ~Saved(c) /\ Replaceable(o) /\ n # o
           /\ \A i \in Ids \ {n} :
                /\ key'[i] = key[i] /\ replaces'[i] = replaces[i]
                /\ (i \in imported') = (i \in imported)
                /\ status'[i] = IF i = o THEN "superseded" ELSE status[i]
           /\ key'[n] = c /\ replaces'[n] = o
           /\ status'[n] \in {"queued", "failed", "unknown"}
           /\ status'[n] = "queued" => imported' = imported
           /\ cleanup' \subseteq cleanup \cup {c}
           /\ UNCHANGED <<attempts, workerVars, drafts, smtpVars, retries, doubts, sentCopy>>
<1>1. PICK c \in Compositions, o \in Ids \cup {NoId},
           st \in {"queued", "failed", "unknown"}, full \in BOOLEAN : Compose(c, st, full, o)
  BY DEF Composing
<1>2. PICK n \in Ids :
        /\ Fresh(n)
        /\ status' = [j \in Ids |-> IF j = n THEN st
                                    ELSE IF j = o THEN "superseded" ELSE status[j]]
        /\ key' = [key EXCEPT ![n] = c]
        /\ replaces' = [replaces EXCEPT ![n] = o]
        /\ imported' = IF st = "queued" THEN imported ELSE imported \cup {n}
  BY <1>1 DEF Compose
<1>3. n # o
  BY <1>1, <1>2, OutboxAssumption DEF Compose, Fresh, Replaceable
<1>4. /\ \A i \in Ids \ {n} :
          /\ key'[i] = key[i] /\ replaces'[i] = replaces[i]
          /\ (i \in imported') = (i \in imported)
          /\ status'[i] = IF i = o THEN "superseded" ELSE status[i]
      /\ key'[n] = c /\ replaces'[n] = o
      /\ status'[n] \in {"queued", "failed", "unknown"}
      /\ status'[n] = "queued" => imported' = imported
  BY <1>2 DEF Ownership, TypeOK
<1>5. /\ ~Saved(c) /\ Replaceable(o)
      /\ cleanup' \subseteq cleanup \cup {c}
      /\ UNCHANGED <<attempts, workerVars, drafts, smtpVars, retries, doubts, sentCopy>>
  BY <1>1 DEF Compose, folderVars
<1>6. QED
  BY <1>2, <1>3, <1>4, <1>5

\* The SMTP server forgets nothing.
LEMMA AcceptedGrows ==
  ASSUME Ownership, [Next]_vars, NEW i \in Ids, accepted[i] > 0
  PROVE  accepted'[i] > 0
<1>1. ASSUME NEW j \in Ids, accepted' = [accepted EXCEPT ![j] = @ + 1]
      PROVE  accepted'[i] > 0
  BY <1>1 DEF Ownership, TypeOK
<1>2. ASSUME NEW w \in Workers, Deliver(w)
      PROVE  accepted' = accepted \/ \E j \in Ids : accepted' = [accepted EXCEPT ![j] = @ + 1]
  BY <1>2 DEF Deliver, Claim, OpenSender, SmtpReject, SmtpLose, SmtpAccept, SmtpReply, Finish,
              FinishFails, SaveCopy, MirrorCopy, smtpVars, Ownership, JobOK, Busy
<1>3. CASE QuietRequest \/ Composing \/ DeleteAccount \/ Boot \/ Crash
           \/ \E j \in Ids : Retry(j) \/ Delete(j) \/ ProviderCopy(j)
  BY <1>3, QuietFrame DEF Composing, Compose, DeleteAccount, Boot, Crash, Retry, Delete,
                          ProviderCopy, smtpVars
<1>4. ASSUME NEW j \in Ids, SmtpAcceptLate(j)
      PROVE  accepted'[i] > 0
  BY <1>1, <1>4 DEF SmtpAcceptLate
<1>5. QED
  BY Cases, <1>1, <1>2, <1>3, <1>4 DEF Composing

\* Knowledge of an acceptance is gained from the server only.
LEMMA EvidenceStep == Ownership /\ Evidence /\ [Next]_vars => Evidence'
<1> SUFFICES ASSUME Ownership, Evidence, [Next]_vars
             PROVE  Evidence'
  OBVIOUS
<1>1. \A w \in Workers : Knows(w) => job[w] \in Ids
  BY DEF Ownership, JobOK, Busy, Knows
<1>2. ASSUME \A w \in Workers : Knows(w)' => Knows(w) /\ job'[w] = job[w],
             sentCopy' \subseteq sentCopy
      PROVE  Evidence'
  BY <1>1, <1>2, AcceptedGrows DEF Evidence
<1>3. CASE QuietRequest
  BY <1>2, <1>3, QuietFrame DEF workerVars, Knows, Busy
<1>4. CASE Composing \/ DeleteAccount \/ Boot \/ Crash
           \/ \E j \in Ids : Retry(j) \/ Delete(j) \/ SmtpAcceptLate(j)
  <2>1. sentCopy' = sentCopy
    BY <1>4 DEF Composing, Compose, DeleteAccount, Boot, Crash, Retry, Delete, SmtpAcceptLate,
                folderVars
  <2>2. \A w \in Workers : Knows(w)' => Knows(w) /\ job'[w] = job[w]
    BY <1>4 DEF Composing, Compose, DeleteAccount, Boot, Crash, Retry, Delete, SmtpAcceptLate,
                workerVars, Knows
  <2>3. QED
    BY <1>2, <2>1, <2>2
<1>5. ASSUME NEW i \in Ids, ProviderCopy(i)
      PROVE  Evidence'
  BY <1>1, <1>5, AcceptedGrows DEF ProviderCopy, workerVars, Knows, Evidence
<1>6. ASSUME NEW w \in Workers, Deliver(w)
      PROVE  Evidence'
  <2>1. CASE SmtpAccept(w)
    <3>1. PICK k \in Ids : k = job[w] /\ k = job'[w]
      BY <2>1 DEF SmtpAccept, Goto, Ownership, JobOK, Busy
    <3>2. accepted'[k] > 0
      BY <2>1, <3>1 DEF SmtpAccept, Ownership, TypeOK
    <3>3. sentCopy' = sentCopy
      BY <2>1 DEF SmtpAccept, folderVars
    <3>4. \A v \in Workers \ {w} : Knows(v)' => Knows(v) /\ job'[v] = job[v]
      BY <1>6, OthersRest DEF Ownership, Knows
    <3>5. QED
      BY <1>1, <3>1, <3>2, <3>3, <3>4, AcceptedGrows DEF Evidence
  <2>2. CASE ~SmtpAccept(w)
    <3>1. Knows(w)' => Knows(w) /\ job'[w] = job[w]
      BY <1>6, <2>2, Outcomes
         DEF Deliver, Claim, OpenSender, SmtpReject, SmtpLose, SmtpReply, Finish, FinishFails,
             SaveCopy, MirrorCopy, Copied, Answer, Goto, Return, Knows, Ownership, TypeOK
    <3>2. \A v \in Workers : Knows(v)' => Knows(v) /\ job'[v] = job[v]
      BY <1>6, <3>1, OthersRest DEF Ownership, Knows
    <3>3. \A i \in Ids : i \in sentCopy' => i \in sentCopy \/ (Knows(w) /\ i = job[w])
      BY <1>6, <2>2
         DEF Deliver, Claim, OpenSender, SmtpReject, SmtpLose, SmtpReply, Finish, FinishFails,
             SaveCopy, MirrorCopy, Knows, folderVars
    <3>4. QED
      BY <1>1, <3>2, <3>3, AcceptedGrows DEF Evidence
  <2>3. QED
    BY <2>1, <2>2
<1>7. QED
  BY Cases, <1>3, <1>4, <1>5, <1>6 DEF Composing

\* Only a row that exists is claimed, retried, handed over or waited for.
LEMMA UnbornStep == Ownership /\ Unborn /\ [Next]_vars => Unborn'
<1> SUFFICES ASSUME Ownership, Unborn, [Next]_vars, NEW i \in Ids
             PROVE  /\ status'[i] = "none" <=> key'[i] = NoKey
                    /\ status'[i] = "none" =>
                         /\ accepted'[i] = 0 /\ late'[i] = 0 /\ attempts'[i] = 0
                         /\ replaces'[i] = NoId /\ i \notin imported'
  BY DEF Unborn
<1>1. CASE Composing
  <2>1. PICK c \in Compositions, o \in Ids \cup {NoId}, n \in Ids :
           /\ Fresh(n) /\ Replaceable(o)
           /\ \A j \in Ids \ {n} :
                /\ key'[j] = key[j] /\ replaces'[j] = replaces[j]
                /\ (j \in imported') = (j \in imported)
                /\ status'[j] = IF j = o THEN "superseded" ELSE status[j]
           /\ key'[n] = c
           /\ status'[n] \in {"queued", "failed", "unknown"}
           /\ UNCHANGED <<attempts, smtpVars>>
    BY <1>1, ComposeRows
  <2>2. QED
    BY <2>1, OutboxAssumption DEF Unborn, Replaceable, smtpVars
<1>2. CASE ~Composing
  <2>1. ASSUME status[i] = "none"
        PROVE  accepted'[i] = accepted[i] /\ late'[i] = late[i] /\ attempts'[i] = attempts[i]
    <3>1. CASE QuietRequest
      BY <3>1, QuietFrame DEF rowVars, smtpVars
    <3>2. CASE DeleteAccount \/ Boot \/ Crash
      BY <2>1, <3>2 DEF DeleteAccount, Boot, Crash, rowVars, smtpVars, Ownership, HeldStatus,
                        InFlight, TypeOK
    <3>3. ASSUME NEW j \in Ids, Retry(j) \/ Delete(j) \/ SmtpAcceptLate(j) \/ ProviderCopy(j)
          PROVE  accepted'[i] = accepted[i] /\ late'[i] = late[i] /\ attempts'[i] = attempts[i]
      BY <2>1, <3>3 DEF Retry, Delete, SmtpAcceptLate, ProviderCopy, rowVars, smtpVars, Unborn,
                        Ownership, TypeOK
    <3>4. ASSUME NEW w \in Workers, Deliver(w)
          PROVE  accepted'[i] = accepted[i] /\ late'[i] = late[i] /\ attempts'[i] = attempts[i]
      BY <2>1, <3>4
         DEF Deliver, Claim, Claimable, OpenSender, SmtpReject, SmtpLose, SmtpAccept, SmtpReply,
             Finish, FinishFails, SaveCopy, MirrorCopy, rowVars, smtpVars, Ownership, TypeOK,
             HeldStatus, InFlight
    <3>5. QED
      BY Cases, <1>2, <3>1, <3>2, <3>3, <3>4 DEF Composing
  <2>2. QED
    BY <1>2, <2>1, RowLife DEF Unborn
<1>3. QED
  BY <1>1, <1>2

\* A row becomes claimable only when it is created to be sent, or retried.
LEMMA RequestedStep == Ownership /\ Unborn /\ Requested /\ [Next]_vars => Requested'
<1> SUFFICES ASSUME Ownership, Unborn, Requested, [Next]_vars
             PROVE  Requested'
  OBVIOUS
<1>0. \A i \in Ids : attempts[i] \in Nat /\ retries[i] \in Nat
  BY DEF Ownership, TypeOK
<1>1. ASSUME UNCHANGED <<attempts, retries, imported>>,
             \A i \in Ids : status'[i] = "queued" => status[i] = "queued"
      PROVE  Requested'
  BY <1>0, <1>1 DEF Requested
<1>2. CASE Composing
  <2>1. PICK c \in Compositions, o \in Ids \cup {NoId}, n \in Ids :
           /\ Fresh(n)
           /\ \A i \in Ids \ {n} :
                /\ (i \in imported') = (i \in imported)
                /\ status'[i] = IF i = o THEN "superseded" ELSE status[i]
           /\ status'[n] = "queued" => imported' = imported
           /\ UNCHANGED <<attempts, retries>>
    BY <1>2, ComposeRows
  <2>2. attempts[n] = 0 /\ n \notin imported
    BY <2>1 DEF Unborn, Fresh
  <2>3. ASSUME NEW i \in Ids
        PROVE  attempts[i] + (IF status'[i] = "queued" THEN 1 ELSE 0)
                 <= retries[i] + (IF i \in imported' THEN 0 ELSE 1)
    <3>1. CASE i = n
      BY <1>0, <2>1, <2>2, <3>1
    <3>2. CASE i # n
      BY <1>0, <2>1, <3>2 DEF Requested
    <3>3. QED
      BY <3>1, <3>2
  <2>4. QED
    BY <2>1, <2>3 DEF Requested
<1>3. ASSUME NEW i \in Ids, Retry(i)
      PROVE  Requested'
  <2>1. /\ status[i] # "queued" /\ retries'[i] = retries[i] + 1
        /\ \A j \in Ids \ {i} : status'[j] = status[j] /\ retries'[j] = retries[j]
        /\ UNCHANGED <<attempts, imported>>
    BY <1>3 DEF Retry, Retryable, Ownership, TypeOK
  <2>2. QED
    BY <1>0, <2>1 DEF Requested
<1>4. ASSUME NEW w \in Workers, Claim(w)
      PROVE  Requested'
  <2>1. PICK i \in Ids : /\ status[i] = "queued" /\ status'[i] = "sending"
                         /\ attempts'[i] = attempts[i] + 1
                         /\ \A j \in Ids \ {i} : status'[j] = status[j] /\ attempts'[j] = attempts[j]
                         /\ UNCHANGED <<retries, imported>>
    BY <1>4 DEF Claim, Claimable, askVars, Ownership, TypeOK
  <2>2. QED
    BY <1>0, <2>1 DEF Requested
<1>5. ASSUME NEW w \in Workers, Deliver(w), ~Claim(w)
      PROVE  Requested'
  BY <1>1, <1>5
     DEF Deliver, OpenSender, SmtpReject, SmtpLose, SmtpAccept, SmtpReply, Finish, FinishFails,
         SaveCopy, MirrorCopy, rowVars, askVars, Ownership, TypeOK, Results
<1>6. CASE QuietRequest
  BY <1>1, <1>6, QuietFrame DEF rowVars, askVars
<1>7. CASE DeleteAccount \/ Boot \/ Crash
           \/ \E j \in Ids : Delete(j) \/ SmtpAcceptLate(j) \/ ProviderCopy(j)
  BY <1>1, <1>7 DEF DeleteAccount, Boot, Recovered, Crash, Delete, SmtpAcceptLate, ProviderCopy,
                    rowVars, askVars, Ownership, TypeOK
<1>8. QED
  BY Cases, <1>2, <1>3, <1>4, <1>5, <1>6, <1>7 DEF Composing

\* A composition that is in the outbox, live, is not inserted again.
LEMMA KeysOnceStep == Ownership /\ Unborn /\ KeysOnce /\ [Next]_vars => KeysOnce'
<1> SUFFICES ASSUME Ownership, Unborn, KeysOnce, [Next]_vars
             PROVE  KeysOnce'
  OBVIOUS
<1>1. CASE Composing
  <2>1. PICK c \in Compositions, o \in Ids \cup {NoId}, n \in Ids :
           /\ Fresh(n) /\ ~Saved(c) /\ Replaceable(o) /\ n # o
           /\ \A i \in Ids \ {n} :
                /\ key'[i] = key[i]
                /\ status'[i] = IF i = o THEN "superseded" ELSE status[i]
           /\ key'[n] = c /\ status'[n] \in {"queued", "failed", "unknown"}
    BY <1>1, ComposeRows
  <2>2. \A i \in Ids : key[i] = c => status[i] = "gone"
    BY <2>1, OutboxAssumption DEF Saved, Holds, Live, Unborn
  <2>3. \A i \in Ids : i < n => status[i] # "none"
    BY <2>1, OutboxAssumption DEF Fresh
  <2>4. \A i \in Ids : n < i => status[i] = "none"
    BY <2>1, OutboxAssumption DEF Fresh, KeysOnce
  <2>5. ASSUME NEW i \in Ids, NEW j \in Ids, i < j, status'[j] # "none"
        PROVE  status'[i] # "none" /\ (key'[i] = key'[j] => status'[i] = "gone")
    <3>1. CASE j = n
      BY <2>1, <2>2, <2>3, <2>5, <3>1, OutboxAssumption DEF Replaceable
    <3>2. CASE j # n
      <4>1. status[j] # "none" /\ i # n
        BY <2>1, <2>4, <2>5, <3>2, OutboxAssumption DEF Replaceable
      <4>2. QED
        BY <2>1, <2>5, <3>2, <4>1, OutboxAssumption DEF KeysOnce, Replaceable
    <3>3. QED
      BY <3>1, <3>2
  <2>6. QED
    BY <2>5 DEF KeysOnce
<1>2. CASE ~Composing
  BY <1>2, RowLife DEF KeysOnce
<1>3. QED
  BY <1>1, <1>2

\* A draft becomes a candidate for removal only once its text is committed.
LEMMA CommittedStep == Ownership /\ Unborn /\ Committed /\ [Next]_vars => Committed'
<1> SUFFICES ASSUME Ownership, Unborn, Committed, [Next]_vars
             PROVE  Committed'
  OBVIOUS
<1>1. CASE Composing
  <2>1. PICK c \in Compositions, n \in Ids :
           /\ Fresh(n)
           /\ \A i \in Ids \ {n} : key'[i] = key[i]
           /\ key'[n] = c
           /\ cleanup' \subseteq cleanup \cup {c} /\ drafts' = drafts
    BY <1>1, ComposeRows
  <2>2. key[n] = NoKey
    BY <2>1 DEF Fresh, Unborn
  <2>3. QED
    BY <2>1, <2>2, OutboxAssumption DEF Committed
<1>2. CASE ~Composing
  <2>1. \A i \in Ids : key'[i] = key[i]
    BY <1>2, RowLife
  <2>2. /\ drafts' \subseteq drafts /\ drafts \ drafts' \subseteq cleanup
        /\ cleanup' \subseteq cleanup \cup {c \in Compositions : Saved(c)}
    <3>1. CASE QuietRequest
      BY <3>1, QuietFrame
    <3>2. CASE DeleteAccount \/ Boot \/ Crash \/ (\E w \in Workers : Deliver(w))
               \/ \E j \in Ids : Retry(j) \/ Delete(j) \/ SmtpAcceptLate(j) \/ ProviderCopy(j)
      BY <3>2 DEF DeleteAccount, Boot, Crash, Deliver, Claim, OpenSender, SmtpReject, SmtpLose,
                  SmtpAccept, SmtpReply, Finish, FinishFails, SaveCopy, MirrorCopy, Retry, Delete,
                  SmtpAcceptLate, ProviderCopy, composeVars
    <3>3. QED
      BY Cases, <1>2, <3>1, <3>2 DEF Composing
  <2>3. QED
    BY <2>1, <2>2 DEF Committed, Saved, Holds
<1>3. QED
  BY <1>1, <1>2

\* A superseded row gets no worker and no second replacement.
LEMMA ReplacedStep == Ownership /\ Unborn /\ ReplacedStaysRetired /\ [Next]_vars => ReplacedStaysRetired'
<1> SUFFICES ASSUME Ownership, Unborn, ReplacedStaysRetired, [Next]_vars
             PROVE  ReplacedStaysRetired'
  OBVIOUS
<1>0. \A i \in Ids : replaces[i] # NoId => replaces[i] \in Ids
  BY DEF Ownership, TypeOK
<1>1. CASE Composing
  <2>1. PICK o \in Ids \cup {NoId}, n \in Ids :
           /\ Fresh(n) /\ Replaceable(o) /\ n # o
           /\ \A i \in Ids \ {n} :
                /\ replaces'[i] = replaces[i]
                /\ status'[i] = IF i = o THEN "superseded" ELSE status[i]
           /\ replaces'[n] = o
           /\ UNCHANGED workerVars
    BY <1>1, ComposeRows
  <2>2. replaces[n] = NoId
    BY <2>1 DEF Fresh, Unborn
  <2>3. o # NoId => /\ status[o] \in {"failed", "unknown"} /\ o \in Ids
                    /\ \A w \in Workers : InFlight(w) => job[w] # o
                    /\ \A j \in Ids : replaces[j] # o
    BY <2>1 DEF Replaceable, Ownership, HeldStatus, ReplacedStaysRetired
  <2>4. \A i \in Ids : replaces[i] # NoId => replaces[i] # n
    BY <2>1 DEF Fresh, ReplacedStaysRetired
  <2>5. ASSUME NEW i \in Ids, replaces'[i] # NoId
        PROVE  /\ status'[replaces'[i]] \in {"superseded", "gone"}
               /\ \A w \in Workers : InFlight(w)' => job'[w] # replaces'[i]
               /\ \A j \in Ids : replaces'[j] = replaces'[i] => j = i
    <3>1. CASE i = n
      BY <2>1, <2>3, <2>5, <3>1 DEF workerVars, InFlight
    <3>2. CASE i # n
      BY <1>0, <2>1, <2>3, <2>4, <2>5, <3>2 DEF workerVars, InFlight, ReplacedStaysRetired
    <3>3. QED
      BY <3>1, <3>2
  <2>6. QED
    BY <2>5 DEF ReplacedStaysRetired
<1>2. CASE ~Composing
  <2>1. \A i \in Ids : replaces'[i] = replaces[i]
    BY <1>2, RowLife
  <2>2. \A i \in Ids : replaces[i] # NoId => status'[replaces[i]] \in {"superseded", "gone"}
    BY <1>0, <1>2, RowLife DEF ReplacedStaysRetired
  <2>3. ASSUME NEW i \in Ids, replaces[i] # NoId, NEW w \in Workers, InFlight(w)'
        PROVE  job'[w] # replaces[i]
    <3>1. CASE InFlight(w) /\ job'[w] = job[w]
      BY <2>3, <3>1 DEF ReplacedStaysRetired
    <3>2. CASE Claim(w)
      BY <2>3, <3>2, <1>0 DEF Claim, Claimable, ReplacedStaysRetired, Ownership, TypeOK
    <3>3. CASE ~Claim(w)
      <4>1. ASSUME NEW v \in Workers, Deliver(v)
            PROVE  InFlight(w) /\ job'[w] = job[w]
        <5>1. CASE v = w
          BY <2>3, <3>3, <4>1, <5>1
             DEF Deliver, OpenSender, SmtpReject, SmtpLose, SmtpAccept, SmtpReply, Finish,
                 FinishFails, SaveCopy, MirrorCopy, Answer, Goto, Return, InFlight, Ownership, TypeOK
        <5>2. CASE v # w
          BY <2>3, <4>1, <5>2, OthersRest DEF InFlight, Ownership
        <5>3. QED
          BY <5>1, <5>2
      <4>2. CASE Requests \/ Stop \/ Provider \/ UNCHANGED vars
        BY <2>3, <3>1, <4>2, WorkersRest DEF InFlight
      <4>3. CASE Boot \/ Stopped \/ Crash
        BY <2>3, <4>3 DEF Boot, Stopped, Crash, InFlight
      <4>4. QED
        BY <2>3, <3>1, <4>1, <4>2, <4>3 DEF Next, Process
    <3>4. QED
      BY <3>2, <3>3, <3>1
  <2>4. QED
    BY <2>1, <2>2, <2>3 DEF ReplacedStaysRetired
<1>3. QED
  BY <1>1, <1>2

-----------------------------------------------------------------------------
(* The theorems *)

\* The ledger holds throughout.
LEMMA LedgerAlways == Spec => []Ledger
<1>1. Init => Ownership
  BY OutboxAssumption DEF Init, Ownership, TypeOK, Statuses, Results, JobOK, DownStopped,
     HeldStatus, ExclusiveSubmission, Accounted, Busy, InFlight
<1>2. Init => Debt /\ Evidence /\ Unborn /\ Requested /\ KeysOnce /\ Committed
                /\ ReplacedStaysRetired
  <2> SUFFICES ASSUME Init
               PROVE  Debt /\ Evidence /\ Unborn /\ Requested /\ KeysOnce /\ Committed
                        /\ ReplacedStaysRetired
    OBVIOUS
  <2>1. \A i \in Ids : Handed[i] = 0 /\ doubts[i] = 0
    BY HandedIs DEF Init
  <2>2. \A w \in Workers : ~Clean(w) /\ ~Knows(w)
    BY DEF Init, Clean, Knows
  <2>3. Debt /\ Evidence
    BY <2>1, <2>2 DEF Init, Debt, Evidence
  <2>4. Unborn /\ Requested /\ KeysOnce /\ Committed /\ ReplacedStaysRetired
    BY DEF Init, Unborn, Requested, KeysOnce, Committed, ReplacedStaysRetired
  <2>5. QED
    BY <2>3, <2>4
<1>3. Ledger /\ [Next]_vars => Ledger'
  <2>1. Ownership /\ [Next]_vars => Ownership'
    BY TypeStep, JobStep, DownStep, HeldStep, ExclusiveStep, AccountedStep DEF Ownership
  <2>2. QED
    BY <2>1, DebtStep, EvidenceStep, UnbornStep, RequestedStep, KeysOnceStep, CommittedStep,
       ReplacedStep DEF Ledger
<1>4. QED
  BY <1>1, <1>2, <1>3, PTL DEF Spec, Ledger

\* AcceptedOncePerAsk: whatever the SMTP server does and wherever the process
\* dies, deliverOutgoing and RecoverOutgoing together submit a message that may
\* have been accepted again only after an explicit retry of a doubtful outcome.
THEOREM DeliveredOnce == Spec => []AcceptedOncePerAsk
<1>1. Ledger => AcceptedOncePerAsk
  <2> SUFFICES ASSUME Ledger, NEW i \in Ids
               PROVE  accepted[i] <= 1 + doubts[i]
    BY DEF AcceptedOncePerAsk
  <2>1. accepted[i] \in Nat /\ late[i] \in Nat /\ doubts[i] \in Nat
    BY DEF Ledger, Ownership, TypeOK
  <2>2. accepted[i] + late[i] <= doubts[i] + 1
    BY HandedIs DEF Ledger, Debt
  <2>3. QED
    BY <2>1, <2>2
<1>2. QED
  BY <1>1, LedgerAlways, PTL

\* FailedWasNotDelivered: a row that deliverOutgoing or an import shows as failed,
\* or that waits in the queue, has no delivery its retries do not account for.
THEOREM FailureIsReal == Spec => []FailedWasNotDelivered
<1>1. Ledger => FailedWasNotDelivered
  <2> SUFFICES ASSUME Ledger, NEW i \in Ids, status[i] \in {"failed", "queued"}
               PROVE  accepted[i] <= doubts[i]
    BY DEF FailedWasNotDelivered
  <2>1. accepted[i] \in Nat /\ late[i] \in Nat /\ doubts[i] \in Nat
    BY DEF Ledger, Ownership, TypeOK
  <2>2. accepted[i] + late[i] <= doubts[i]
    BY HandedIs DEF Ledger, Debt
  <2>3. QED
    BY <2>1, <2>2
<1>2. QED
  BY <1>1, LedgerAlways, PTL

\* SubmissionsAreRequested: the workers of StartOutbox start no delivery that
\* neither a compose request nor a retry asked for.
THEOREM NothingUnasked == Spec => []SubmissionsAreRequested
<1>1. Ledger => SubmissionsAreRequested
  <2> SUFFICES ASSUME Ledger, NEW i \in Ids
               PROVE  attempts[i] <= retries[i] + (IF i \in imported THEN 0 ELSE 1)
    BY DEF SubmissionsAreRequested
  <2>1. attempts[i] \in Nat /\ retries[i] \in Nat
    BY DEF Ledger, Ownership, TypeOK
  <2>2. QED
    BY <2>1 DEF Ledger, Requested
<1>2. QED
  BY <1>1, LedgerAlways, PTL

\* RepeatedUploadSendsOnce: the unique client key of outgoing_messages keeps two
\* uploads of one composition from both being delivered.
THEOREM UploadsAreIdempotent == Spec => []RepeatedUploadSendsOnce
<1>1. Ledger => RepeatedUploadSendsOnce
  BY DEF Ledger, KeysOnce, Unborn, RepeatedUploadSendsOnce
<1>2. QED
  BY <1>1, LedgerAlways, PTL

\* ContentKept: queueOutgoingCompose never drops the draft of a composition that
\* CreateOutgoing has not stored.
THEOREM DraftsAreSafe == Spec => []ContentKept
<1>1. Ledger => ContentKept
  BY DEF Ledger, Committed, ContentKept
<1>2. QED
  BY <1>1, LedgerAlways, PTL

\* ReplacedStaysRetired: a row superseded by CreateOutgoing is delivered, retried
\* and replaced no more.
THEOREM ReplacementIsFinal == Spec => []ReplacedStaysRetired
<1>1. Ledger => ReplacedStaysRetired
  BY DEF Ledger
<1>2. QED
  BY <1>1, LedgerAlways, PTL

\* CopyOnlyOfDelivered: saveOutgoingSent files nothing the SMTP server refused.
THEOREM CopiesAreTrue == Spec => []CopyOnlyOfDelivered
<1>1. Ledger => CopyOnlyOfDelivered
  BY DEF Ledger, Ownership, TypeOK, Evidence, CopyOnlyOfDelivered
<1>2. QED
  BY <1>1, LedgerAlways, PTL

\* DeliveryIsHonest: for every number of rows, workers and restarts, what the rows, the
\* Sent copies and the counters of deliverOutgoing tell of a delivery is true.
THEOREM HonestDelivery == Spec => []DeliveryIsHonest
<1>1. FailedWasNotDelivered /\ SubmissionsAreRequested /\ CopyOnlyOfDelivered => DeliveryIsHonest
  BY DEF DeliveryIsHonest
<1>2. QED
  BY <1>1, FailureIsReal, NothingUnasked, CopiesAreTrue, PTL

\* CompositionsAreKept: CreateOutgoing neither loses a text nor brings a replaced one back.
THEOREM CompositionsSurvive == Spec => []CompositionsAreKept
<1>1. ContentKept /\ RepeatedUploadSendsOnce /\ ReplacedStaysRetired => CompositionsAreKept
  BY DEF CompositionsAreKept
<1>2. QED
  BY <1>1, DraftsAreSafe, UploadsAreIdempotent, ReplacementIsFinal, PTL

-----------------------------------------------------------------------------
(* The outbox keeps the promise of SendPromise *)

\* What a status tells the user, now and after a step.
LEMMA ToldIs ==
  ASSUME NEW i \in Ids
  PROVE  /\ status[i] = "queued" => Told(i) = "pending"
         /\ status[i] = "sending" => Told(i) = "inflight"
         /\ status[i] \in {"superseded", "gone"} => Told(i) = "withdrawn"
         /\ status[i] \in {"none", "sent", "failed", "unknown"} => Told(i) = status[i]
BY DEF Told

LEMMA ToldNext ==
  ASSUME NEW i \in Ids
  PROVE  /\ status'[i] = "queued" => Told(i)' = "pending"
         /\ status'[i] = "sending" => Told(i)' = "inflight"
         /\ status'[i] \in {"superseded", "gone"} => Told(i)' = "withdrawn"
         /\ status'[i] \in {"none", "sent", "failed", "unknown"} => Told(i)' = status'[i]
         /\ status'[i] = status[i] => Told(i)' = Told(i)
BY DEF Told

\* A claim takes up the request.
LEMMA ClaimTakes ==
  ASSUME Ledger, NEW w \in Workers, Claim(w)
  PROVE  \E i \in Ids : Promise!Take(i)
<1>1. PICK i \in Ids : /\ status[i] = "queued"
                       /\ status' = [status EXCEPT ![i] = "sending"]
                       /\ UNCHANGED <<accepted, doubts>>
  BY DEF Claim, Claimable, smtpVars, askVars
<1>2. Told(i) = "pending" /\ Told(i)' = "inflight"
  BY <1>1, ToldIs, ToldNext DEF Ledger, Ownership, TypeOK
<1>3. \A j \in Ids \ {i} : Told(j)' = Told(j)
  BY <1>1, ToldNext DEF Ledger, Ownership, TypeOK
<1>4. QED
  BY <1>1, <1>2, <1>3 DEF Promise!Take

\* The credit of the current request.
LEMMA CreditIs ==
  ASSUME NEW i \in Ids
  PROVE  /\ status[i] \in {"sending", "sent", "unknown", "superseded", "gone"} => Promise!Credit(i) = 1
         /\ status[i] \in {"none", "queued", "failed"} => Promise!Credit(i) = 0
BY ToldIs DEF Promise!Credit

\* A row with credit left in the ledger has it in the promise.
LEMMA DeliverAllowed ==
  ASSUME Ledger, NEW i \in Ids, UNCHANGED <<status, doubts>>,
         accepted' = [accepted EXCEPT ![i] = @ + 1],
         \/ late[i] > 0
         \/ Handed[i] <= doubts[i] /\ status[i] \in {"sending", "gone"}
  PROVE  Promise!Deliver(i)
<1>1. accepted[i] \in Nat /\ late[i] \in Nat /\ doubts[i] \in Nat
  BY DEF Ledger, Ownership, TypeOK
<1>2. /\ accepted[i] + late[i] <= doubts[i] + 1
      /\ status[i] \in {"none", "queued", "failed"} => accepted[i] + late[i] <= doubts[i]
  BY HandedIs DEF Ledger, Debt
<1>3. Handed[i] = accepted[i] + late[i]
  BY HandedIs
<1>4. accepted[i] < doubts[i] + Promise!Credit(i)
  <2>1. CASE status[i] \in {"none", "queued", "failed"}
    BY <1>1, <1>2, <2>1, CreditIs
  <2>2. CASE status[i] \in {"sending", "sent", "unknown", "superseded", "gone"}
    BY <1>1, <1>2, <1>3, <2>2, CreditIs
  <2>3. QED
    BY <2>1, <2>2 DEF Ledger, Ownership, TypeOK, Statuses, Results
<1>5. \A j \in Ids : Told(j)' = Told(j)
  BY ToldNext
<1>6. QED
  BY <1>4, <1>5 DEF Promise!Deliver

\* What the SMTP server accepts, in time or late, the promise allows.
LEMMA AcceptDelivers ==
  ASSUME Ledger, (\E w \in Workers : SmtpAccept(w)) \/ \E i \in Ids : SmtpAcceptLate(i)
  PROVE  \E i \in Ids : Promise!Deliver(i)
<1>1. ASSUME NEW w \in Workers, SmtpAccept(w)
      PROVE  \E i \in Ids : Promise!Deliver(i)
  <2>1. PICK k \in Ids : k = job[w]
    BY <1>1 DEF SmtpAccept, Ledger, Ownership, JobOK, Busy
  <2>2. Handed[k] <= doubts[k] /\ status[k] \in {"sending", "gone"}
    BY <1>1, <2>1 DEF SmtpAccept, Ledger, Debt, Clean, Ownership, HeldStatus, InFlight
  <2>3. UNCHANGED <<status, doubts>> /\ accepted' = [accepted EXCEPT ![k] = @ + 1]
    BY <1>1, <2>1 DEF SmtpAccept, rowVars, askVars
  <2>4. QED
    BY <2>2, <2>3, DeliverAllowed
<1>2. ASSUME NEW i \in Ids, SmtpAcceptLate(i)
      PROVE  Promise!Deliver(i)
  <2>1. /\ UNCHANGED <<status, doubts>> /\ late[i] > 0
        /\ accepted' = [accepted EXCEPT ![i] = @ + 1]
    BY <1>2 DEF SmtpAcceptLate, rowVars, askVars
  <2>2. QED
    BY <2>1, DeliverAllowed
<1>3. QED
  BY <1>1, <1>2

\* The recorded result is one the promise allows to tell.
LEMMA FinishTells ==
  ASSUME Ledger, NEW w \in Workers, Finish(w)
  PROVE  Promise!Next \/ UNCHANGED Promise!vars
<1>1. PICK k \in Ids : k = job[w]
  BY DEF Finish, Ledger, Ownership, JobOK, Busy
<1>2. UNCHANGED <<accepted, doubts>>
  BY DEF Finish, smtpVars, askVars
<1>3. CASE status[k] # "sending"
  <2>1. \A j \in Ids : Told(j)' = Told(j)
    BY <1>1, <1>3, ToldNext DEF Finish
  <2>2. QED
    BY <1>2, <2>1 DEF Promise!vars
<1>4. CASE status[k] = "sending"
  <2>1. /\ status' = [status EXCEPT ![k] = result[w]]
        /\ result[w] \in Results
    BY <1>1, <1>4 DEF Finish, Ledger, Ownership, TypeOK
  <2>2. Told(k) = "inflight" /\ Told(k)' = result[w]
    BY <1>4, <2>1, ToldIs, ToldNext DEF Results, Ledger, Ownership, TypeOK
  <2>3. \A j \in Ids \ {k} : Told(j)' = Told(j)
    BY <2>1, ToldNext DEF Ledger, Ownership, TypeOK
  <2>4. CASE result[w] = "sent"
    <3>1. accepted[k] > 0
      BY <1>1, <2>4 DEF Finish, Ledger, Evidence, Knows
    <3>2. Promise!TellSent(k)
      BY <1>2, <2>2, <2>3, <2>4, <3>1 DEF Promise!TellSent
    <3>3. QED
      BY <3>2 DEF Promise!Next
  <2>5. CASE result[w] = "failed"
    <3>1. accepted[k] <= doubts[k]
      <4>1. accepted[k] \in Nat /\ late[k] \in Nat /\ doubts[k] \in Nat
        BY DEF Ledger, Ownership, TypeOK
      <4>2. Handed[k] <= doubts[k]
        BY <1>1, <2>5 DEF Finish, Ledger, Debt, Clean
      <4>3. Handed[k] = accepted[k] + late[k]
        BY HandedIs
      <4>4. QED
        BY <4>1, <4>2, <4>3
    <3>2. Promise!TellFailed(k)
      BY <1>2, <2>2, <2>3, <2>5, <3>1 DEF Promise!TellFailed
    <3>3. QED
      BY <3>2 DEF Promise!Next
  <2>6. CASE result[w] = "unknown"
    <3>1. Promise!TellUnknown({k})
      BY <1>2, <2>2, <2>3, <2>6 DEF Promise!TellUnknown
    <3>2. QED
      BY <3>1 DEF Promise!Next
  <2>7. QED
    BY <2>1, <2>4, <2>5, <2>6 DEF Results
<1>5. QED
  BY <1>3, <1>4

\* The recovery of a restart casts doubt on everything in flight.
LEMMA BootDoubts ==
  ASSUME Ledger, Boot
  PROVE  \E lost \in SUBSET Ids : Promise!TellUnknown(lost)
<1> DEFINE lost == {i \in Ids : status[i] = "sending"}
<1>1. \A i \in Ids : status'[i] = IF i \in lost THEN "unknown" ELSE status[i]
  BY DEF Boot, Recovered
<1>2. \A i \in lost : Told(i) = "inflight" /\ Told(i)' = "unknown"
  BY <1>1, ToldIs, ToldNext
<1>3. \A i \in Ids \ lost : Told(i)' = Told(i)
  BY <1>1, ToldNext
<1>4. UNCHANGED <<accepted, doubts>>
  BY DEF Boot, smtpVars, askVars
<1>5. Promise!TellUnknown(lost)
  BY <1>2, <1>3, <1>4 DEF Promise!TellUnknown
<1>6. QED
  BY <1>5

\* Compose submits, and withdraws what it replaces.
LEMMA ComposeSubmits ==
  ASSUME Ledger, Composing
  PROVE  \E i \in Ids, s \in {"pending", "failed", "unknown"} : Promise!Submit(i, s)
<1>1. PICK o \in Ids \cup {NoId}, n \in Ids :
         /\ Fresh(n) /\ Replaceable(o) /\ n # o
         /\ \A i \in Ids \ {n} : status'[i] = IF i = o THEN "superseded" ELSE status[i]
         /\ status'[n] \in {"queued", "failed", "unknown"}
         /\ UNCHANGED <<smtpVars, doubts>>
  BY ComposeRows DEF Ledger
<1> DEFINE old == {i \in Ids : i = o}
<1>2. Told(n) = "none" /\ Told(n)' \in {"pending", "failed", "unknown"}
  BY <1>1, ToldIs, ToldNext DEF Fresh
<1>3. \A i \in old : Told(i) \in {"failed", "unknown"} /\ Told(i)' = "withdrawn"
  BY <1>1, ToldIs, ToldNext, OutboxAssumption DEF Replaceable
<1>4. \A i \in Ids \ {n} : i \notin old => Told(i)' = Told(i)
  BY <1>1, ToldNext
<1>5. n \notin old /\ UNCHANGED <<accepted, doubts>>
  BY <1>1 DEF smtpVars
<1>6. Promise!Submit(n, Told(n)')
  <2>1. old \in SUBSET {i \in Ids : Told(i) \in {"failed", "unknown"}}
    BY <1>3
  <2>2. [i \in Ids |-> Told(i)]'
          = [i \in Ids |-> IF i = n THEN Told(n)' ELSE IF i \in old THEN "withdrawn" ELSE Told(i)]
    BY <1>3, <1>4, <1>5
  <2> HIDE DEF old
  <2>3. QED
    BY <1>2, <1>5, <2>1, <2>2 DEF Promise!Submit
<1>7. QED
  BY <1>2, <1>6

\* A retry asks again, in doubt if the outcome was.
LEMMA RetryAsks ==
  ASSUME Ledger, NEW i \in Ids, Retry(i)
  PROVE  Promise!AskAgain(i)
<1>1. /\ status[i] \in {"failed", "unknown"}
      /\ status' = [status EXCEPT ![i] = "queued"]
      /\ doubts' = IF status[i] = "unknown" THEN [doubts EXCEPT ![i] = @ + 1] ELSE doubts
      /\ accepted' = accepted
  BY DEF Retry, Retryable, smtpVars
<1>2. Told(i) = status[i] /\ Told(i)' = "pending"
  BY <1>1, ToldIs, ToldNext DEF Ledger, Ownership, TypeOK
<1>3. \A j \in Ids \ {i} : Told(j)' = Told(j)
  BY <1>1, ToldNext DEF Ledger, Ownership, TypeOK
<1>4. QED
  BY <1>1, <1>2, <1>3 DEF Promise!AskAgain

\* Rows go one by one, or with their account.
LEMMA RemovalWithdraws ==
  ASSUME Ledger, DeleteAccount \/ \E i \in Ids : Delete(i)
  PROVE  \E ms \in SUBSET Ids : Promise!Withdraw(ms)
<1>1. PICK ms \in SUBSET Ids :
         /\ \A i \in ms : status[i] # "none" /\ status'[i] = "gone"
         /\ \A i \in Ids \ ms : status'[i] = status[i]
  <2>1. CASE DeleteAccount
    <3>1. /\ \A i \in {j \in Ids : Live(j)} : status[i] # "none" /\ status'[i] = "gone"
          /\ \A i \in Ids \ {j \in Ids : Live(j)} : status'[i] = status[i]
      BY <2>1 DEF DeleteAccount, Live
    <3>2. QED
      BY <3>1
  <2>2. ASSUME NEW i \in Ids, Delete(i)
        PROVE  /\ status[i] # "none" /\ status'[i] = "gone"
               /\ \A j \in Ids \ {i} : status'[j] = status[j]
    BY <2>2 DEF Delete, Deletable, Live, Ledger, Ownership, TypeOK
  <2>3. QED
    <3>1. ASSUME NEW i \in Ids, Delete(i)
          PROVE  \E ms \in SUBSET Ids :
                   /\ \A j \in ms : status[j] # "none" /\ status'[j] = "gone"
                   /\ \A j \in Ids \ ms : status'[j] = status[j]
      <4>1. WITNESS {i} \in SUBSET Ids
      <4>2. QED
        BY <2>2, <3>1
    <3>2. QED
      BY <2>1, <3>1
<1>2. UNCHANGED <<accepted, doubts>>
  BY DEF Delete, DeleteAccount, smtpVars, askVars
<1>3. \A i \in ms : Told(i)' = "withdrawn"
  BY <1>1, ToldNext
<1>4. \A i \in Ids \ ms : Told(i)' = Told(i)
  BY <1>1, ToldNext
<1>5. \A i \in ms : Told(i) # "none"
  BY <1>1, ToldIs DEF Ledger, Ownership, TypeOK, Statuses, Results
<1>6. Promise!Withdraw(ms)
  BY <1>2, <1>3, <1>4, <1>5 DEF Promise!Withdraw
<1>7. QED
  BY <1>6

\* Everything else is beyond the user's sight.
LEMMA OthersStutter ==
  ASSUME \/ QuietRequest \/ Crash \/ \E i \in Ids : ProviderCopy(i)
         \/ \E w \in Workers : \/ OpenSender(w) \/ SmtpReject(w) \/ SmtpLose(w) \/ SmtpReply(w)
                               \/ FinishFails(w) \/ SaveCopy(w) \/ MirrorCopy(w)
  PROVE  UNCHANGED Promise!vars
<1>1. UNCHANGED <<status, accepted, doubts>>
  BY QuietFrame DEF Crash, ProviderCopy, OpenSender, SmtpReject, SmtpLose, SmtpReply, FinishFails,
     SaveCopy, MirrorCopy, rowVars, smtpVars, askVars
<1>2. \A i \in Ids : Told(i)' = Told(i)
  BY <1>1, ToldNext
<1>3. QED
  BY <1>1, <1>2 DEF Promise!vars

\* KeepsPromise: every behaviour of the outbox, with its crashes, lost replies and
\* late acceptances, is one SendPromise allows.
THEOREM PromiseKept == Spec => KeepsPromise
<1>1. Init => Promise!Init
  <2> SUFFICES ASSUME Init
               PROVE  Promise!Init
    OBVIOUS
  <2>1. \A i \in Ids : Told(i) = "none"
    BY ToldIs DEF Init
  <2>2. QED
    BY <2>1 DEF Init, Promise!Init
<1>2. Ledger /\ [Next]_vars => [Promise!Next]_(Promise!vars)
  <2> SUFFICES ASSUME Ledger, [Next]_vars
               PROVE  Promise!Next \/ UNCHANGED Promise!vars
    OBVIOUS
  <2>1. CASE Composing
    BY <2>1, ComposeSubmits DEF Promise!Next
  <2>2. ASSUME NEW i \in Ids, Retry(i)
        PROVE  Promise!Next
    BY <2>2, RetryAsks DEF Promise!Next
  <2>3. CASE DeleteAccount \/ \E i \in Ids : Delete(i)
    BY <2>3, RemovalWithdraws DEF Promise!Next
  <2>4. CASE Boot
    BY <2>4, BootDoubts DEF Promise!Next
  <2>5. CASE (\E w \in Workers : SmtpAccept(w)) \/ \E i \in Ids : SmtpAcceptLate(i)
    BY <2>5, AcceptDelivers DEF Promise!Next
  <2>6. ASSUME NEW w \in Workers, Claim(w)
        PROVE  Promise!Next
    BY <2>6, ClaimTakes DEF Promise!Next
  <2>7. ASSUME NEW w \in Workers, Deliver(w), ~Claim(w), ~SmtpAccept(w)
        PROVE  Promise!Next \/ UNCHANGED Promise!vars
    BY <2>7, FinishTells, OthersStutter DEF Deliver
  <2>8. CASE QuietRequest \/ Crash \/ \E i \in Ids : ProviderCopy(i)
    BY <2>8, OthersStutter
  <2>9. QED
    BY Cases, <2>1, <2>2, <2>3, <2>4, <2>5, <2>6, <2>7, <2>8 DEF Composing
<1>3. QED
  BY <1>1, <1>2, LedgerAlways, PTL DEF Spec, KeepsPromise, Promise!Spec
=============================================================================
