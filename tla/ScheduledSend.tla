---------------------------- MODULE ScheduledSend ----------------------------
(***************************************************************************)
(* Send-later: handlers/jsonapi/schedule.go (the drain goroutine and the   *)
(* /v1/scheduled handlers) over handlers/jsonapi/schedule_store.go (the    *)
(* records in the durable key-value store).                                *)
(*                                                                         *)
(* The store has no transactions across calls: Get, List, Set and Delete   *)
(* are one step each, and the HTTP requests and the drain interleave       *)
(* between them, each holding the copy of the record it read.  The process *)
(* can die between any two steps; only the store survives.                 *)
(***************************************************************************)
EXTENDS Naturals, FiniteSets

CONSTANTS
  Ids,          \* record ids (newScheduleID: random, never reused)
  Owner,        \* the account of each record: the first half of its key
  Reqs,         \* HTTP requests being handled at the same time
  Drain,        \* the drain goroutine
  Bodies,       \* compose payloads
  Unbuildable,  \* those BuildMIMEMessage refuses (header injection)
  NoRecord,     \* no value under the key
  MaxPending,   \* maxPendingPerAccount
  MaxAttempts,  \* maxSendAttempts
  MaxTime,      \* bound: the clock, and the horizon of sendAt
  MaxBoots,     \* bound: starts of the process
  MaxSends,     \* bound: SMTP submissions of one record
  StoreFails,   \* bound: whether calls of the store may return an error
  Unreadable,   \* bound: records whose secret the current key cannot decrypt
  Patching      \* bound: whether the run has PATCH requests

Procs   == Reqs \cup {Drain}
Times   == 0 .. MaxTime
Records == [sendAt : Times, body : Bodies, attempts : Nat]

ASSUME ScheduleAssumption ==
  /\ Drain \notin Reqs
  /\ Unbuildable \subseteq Bodies
  /\ NoRecord \notin Records \cup Ids
  /\ MaxPending \in Nat \ {0} /\ MaxAttempts \in Nat \ {0}
  /\ MaxTime \in Nat /\ MaxBoots \in Nat /\ MaxSends \in Nat
  /\ StoreFails \in BOOLEAN
  /\ Unreadable \subseteq Ids
  /\ Patching \in BOOLEAN

VARIABLES
  store,      \* the scheduled_sends namespace of the key-value store
  clock,
  boots,      \* starts of the process so far
  up,         \* the process runs
  stopping,   \* Stop closed the stop channel
  pc,         \* what each process does next
  at,         \* the record id a process works on
  copy,       \* its copy of the record
  making,     \* requests inside POST /v1/messages (the others edit)
  batch,      \* due records the drain has listed and not fired yet
  delivered,  \* how often the SMTP server accepted the record
  created,    \* observer: records acknowledged with 202
  cancelled,  \* observer: records whose cancel was acknowledged with 204
  quiet,      \* observer: those that nobody held a copy of at that moment
  tries,      \* observer: sends of the record that failed for the drain
  excuses,    \* observer: deliveries the drain could not take note of
  refused     \* observer: records a retry or an unbuildable body removed

procVars == <<pc, at, copy, making, batch>>
sysVars  == <<clock, boots, up, stopping>>
obsVars  == <<created, cancelled, quiet, tries, excuses, refused>>
vars     == <<store, sysVars, procVars, delivered, obsVars>>

\* A request runs one handler; only the drain talks to the SMTP server.
PutSteps == {"check", "count", "write"}

TypeOK ==
  /\ store \in [Ids -> Records \cup {NoRecord}]
  /\ clock \in Times
  /\ boots \in Nat
  /\ up \in BOOLEAN
  /\ stopping \in BOOLEAN
  /\ pc \in [Procs -> {"idle", "next", "send", "accepted", "delete", "abandon"}
                       \cup PutSteps]
  /\ at \in [Procs -> Ids \cup {NoRecord}]
  /\ copy \in [Procs -> Records \cup {NoRecord}]
  /\ making \in SUBSET Reqs
  /\ batch \in [Ids -> Records \cup {NoRecord}]
  /\ delivered \in [Ids -> Nat]
  /\ created \in SUBSET Ids
  /\ cancelled \in SUBSET Ids
  /\ quiet \in SUBSET Ids
  /\ tries \in [Ids -> Nat]
  /\ excuses \in [Ids -> Nat]
  /\ refused \in SUBSET Ids

NoBatch == [i \in Ids |-> NoRecord]

Init ==
  /\ store = [i \in Ids |-> NoRecord]
  /\ clock = 0
  /\ boots = 0
  /\ up = FALSE
  /\ stopping = FALSE
  /\ pc = [p \in Procs |-> "idle"]
  /\ at = [p \in Procs |-> NoRecord]
  /\ copy = [p \in Procs |-> NoRecord]
  /\ making = {}
  /\ batch = NoBatch
  /\ delivered = [i \in Ids |-> 0]
  /\ created = {}
  /\ cancelled = {}
  /\ quiet = {}
  /\ tries = [i \in Ids |-> 0]
  /\ excuses = [i \in Ids |-> 0]
  /\ refused = {}

-----------------------------------------------------------------------------
(* Control of one process *)

Goto(p, label) == pc' = [pc EXCEPT ![p] = label] /\ UNCHANGED <<at, copy>>

Hold(p, label, i, r) == /\ pc' = [pc EXCEPT ![p] = label]
                        /\ at' = [at EXCEPT ![p] = i]
                        /\ copy' = [copy EXCEPT ![p] = r]

\* A handler returns, or the drain turns to its next record.
Done(p) == /\ Hold(p, IF p = Drain THEN "next" ELSE "idle", NoRecord, NoRecord)
           /\ making' = making \ {p}

-----------------------------------------------------------------------------
(* scheduleStore.Put, as called by POST, PATCH and the retry of the drain *)

\* List(account), as Put counts it.
Pending(account) == {i \in Ids : Owner[i] = account /\ store[i] # NoRecord}

QuotaFull(i) == Cardinality(Pending(Owner[i])) >= MaxPending

\* kv.Get: only a missing key is counted against the quota.  Any other error
\* is taken for an existing record.
PutCheck(p) ==
  /\ pc[p] = "check"
  /\ \/ Goto(p, IF store[at[p]] = NoRecord THEN "count" ELSE "write")
     \/ StoreFails /\ Goto(p, "write")
  /\ UNCHANGED <<store, sysVars, making, batch, delivered, obsVars>>

\* Put failed: the handler answers with an error; the drain gives the record
\* up rather than retry with a counter that never advances.
PutFails(p) ==
  IF p = Drain
    THEN /\ Goto(p, "abandon")
         /\ refused' = refused \cup {at[p]}
         /\ UNCHANGED making
    ELSE /\ Done(p)
         /\ UNCHANGED refused

PutCount(p) ==
  /\ pc[p] = "count"
  /\ \/ /\ ~QuotaFull(at[p])
        /\ Goto(p, "write")
        /\ UNCHANGED <<making, refused>>
     \/ /\ QuotaFull(at[p]) \/ StoreFails
        /\ PutFails(p)
  /\ UNCHANGED <<store, sysVars, batch, delivered, created, cancelled, quiet, tries, excuses>>

PutWrite(p) ==
  /\ pc[p] = "write"
  /\ \/ /\ store' = [store EXCEPT ![at[p]] = copy[p]]
        /\ created' = IF p \in making THEN created \cup {at[p]} ELSE created
        /\ Done(p)
        /\ UNCHANGED refused
     \/ /\ StoreFails
        /\ PutFails(p)
        /\ UNCHANGED <<store, created>>
  /\ UNCHANGED <<sysVars, batch, delivered, cancelled, quiet, tries, excuses>>

-----------------------------------------------------------------------------
(* The HTTP handlers *)

\* parseFutureSendAt: in the future, within the horizon.
Acceptable(t) == t \in Times /\ t >= clock

\* Mutant: an id can come back once its record is gone.
UnusedNow(i) == store[i] = NoRecord /\ \A p \in Procs : at[p] # i

\* No record was ever made under this id: ids are 128 random bits.
Unused(i) == /\ i \notin created /\ store[i] = NoRecord
             /\ \A p \in Procs : at[p] # i

\* scheduleSend.
Schedule(r, i, t, b) ==
  /\ up /\ pc[r] = "idle"
  /\ Unused(i) /\ Acceptable(t)
  /\ Hold(r, "check", i, [sendAt |-> t, body |-> b, attempts |-> 0])
  /\ making' = making \cup {r}
  /\ UNCHANGED <<store, sysVars, batch, delivered, obsVars>>

\* handleCancelScheduled: a Get that finds the record ...
CancelFind(r, i) ==
  /\ up /\ pc[r] = "idle"
  /\ store[i] # NoRecord
  /\ Hold(r, "delete", i, NoRecord)
  /\ UNCHANGED <<store, sysVars, making, batch, delivered, obsVars>>

\* A copy of the record that somebody may still send or store.
Held(i) == \/ batch[i] # NoRecord
           \/ \E p \in Procs : at[p] = i /\ copy[p] # NoRecord

\* ... then a Delete, and 204 (or 500).
CancelDelete(r) ==
  /\ pc[r] = "delete"
  /\ \/ /\ store' = [store EXCEPT ![at[r]] = NoRecord]
        /\ cancelled' = cancelled \cup {at[r]}
        /\ quiet' = IF Held(at[r]) THEN quiet ELSE quiet \cup {at[r]}
     \/ /\ StoreFails
        /\ UNCHANGED <<store, cancelled, quiet>>
  /\ Done(r)
  /\ UNCHANGED <<sysVars, batch, delivered, created, tries, excuses, refused>>

\* handlePatchScheduled: read the record, change the fields given, Put it.  Only
\* a sendAt that is given is validated.
Patch(r, i, t, b) ==
  /\ Patching
  /\ up /\ pc[r] = "idle"
  /\ store[i] # NoRecord
  /\ Acceptable(t) \/ t = store[i].sendAt
  /\ Hold(r, "check", i, [store[i] EXCEPT !.sendAt = t, !.body = b])
  /\ UNCHANGED <<store, sysVars, making, batch, delivered, obsVars>>

-----------------------------------------------------------------------------
(* The drain *)

\* Mutant: the instant itself is too early.
DueLate(i) == store[i] # NoRecord /\ store[i].sendAt < clock

Due(i) == store[i] # NoRecord /\ store[i].sendAt <= clock

\* listAllDue, at boot or on a tick of the poll timer.
ListDue ==
  /\ up /\ pc[Drain] = "idle"
  /\ \E i \in Ids : Due(i)
  /\ batch' = [i \in Ids |-> IF Due(i) THEN store[i] ELSE NoRecord]
  /\ Goto(Drain, "next")
  /\ UNCHANGED <<store, sysVars, making, delivered, obsVars>>

Listed == {i \in Ids : batch[i] # NoRecord}

\* The pass is over.
EndPass ==
  /\ pc[Drain] = "next" /\ Listed = {}
  /\ Goto(Drain, "idle")
  /\ UNCHANGED <<store, sysVars, making, batch, delivered, obsVars>>

\* A body that cannot be built is dropped, anything else is sent.
AfterBuild(b) == IF b \in Unbuildable THEN "abandon" ELSE "send"

\* fire: the earliest record of the batch, built from the copy that was listed.
Fire(i) ==
  /\ pc[Drain] = "next"
  /\ i \in Listed \ Unreadable
  /\ tries[i] + delivered[i] < MaxSends
  /\ \A j \in Listed : batch[i].sendAt <= batch[j].sendAt
  /\ Hold(Drain, AfterBuild(batch[i].body), i, batch[i])
  /\ batch' = [batch EXCEPT ![i] = NoRecord]
  /\ refused' = IF batch[i].body \in Unbuildable THEN refused \cup {i} ELSE refused
  /\ UNCHANGED <<store, sysVars, making, delivered, created, cancelled, quiet, tries, excuses>>

\* The secret cannot be decrypted: logged, and left for the next pass.
SkipUnreadable(i) ==
  /\ pc[Drain] = "next"
  /\ i \in Listed \cap Unreadable
  /\ \A j \in Listed : batch[i].sendAt <= batch[j].sendAt
  /\ batch' = [batch EXCEPT ![i] = NoRecord]
  /\ UNCHANGED <<store, sysVars, pc, at, copy, making, delivered, obsVars>>

\* Mutant: the counter runs the wrong way.
CountedDown(r) == [r EXCEPT !.attempts = @ - 1]

Counted(r) == [r EXCEPT !.attempts = @ + 1]

\* Mutant: the budget is one attempt short.
SpentEarly(r) == r.attempts + 1 >= MaxAttempts

\* The attempts counted so far reach maxSendAttempts.
Spent(r) == r.attempts >= MaxAttempts

\* The send failed: count it, then give up or store the counter.
SendFailed ==
  /\ tries' = [tries EXCEPT ![at[Drain]] = @ + 1]
  /\ Hold(Drain, IF Spent(Counted(copy[Drain])) THEN "abandon" ELSE "check",
          at[Drain], Counted(copy[Drain]))

\* The SMTP server refuses, or is not reached.
SmtpRefuse ==
  /\ pc[Drain] = "send"
  /\ SendFailed
  /\ UNCHANGED <<store, sysVars, making, batch, delivered, created, cancelled,
                 quiet, excuses, refused>>

SmtpAccept ==
  /\ pc[Drain] = "send"
  /\ Goto(Drain, "accepted")
  /\ delivered' = [delivered EXCEPT ![at[Drain]] = @ + 1]
  /\ UNCHANGED <<store, sysVars, making, batch, obsVars>>

\* Mutant: a sent record is left in the store.
AfterSentKeep == "next"

\* Sent: delete, so that it does not fire again.
AfterSent == "delete"

\* The 250 arrives, or the connection dies first: to the drain, that is a
\* failure like any other.
SmtpReply ==
  /\ pc[Drain] = "accepted"
  /\ \/ Goto(Drain, AfterSent) /\ UNCHANGED <<tries, excuses>>
     \/ SendFailed /\ excuses' = [excuses EXCEPT ![at[Drain]] = @ + 1]
  /\ UNCHANGED <<store, sysVars, making, batch, delivered, created, cancelled, quiet,
                 refused>>

\* A failed Delete is logged: the record will be sent again.
SentDelete ==
  /\ pc[Drain] = "delete"
  /\ \/ /\ store' = [store EXCEPT ![at[Drain]] = NoRecord]
        /\ UNCHANGED excuses
     \/ /\ StoreFails
        /\ excuses' = [excuses EXCEPT ![at[Drain]] = @ + 1]
        /\ UNCHANGED store
  /\ Done(Drain)
  /\ UNCHANGED <<sysVars, batch, delivered, created, cancelled, quiet, tries, refused>>

\* Given up: the error of this Delete is not even looked at.
Abandon ==
  /\ pc[Drain] = "abandon"
  /\ \/ store' = [store EXCEPT ![at[Drain]] = NoRecord]
     \/ StoreFails /\ UNCHANGED store
  /\ Done(Drain)
  /\ UNCHANGED <<sysVars, batch, delivered, obsVars>>

-----------------------------------------------------------------------------
(* The process *)

Boot ==
  /\ ~up /\ boots < MaxBoots
  /\ up' = TRUE /\ boots' = boots + 1 /\ stopping' = FALSE
  /\ UNCHANGED <<store, clock, procVars, delivered, obsVars>>

\* All memory is gone.  A delivery whose record was not deleted yet will be
\* repeated by the catch-up pass.
Die ==
  /\ up' = FALSE /\ stopping' = FALSE
  /\ pc' = [p \in Procs |-> "idle"]
  /\ at' = [p \in Procs |-> NoRecord]
  /\ copy' = [p \in Procs |-> NoRecord]
  /\ making' = {}
  /\ batch' = NoBatch
  /\ UNCHANGED <<store, clock, boots, delivered, created, cancelled, quiet, tries, refused>>

Crash ==
  /\ up /\ boots < MaxBoots
  /\ Die
  /\ excuses' = [i \in Ids |-> IF pc[Drain] \in {"accepted", "delete"} /\ at[Drain] = i
                               THEN excuses[i] + 1 ELSE excuses[i]]

\* Stop: the drain finishes its pass before it looks at the channel.
Stop ==
  /\ up /\ ~stopping /\ boots < MaxBoots
  /\ stopping' = TRUE
  /\ UNCHANGED <<store, clock, boots, up, procVars, delivered, obsVars>>

Stopped ==
  /\ stopping
  /\ \A p \in Procs : pc[p] = "idle"
  /\ Die
  /\ UNCHANGED excuses

Tick ==
  /\ clock < MaxTime
  /\ clock' = clock + 1
  /\ UNCHANGED <<store, boots, up, stopping, procVars, delivered, obsVars>>

-----------------------------------------------------------------------------
Request(r) ==
  \/ \E i \in Ids :
       \/ CancelFind(r, i)
       \/ \E t \in Times, b \in Bodies : Schedule(r, i, t, b) \/ Patch(r, i, t, b)
  \/ CancelDelete(r)

Put(p) == PutCheck(p) \/ PutCount(p) \/ PutWrite(p)

Pass ==
  \/ ListDue \/ EndPass
  \/ \E i \in Ids : Fire(i) \/ SkipUnreadable(i)
  \/ SmtpRefuse \/ SmtpAccept \/ SmtpReply
  \/ SentDelete \/ Abandon
  \/ Put(Drain)

Process == Boot \/ Crash \/ Stop \/ Stopped

Next ==
  \/ \E r \in Reqs : Request(r) \/ Put(r)
  \/ Pass
  \/ Process
  \/ Tick

Spec == Init /\ [][Next]_vars

\* The drain goroutine is scheduled, SendRawMessage is bounded by
\* smtpSendTimeout, handlers return, time passes, and the process is restarted.
Fairness ==
  /\ WF_vars(Pass)
  /\ \A r \in Reqs : WF_vars(Put(r) \/ CancelDelete(r))
  /\ WF_vars(Boot)
  /\ WF_vars(Tick)

FairSpec == Spec /\ Fairness

-----------------------------------------------------------------------------
(* Properties *)

\* An accepted send-later is never lost, whatever crashes and edits come in
\* between: a record leaves the store only delivered, cancelled, impossible to
\* build or to re-store, or after the whole budget of failed sends.
NotDropped ==
  \A i \in created : store[i] = NoRecord =>
    \/ delivered[i] > 0
    \/ i \in cancelled \cup refused
    \/ tries[i] >= MaxAttempts

\* A message is delivered twice only if the drain could not take note of a
\* delivery: a lost reply, a failed Delete, or a crash in between.
DuplicatesExcused == \A i \in Ids : delivered[i] <= 1 + excuses[i]

\* A cancel acknowledged while nobody held a copy of the record is final: no
\* request or drain pass brings the record back or sends it.
QuietCancelIsFinal ==
  \A i \in quiet : store[i] = NoRecord /\ ~Held(i)

\* A record leaves the store for a reason, and an undisturbed cancel is the last of it.
RecordsAreKept == NotDropped /\ QuietCancelIsFinal

\* A cancelled scheduled send never fires.
CancelledNeverFires ==
  [][\A i \in cancelled : delivered'[i] = delivered[i]]_vars

\* An account never has more than its quota of scheduled sends.
QuotaHolds ==
  \A i \in Ids : Cardinality(Pending(Owner[i])) <= MaxPending

\* A send starts at or after the instant its record asks for.
FiresWhenDue ==
  [][pc[Drain] = "next" /\ pc'[Drain] = "send" /\ store[at'[Drain]] # NoRecord
       => store[at'[Drain]].sendAt <= clock]_vars

\* A record does not stay forever: it is delivered, given up or cancelled.
EventuallyResolved ==
  \A i \in Ids : store[i] # NoRecord ~> store[i] = NoRecord

=============================================================================
