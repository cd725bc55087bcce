------------------------------ MODULE ChatTurn ------------------------------
(***************************************************************************)
(* One AI chat session: its messages, the runs that answer them, the       *)
(* registry of running requests, and the library documents saved from its  *)
(* cards.  Handlers execute HandleAgentChat, each statement of the         *)
(* database and each section under the registry's mutex being a step;      *)
(* beside them the user stops requests, changes the business context,      *)
(* clears or deletes the session, and saves, edits or deletes documents.   *)
(*                                                                         *)
(* A request id stands for one body: the question, the session version the *)
(* client had seen and perhaps the wish for a new draft.                   *)
(* The version is the only clock of a session; leases are live or expired. *)
(* A card is identified by the position of the message that carries it.    *)
(***************************************************************************)
EXTENDS Integers, Sequences, FiniteSets

CONSTANTS
  Handlers,    \* goroutines of HandleAgentChat
  Requests,    \* request ids
  MaxRuns,     \* bound: leases handed out
  MaxChanges,  \* bound: changes by the user: stops, context, documents, clearing
  MaxFaults    \* bound: restarts of the process and leases outlived

ChatAssumption == MaxRuns \in Nat /\ MaxChanges \in Nat /\ MaxFaults \in Nat

VARIABLES
  session,   \* [here, version, current]; current: the card in hand, 0 for none
  messages,  \* the history: user messages and answers
  runs,      \* Requests -> the row of ai_chat_runs
  registry,  \* Requests -> "none", "running", "stopping" or "marker"
  calls,     \* Handlers -> the request in progress
  stops,     \* requests whose stop has reached the registry only
  fenced,    \* tokens of runs stopped while pending
  library,   \* cards -> the document saved from it: [linked, revision]
  bounds     \* [runs, changes, faults]

vars == <<session, messages, runs, registry, calls, stops, fenced, library, bounds>>
handling == <<session, messages, runs, stops, fenced, library>>

Positions == 1..(2 * MaxRuns)
NoRun == [status |-> "none", token |-> 0, live |-> FALSE, version |-> 0]
NoCall == [pc |-> "idle", request |-> 0, asked |-> 0, fresh |-> FALSE,
           read |-> <<0, 0>>, token |-> 0, version |-> 0]
NoDocument == [linked |-> FALSE, revision |-> 0]
\* The saved document the model is shown for the card in hand.
Shown == <<session.current, IF session.current = 0 THEN 0 ELSE library[session.current].revision>>

Init ==
  /\ session = [here |-> TRUE, version |-> 0, current |-> 0] /\ messages = <<>>
  /\ runs = [r \in Requests |-> NoRun] /\ registry = [r \in Requests |-> "none"]
  /\ calls = [h \in Handlers |-> NoCall] /\ stops = {} /\ fenced = {}
  /\ library = [c \in Positions |-> NoDocument]
  /\ bounds = [runs |-> 0, changes |-> 0, faults |-> 0]

TypeOK ==
  /\ session.version \in 0..(2 * MaxRuns + MaxChanges) /\ session.current \in 0..Len(messages)
  /\ \A i \in 1..Len(messages) : messages[i].role \in {"user", "assistant"}
  /\ \A r \in Requests :
       /\ runs[r].status \in {"none", "pending", "complete", "failed"}
       /\ runs[r].token \in 0..bounds.runs /\ runs[r].version \in 0..session.version
       /\ registry[r] \in {"none", "running", "stopping", "marker"}
  /\ \A h \in Handlers :
       /\ calls[h].pc \in {"idle", "replay", "register", "begin", "remember", "work",
                           "finish", "fail", "release"}
       /\ calls[h].pc \in {"remember", "work", "finish", "fail"} => calls[h].token # 0
  /\ stops \subseteq Requests /\ fenced \subseteq 1..bounds.runs

-----------------------------------------------------------------------------
(* HandleAgentChat.                                                        *)

Move(h, pc) == calls' = [calls EXCEPT ![h].pc = pc]
Leave(h) == calls' = [calls EXCEPT ![h] = NoCall]
\* The context of the request is cancelled once it is stopped.
Cancelled(h) == registry[calls[h].request] = "stopping"
Pending(r) == runs[r].status = "pending" /\ runs[r].live

\* The session is read in one snapshot with the document in hand.
Read(h, r, asked, fresh) ==
  /\ calls[h].pc = "idle" /\ session.here
  /\ calls' = [calls EXCEPT ![h] = [NoCall EXCEPT !.pc = "replay", !.request = r, !.asked = asked,
                                             !.fresh = fresh, !.read = Shown]]
  /\ UNCHANGED <<handling, registry, bounds>>

\* A new question, or the same one sent twice.
Ask(h, r) ==
  /\ runs[r].status = "none"
  /\ \E asked \in {session.version, session.version - 1}, fresh \in BOOLEAN :
       /\ asked >= 0 /\ Read(h, r, asked, fresh)
       /\ \A g \in Handlers : calls[g].request = r => calls[g].asked = asked /\ calls[g].fresh = fresh

\* The request is sent again, by its id (the body is then the stored one) or in full.
Retry(h, r) == runs[r].status # "none" /\ Read(h, r, runs[r].version - 1, FALSE)

\* A request already answered gets the stored answer again.
Replay(h) ==
  /\ calls[h].pc = "replay"
  /\ IF runs[calls[h].request].status = "complete" THEN Leave(h) ELSE Move(h, "register")
  /\ UNCHANGED <<handling, registry, bounds>>

\* aiRequests.begin: one goroutine per request, none after a stop.
Register(h) ==
  /\ calls[h].pc = "register"
  /\ IF registry[calls[h].request] = "none"
       THEN registry' = [registry EXCEPT ![calls[h].request] = "running"] /\ Move(h, "begin")
       ELSE Leave(h) /\ UNCHANGED registry
  /\ UNCHANGED <<handling, bounds>>

\* The preflight refuses: no model or key, no agent, images, an oversized question.
Preflight(h) ==
  /\ calls[h].pc = "begin" /\ Move(h, "release")
  /\ UNCHANGED <<handling, registry, bounds>>

BeginUnchecked(h) ==
  LET r == calls[h].request IN
    /\ session.here
    /\ IF runs[r].status = "none" THEN session.version = calls[h].asked
         ELSE runs[r].status # "complete" /\ ~Pending(r) /\ session.version = runs[r].version
\* The conditions of BeginAIChatTurn.
BeginAllowed(h) ==
  LET r == calls[h].request IN
    /\ session.here /\ \A q \in Requests : ~Pending(q)
    /\ IF runs[r].status = "none" THEN session.version = calls[h].asked
         ELSE runs[r].status # "complete" /\ session.version = runs[r].version

\* A first attempt stores the question, a retry keeps it; a new draft lets go of
\* the card in hand.
Begin(h) ==
  LET r == calls[h].request
      first == runs[r].status = "none"
      version == session.version + (IF first THEN 1 ELSE 0)
  IN /\ calls[h].pc = "begin" /\ ~Cancelled(h) /\ BeginAllowed(h) /\ bounds.runs < MaxRuns
     /\ bounds' = [bounds EXCEPT !.runs = @ + 1]
     /\ messages' = IF first THEN Append(messages, [role |-> "user", request |-> r, token |-> 0,
                                                    read |-> <<0, 0>>, then |-> <<0, 0>>])
                             ELSE messages
     /\ session' = [session EXCEPT !.version = version,
                                   !.current = IF first /\ calls[h].fresh THEN 0 ELSE @]
     /\ runs' = [runs EXCEPT ![r] = [@ EXCEPT !.status = "pending", !.token = bounds.runs + 1,
                                              !.live = TRUE, !.version = version]]
     /\ calls' = [calls EXCEPT ![h].pc = "remember", ![h].token = bounds.runs + 1,
                               ![h].version = version,
                               ![h].read = IF calls[h].fresh THEN <<0, 0>> ELSE @]
     /\ UNCHANGED <<registry, stops, fenced, library>>

\* A conflict, the context gone - or answered in the meantime.
BeginRefused(h) ==
  /\ calls[h].pc = "begin" /\ (Cancelled(h) \/ ~BeginAllowed(h)) /\ Move(h, "release")
  /\ UNCHANGED <<handling, registry, bounds>>

\* The run of this handler still holds the lease.
Owns(h) ==
  LET r == calls[h].request IN
    runs[r].token = calls[h].token /\ runs[r].status = "pending" /\ runs[r].live

\* The compacted history is cached by the holder of the lease only.
Remember(h) ==
  /\ calls[h].pc = "remember"
  /\ IF Owns(h) /\ ~Cancelled(h) /\ session.version = calls[h].version
       THEN Move(h, "work") ELSE Move(h, "fail")
  /\ UNCHANGED <<handling, registry, bounds>>

\* The agent runs its tools and answers, unless it fails or is cancelled.
Work(h) ==
  /\ calls[h].pc = "work"
  /\ \/ ~Cancelled(h) /\ Move(h, "finish")
     \/ Move(h, "fail")
  /\ UNCHANGED <<handling, registry, bounds>>

FinishAny(h) ==
  /\ runs[calls[h].request].token = calls[h].token
  /\ runs[calls[h].request].status \in {"pending", "failed"} /\ session.version = calls[h].version
FinishLate(h) ==
  /\ runs[calls[h].request].token = calls[h].token
  /\ runs[calls[h].request].status = "pending" /\ session.here
\* FinishAIChatTurn runs under a context of its own.
MayFinish(h) == Owns(h) /\ session.here /\ session.version = calls[h].version

Finish(h) ==
  LET r == calls[h].request IN
    /\ calls[h].pc = "finish" /\ MayFinish(h) /\ Move(h, "fail")
    /\ runs' = [runs EXCEPT ![r].status = "complete"]
    /\ messages' = Append(messages, [role |-> "assistant", request |-> r, token |-> calls[h].token,
                                     read |-> calls[h].read, then |-> Shown])
    /\ \E card \in BOOLEAN :
         session' = [session EXCEPT !.version = @ + 1,
                                    !.current = IF card THEN Len(messages) + 1 ELSE @]
    /\ UNCHANGED <<registry, stops, fenced, library, bounds>>
FinishRefused(h) ==
  /\ calls[h].pc = "finish" /\ ~MayFinish(h) /\ Move(h, "fail")
  /\ UNCHANGED <<handling, registry, bounds>>

\* The deferred FailAIChatTurn changes a pending run of this token only.
Fail(h) ==
  LET r == calls[h].request IN
    /\ calls[h].pc = "fail" /\ Move(h, "release")
    /\ runs' = IF runs[r].token = calls[h].token /\ runs[r].status = "pending"
                 THEN [runs EXCEPT ![r].status = "failed"] ELSE runs
    /\ UNCHANGED <<session, messages, registry, stops, fenced, library, bounds>>

\* finishRequest: a stopped entry stays as a marker.
Release(h) ==
  /\ calls[h].pc = "release" /\ Leave(h)
  /\ registry' = [registry EXCEPT ![calls[h].request] = IF @ = "stopping" THEN "marker" ELSE "none"]
  /\ UNCHANGED <<handling, bounds>>

-----------------------------------------------------------------------------
(* HandleStopAI: the registry first, then the database.                    *)

Change == bounds.changes < MaxChanges /\ bounds' = [bounds EXCEPT !.changes = @ + 1]

Stop(r) ==
  /\ Change /\ r \notin stops /\ stops' = stops \cup {r}
  /\ registry' = [registry EXCEPT ![r] = IF @ = "running" THEN "stopping"
                                         ELSE IF @ = "none" THEN "marker" ELSE @]
  /\ UNCHANGED <<session, messages, runs, calls, fenced, library>>

\* CancelAIChatRequest fences the run.
Cancel(r) ==
  /\ r \in stops /\ stops' = stops \ {r}
  /\ runs' = [runs EXCEPT ![r].status = IF @ = "pending" THEN "failed" ELSE @]
  /\ fenced' = IF runs[r].status = "pending" THEN fenced \cup {runs[r].token} ELSE fenced
  /\ UNCHANGED <<session, messages, registry, calls, library, bounds>>

\* The marker of a stop is pruned after a turn's lifetime.
MarkerExpires(r) ==
  /\ registry[r] = "marker" /\ registry' = [registry EXCEPT ![r] = "none"]
  /\ UNCHANGED <<handling, calls, bounds>>

-----------------------------------------------------------------------------
(* What else changes a session.                                            *)

Quiet == session.here /\ \A r \in Requests : ~Pending(r)

Business ==
  /\ Change /\ Quiet /\ session' = [session EXCEPT !.version = @ + 1]
  /\ UNCHANGED <<messages, runs, registry, calls, stops, fenced, library>>

\* Clearing and deleting take the runs, messages and links along.
Delete(clear) ==
  /\ Change /\ Quiet
  /\ session' = [here |-> clear, version |-> session.version + 1, current |-> 0]
  /\ messages' = <<>> /\ runs' = [r \in Requests |-> NoRun]
  /\ library' = [c \in Positions |-> NoDocument]
  /\ UNCHANGED <<registry, calls, stops, fenced>>

InvalidateNone(card) == UNCHANGED <<runs, session>>
\* invalidateAIChatDocumentReaders: the runs that may have read the document fail.
Invalidate(card) ==
  /\ runs' = IF session.current = card
               THEN [r \in Requests |-> IF runs[r].status = "pending"
                       THEN [runs[r] EXCEPT !.status = "failed"] ELSE runs[r]]
               ELSE runs
  /\ session' = IF session.current = card THEN [session EXCEPT !.version = @ + 1] ELSE session

Cards == {i \in 1..Len(messages) : messages[i].role = "assistant"}
\* SaveDocument from a card: once; the message must be there.
SaveCard(card) ==
  /\ Change /\ ~library[card].linked
  /\ library' = [library EXCEPT ![card] = [linked |-> TRUE, revision |-> 1]]
  /\ Invalidate(card)
  /\ UNCHANGED <<messages, registry, calls, stops, fenced>>
\* SaveDocument of the revision the editor had.
EditDocument(card) ==
  /\ Change /\ library[card].revision # 0
  /\ library' = [library EXCEPT ![card].revision = @ + 1] /\ Invalidate(card)
  /\ UNCHANGED <<messages, registry, calls, stops, fenced>>
\* The link stays: the card cannot be saved again.
DeleteDocument(card) ==
  /\ Change /\ library[card].revision # 0
  /\ library' = [library EXCEPT ![card].revision = 0] /\ Invalidate(card)
  /\ UNCHANGED <<messages, registry, calls, stops, fenced>>

Fault == bounds.faults < MaxFaults /\ bounds' = [bounds EXCEPT !.faults = @ + 1]
\* The lease outlives the request's deadline by a minute, unless the machine slept.
LeaseExpires(r) ==
  /\ Fault /\ Pending(r) /\ runs' = [runs EXCEPT ![r].live = FALSE]
  /\ UNCHANGED <<session, messages, registry, calls, stops, fenced, library>>
Crash ==
  /\ Fault /\ \E h \in Handlers : calls[h].pc # "idle"
  /\ calls' = [h \in Handlers |-> NoCall] /\ registry' = [r \in Requests |-> "none"] /\ stops' = {}
  /\ UNCHANGED <<session, messages, runs, fenced, library>>

Handle(h) ==
  \/ Replay(h) \/ Register(h) \/ Preflight(h) \/ Begin(h) \/ BeginRefused(h) \/ Remember(h)
  \/ Work(h) \/ Finish(h) \/ FinishRefused(h) \/ Fail(h) \/ Release(h)

Next ==
  \/ \E h \in Handlers : Handle(h) \/ \E r \in Requests : Ask(h, r) \/ Retry(h, r)
  \/ \E r \in Requests : Stop(r) \/ Cancel(r) \/ MarkerExpires(r) \/ LeaseExpires(r)
  \/ Business \/ \E clear \in BOOLEAN : Delete(clear)
  \/ \E card \in Cards : SaveCard(card) \/ EditDocument(card) \/ DeleteDocument(card)
  \/ Crash

Spec == Init /\ [][Next]_vars

-----------------------------------------------------------------------------
(* What a session promises.                                                *)

\* An answer stands directly behind its question and a question is stored once,
\* whatever was retried, sent twice or answered late.
ChatHistory ==
  /\ \A i \in 1..Len(messages) :
       messages[i].role = "assistant" =>
         /\ i > 1 /\ messages[i - 1].role = "user" /\ messages[i - 1].request = messages[i].request
  /\ \A i, j \in 1..Len(messages) :
       (messages[i].role = messages[j].role /\ messages[i].request = messages[j].request) => i = j

\* A run stopped while it was pending never answers, however late its model is
\* (CancelAIChatRequest "fences late completion").
StoppedStaysSilent == \A i \in 1..Len(messages) : messages[i].token \notin fenced

\* "A model reading an older revision cannot commit later": the document an answer
\* was written from is still the one in hand, at the same revision, when the answer
\* is stored.
ReadersAreCurrent == \A i \in 1..Len(messages) : messages[i].read = messages[i].then

\* No two turns of a session run at a time.
OneTurn == Cardinality({r \in Requests : Pending(r)}) <= 1
=============================================================================
