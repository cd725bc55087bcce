---------------------------- MODULE AccountLoops ----------------------------
(***************************************************************************)
(* The mailboxes of one user and the synchronization loops that follow     *)
(* them: the rows of mail_accounts (mailstore/store.go), the registry of   *)
(* SyncManager (mailstore/sync.go: StartAccount, StopAccount, Trigger,     *)
(* Stop, runAccount) and the handlers of handlers/web that add, change,    *)
(* select, delete and trigger a mailbox.                                   *)
(*                                                                         *)
(* A handler is a list of statements.  Each statement is one transaction   *)
(* or one section under the lock of the manager; handlers run side by      *)
(* side.  A mailbox added again after its deletion has a new identifier.   *)
(***************************************************************************)
EXTENDS Integers, Sequences, FiniteSets

CONSTANTS
  Mailboxes,    \* the addresses
  MaxIds,       \* bound: identifiers newID hands out
  MaxLoops,     \* bound: loops started
  Handlers,     \* requests in progress at a time
  MaxRequests   \* bound: requests

AccountIds == 1..MaxIds
LoopIds == 1..MaxLoops

LoopsAssumption ==
  /\ IsFiniteSet(Mailboxes) /\ Cardinality(Mailboxes) <= MaxIds
  /\ MaxIds \in Nat \ {0} /\ MaxLoops \in Nat \ {0} /\ MaxRequests \in Nat

VARIABLES
  rows,      \* mail_accounts: set of [id, box, default]
  used,      \* the identifiers handed out are 1 .. used
  registry,  \* wake, stop and done of the manager: id -> loop, 0 for none
  loops,     \* the loops started so far
  down,      \* the context of the manager is cancelled
  handlers,  \* Handlers -> the request in progress
  requests   \* bound

manager == <<registry, loops, down>>
vars == <<rows, used, manager, handlers, requests>>

Row(i) == CHOOSE r \in rows : r.id = i
Known == {r.id : r \in rows}
NoRequest == [todo |-> <<>>, id |-> 0, box |-> CHOOSE b \in Mailboxes : TRUE,
              default |-> FALSE, loop |-> 0]

Statements == {"find", "read", "upsert", "count", "default", "get",
               "start", "wake", "send", "unregister", "await", "delete", "restore"}

TypeOK ==
  /\ \A r \in rows : r.id \in 1..used /\ r.box \in Mailboxes /\ r.default \in BOOLEAN
  /\ Cardinality(Known) = Cardinality(rows)
  /\ Cardinality({r.box : r \in rows}) = Cardinality(rows)
  /\ used \in 0..MaxIds
  /\ DOMAIN registry = AccountIds /\ \A i \in AccountIds : registry[i] \in 0..Len(loops)
  /\ \A l \in DOMAIN loops :
       /\ loops[l].id \in AccountIds /\ loops[l].pc \in {"pass", "wait", "over"}
       /\ loops[l].stop \in BOOLEAN /\ loops[l].wake \in BOOLEAN
  /\ \A h \in Handlers : \A k \in DOMAIN handlers[h].todo : handlers[h].todo[k] \in Statements

NewLoop(i) == [id |-> i, pc |-> "pass", stop |-> FALSE, wake |-> FALSE]

\* The process starts with the mailboxes it finds and a loop for each (StartAll).
Init ==
  /\ \E n \in 0..Cardinality(Mailboxes) :
       /\ used = n
       /\ \E f \in [1..n -> Mailboxes] :
            /\ Cardinality({f[i] : i \in 1..n}) = n
            /\ rows = {[id |-> i, box |-> f[i], default |-> i = 1] : i \in 1..n}
  /\ registry = [i \in AccountIds |-> IF i <= used THEN i ELSE 0]
  /\ loops = [l \in 1..used |-> NewLoop(l)]
  /\ down = FALSE
  /\ handlers = [h \in Handlers |-> NoRequest]
  /\ requests = 0

-----------------------------------------------------------------------------
(* The requests.                                                           *)

Begin(h, r) ==
  /\ requests < MaxRequests /\ requests' = requests + 1
  /\ handlers[h].todo = <<>>
  /\ handlers' = [handlers EXCEPT ![h] = r]
  /\ UNCHANGED <<rows, used, manager>>

Add(h, b) ==
  Begin(h, [NoRequest EXCEPT !.box = b,
    !.todo = <<"find", "upsert", "count", "default", "get", "start", "wake">>])
Update(h, i) ==
  Begin(h, [NoRequest EXCEPT !.id = i,
    !.todo = <<"read", "upsert", "count", "default", "get", "wake">>])
Delete(h, i) ==
  Begin(h, [NoRequest EXCEPT !.id = i,
    !.todo = <<"read", "unregister", "await", "delete", "restore">>])
Select(h, i) ==
  Begin(h, [NoRequest EXCEPT !.id = i, !.todo = <<"read", "get", "default", "start", "wake">>])
Login(h, i) ==
  i \in Known /\ Begin(h, [NoRequest EXCEPT !.id = i, !.todo = <<"start">>])
\* The other requests that end in a Trigger: attachments, flags, moves, Sent copies.
Nudge(h, i) ==
  i \in Known /\ Begin(h, [NoRequest EXCEPT !.id = i, !.todo = <<"wake">>])

Request ==
  \E h \in Handlers :
    \/ \E b \in Mailboxes : Add(h, b)
    \/ \E i \in 1..used : Update(h, i) \/ Delete(h, i) \/ Select(h, i) \/ Login(h, i) \/ Nudge(h, i)

-----------------------------------------------------------------------------
(* The statements.                                                         *)

At(h, s) == handlers[h].todo # <<>> /\ Head(handlers[h].todo) = s
\* Statement s of handler h runs and leaves the request as r.
Run(h, s, r) ==
  /\ At(h, s)
  /\ handlers' = [handlers EXCEPT ![h] = [r EXCEPT !.todo = Tail(handlers[h].todo)]]
  /\ UNCHANGED requests
Do(h, s) == Run(h, s, handlers[h])
Fail(h, s) ==
  /\ At(h, s)
  /\ handlers' = [handlers EXCEPT ![h] = NoRequest]
  /\ UNCHANGED <<rows, used, manager, requests>>

\* UpsertAccount looks for the address, or takes a new identifier.
Find(h) ==
  LET here == {r \in rows : r.box = handlers[h].box} IN
  /\ IF here # {} THEN UNCHANGED used ELSE used < MaxIds /\ used' = used + 1
  /\ Run(h, "find", [handlers[h] EXCEPT !.id = IF here = {} THEN used + 1 ELSE (CHOOSE r \in here : TRUE).id])
  /\ UNCHANGED <<rows, manager>>

\* accountByID: what the handler goes on with is what it read here.
Read(h) ==
  LET i == handlers[h].id IN
  \/ /\ i \in Known
     /\ Run(h, "read", [handlers[h] EXCEPT !.box = Row(i).box, !.default = Row(i).default])
     /\ UNCHANGED <<rows, used, manager>>
  \/ i \notin Known /\ Fail(h, "read")

RowOf(q) == [id |-> q.id, box |-> q.box, default |-> q.default]

\* As if two rows could have one address.
UpsertedTwice(q) == IF RowOf(q) \in rows THEN rows ELSE rows \cup {RowOf(q)}

\* INSERT ... ON CONFLICT(owner_id, email): a row that exists keeps its identifier
\* and its default; one that was deleted meanwhile comes back.
Upserted(q) == IF \E r \in rows : r.box = q.box THEN rows ELSE rows \cup {RowOf(q)}

Upsert(h) ==
  /\ rows' = Upserted(handlers[h])
  /\ Do(h, "upsert")
  /\ UNCHANGED <<used, manager>>

\* A new mailbox becomes the default only where the user has none.
Count(h) ==
  LET q == handlers[h]
      keep == ~q.default /\ \E r \in rows : r.default IN
  /\ At(h, "count")
  /\ handlers' = [handlers EXCEPT ![h].todo = IF keep THEN Tail(Tail(@)) ELSE Tail(@)]
  /\ UNCHANGED <<rows, used, manager, requests>>

DefaultOnly(i) == {[r EXCEPT !.default = @ \/ r.id = i] : r \in rows}
\* One statement sets the flag of every row of the user.
DefaultIs(i) == {[r EXCEPT !.default = r.id = i] : r \in rows}

SetDefault(h) ==
  /\ rows' = DefaultIs(handlers[h].id)
  /\ Do(h, "default")
  /\ UNCHANGED <<used, manager>>

Get(h) ==
  \/ handlers[h].id \in Known /\ Do(h, "get") /\ UNCHANGED <<rows, used, manager>>
  \/ handlers[h].id \notin Known /\ Fail(h, "get")

DeleteRow(h) ==
  \/ /\ handlers[h].id \in Known
     /\ rows' = {r \in rows : r.id # handlers[h].id}
     /\ Do(h, "delete") /\ UNCHANGED <<used, manager>>
  \/ handlers[h].id \notin Known /\ Fail(h, "delete")

\* Another default is chosen, a default first.
Heirs == IF \E r \in rows : r.default THEN {r \in rows : r.default} ELSE rows
Restore(h) ==
  /\ IF rows = {} THEN UNCHANGED rows ELSE \E r \in Heirs : rows' = DefaultIs(r.id)
  /\ Do(h, "restore")
  /\ UNCHANGED <<used, manager>>

-----------------------------------------------------------------------------
(* The manager.                                                            *)

ExistsNever(i) == FALSE
Exists(i) == registry[i] # 0

\* A loop that is registered is triggered instead of started again.
Start(h) ==
  LET q == handlers[h] IN
  /\ At(h, "start")
  /\ IF Exists(q.id)
       THEN /\ handlers' = [handlers EXCEPT ![h].todo = <<"wake">> \o Tail(@)]
            /\ UNCHANGED <<registry, loops>>
       ELSE /\ Len(loops) < MaxLoops
            /\ loops' = Append(loops, NewLoop(q.id))
            /\ registry' = [registry EXCEPT ![q.id] = Len(loops) + 1]
            /\ handlers' = [handlers EXCEPT ![h].todo = Tail(@)]
  /\ UNCHANGED <<rows, used, down, requests>>

\* Trigger reads the channel under the lock and sends after it.
Wake(h) ==
  LET q == handlers[h] IN
  /\ At(h, "wake")
  /\ handlers' = [handlers EXCEPT ![h].loop = registry[q.id],
                                  ![h].todo = <<IF Exists(q.id) THEN "send" ELSE "start">> \o Tail(@)]
  /\ UNCHANGED <<rows, used, manager, requests>>

\* The channel has room for one signal, also while the loop is busy.
Send(h) ==
  /\ At(h, "send")
  /\ loops' = [loops EXCEPT ![handlers[h].loop].wake = TRUE]
  /\ Do(h, "send")
  /\ UNCHANGED <<rows, used, registry, down>>

\* StopAccount: the entries go under the lock, then the channel is closed and the
\* end of the loop awaited.
Unregister(h) ==
  /\ Run(h, "unregister", [handlers[h] EXCEPT !.loop = registry[handlers[h].id]])
  /\ registry' = [registry EXCEPT ![handlers[h].id] = 0]
  /\ loops' = IF Exists(handlers[h].id) THEN [loops EXCEPT ![registry[handlers[h].id]].stop = TRUE] ELSE loops
  /\ UNCHANGED <<rows, used, down>>

Await(h) ==
  /\ At(h, "await")
  /\ \A l \in DOMAIN loops : handlers[h].loop = l => loops[l].pc = "over"
  /\ Do(h, "await")
  /\ UNCHANGED <<rows, used, manager>>

\* Stop: the context is cancelled and every registered loop is told.
Stop ==
  /\ ~down /\ down' = TRUE
  /\ loops' = [l \in DOMAIN loops |-> [loops[l] EXCEPT !.stop = @ \/ \E i \in AccountIds : registry[i] = l]]
  /\ registry' = [i \in AccountIds |-> 0]
  /\ UNCHANGED <<rows, used, handlers, requests>>

\* runAccount: a pass, then whatever comes first.
Looping(l, pc) == loops' = [loops EXCEPT ![l].pc = pc]
EndPass(l) ==
  /\ loops[l].pc = "pass" /\ Looping(l, "wait")
  /\ UNCHANGED <<rows, used, registry, down, handlers, requests>>
Wakes(l) ==
  /\ loops[l].pc = "wait" /\ loops[l].wake
  /\ loops' = [loops EXCEPT ![l].pc = "pass", ![l].wake = FALSE]
  /\ UNCHANGED <<rows, used, registry, down, handlers, requests>>
Ticks(l) ==
  /\ loops[l].pc = "wait" /\ Looping(l, "pass")
  /\ UNCHANGED <<rows, used, registry, down, handlers, requests>>
Ends(l) ==
  /\ loops[l].pc = "wait" /\ (loops[l].stop \/ down) /\ Looping(l, "over")
  /\ UNCHANGED <<rows, used, registry, down, handlers, requests>>

Handle(h) ==
  \/ Find(h) \/ Read(h) \/ Upsert(h) \/ Count(h) \/ SetDefault(h) \/ Get(h)
  \/ DeleteRow(h) \/ Restore(h)
  \/ Start(h) \/ Wake(h) \/ Send(h) \/ Unregister(h) \/ Await(h)

AtWork(l) == EndPass(l) \/ Wakes(l) \/ Ticks(l) \/ Ends(l)

Next ==
  \/ Request \/ Stop
  \/ \E h \in Handlers : Handle(h)
  \/ \E l \in DOMAIN loops : AtWork(l)

Spec == Init /\ [][Next]_vars
\* Handlers and passes end; a select with several ready channels takes each of
\* them sooner or later.
Fairness ==
  /\ \A h \in Handlers : WF_vars(Handle(h))
  /\ \A l \in LoopIds : WF_vars(l \in DOMAIN loops /\ EndPass(l))
                        /\ SF_vars(l \in DOMAIN loops /\ Ends(l))
FairSpec == Spec /\ Fairness

-----------------------------------------------------------------------------
(* Properties.                                                             *)

\* A loop that nobody told to end can still be told: it is in the registry, so
\* StopAccount and Stop reach it, however starts, triggers and stops race.
NoOrphan ==
  \A l \in DOMAIN loops :
    ~loops[l].stop /\ ~down => registry[loops[l].id] = l

\* A user never has two default mailboxes once the requests are over
\* (setDefaultAccount and DeleteAccount set the flags of all rows at once).
AtMostOneDefault ==
  (\A h \in Handlers : handlers[h].todo = <<>>) => Cardinality({r \in rows : r.default}) <= 1

\* "StopAccount stops a mailbox worker after an account is removed. Without this,
\* the old worker would keep retrying a deleted account forever" (sync.go): no
\* loop of a deleted account stays.
DeletedLoopsEnd ==
  \A i \in AccountIds : (i <= used /\ i \notin Known) ~>
    (i \in Known \/ \A l \in DOMAIN loops : loops[l].id = i => loops[l].pc = "over")
=============================================================================
