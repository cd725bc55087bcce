----------------------------- MODULE MirrorSync -----------------------------
(***************************************************************************)
(* The local mirror of one IMAP folder: mailstore/sync.go (a pass of the   *)
(* account's loop and the immediate synchronization), messages.go (upsert, *)
(* flags, prune), pending_flags.go and pending_moves.go (what the user did *)
(* locally and the server has not been told yet), and the handlers of      *)
(* handlers/web that read, move and delete mail.                           *)
(*                                                                         *)
(* Two synchronizers write the mirror: "loop", the one loop of the         *)
(* account, and "now", a request that wants new mail at once.  Every call  *)
(* of the IMAP client and every transaction on the mirror is a step, so    *)
(* what one of them holds is stale when it is written.                     *)
(***************************************************************************)
EXTENDS Integers, FiniteSets, Functions

CONSTANTS
  Last,       \* bound: the UIDs the server hands out are 1 .. Last
  Found,      \* the messages of the folder at the start
  Batch,      \* BatchSize
  Window,     \* bound of the flag refresh, 100 in the code
  Limit,      \* MaxMessagesPerFolder, 0 for none
  MaxUser,    \* bound: requests of the user
  MaxRemote,  \* bound: steps of other clients and of incoming mail
  MaxFaults   \* bound: errors, lost answers and deaths of the process

Uids == 1..Last

ASSUME MirrorAssumption ==
  /\ Last \in Nat /\ Found \in 0..Last
  /\ Batch \in Nat \ {0} /\ Window \in Nat \ {0} /\ Limit \in Nat
  /\ MaxUser \in Nat /\ MaxRemote \in Nat /\ MaxFaults \in Nat

VARIABLES
  srv,        \* the folder on the server: UID -> \Seen
  uidNext,
  copies,     \* messages the target folder received, for each UID
  msgs,       \* the messages table: UID -> \Seen
  tasks,      \* the UIDs for which background tasks were queued
  pmove,      \* pending_message_moves
  pflag,      \* pending_flag_updates
  count,      \* folders.message_count
  synced,     \* folders.last_sync_at is set
  syn,        \* the synchronizers
  removing,   \* removals done upstream and not yet locally
  stored,     \* observer: the flag last stored upstream for the user
  doomed,     \* observer: the messages somebody deleted for good
  based,      \* observer: the first scan was completed
  history,    \* observer: what was stored before that
  user, remote, faults

serverVars == <<srv, uidNext, copies>>
mirrorVars == <<msgs, tasks, count, synced, based, history>>
intentVars == <<pmove, pflag, stored, doomed>>
boundVars  == <<user, remote, faults>>
vars == <<serverVars, mirrorVars, intentVars, syn, removing, boundVars>>

Syncers == {"loop", "now"}
PartialIn(f, S, T) == DOMAIN f \in SUBSET S /\ f \in [DOMAIN f -> T]
Moves == [ver : Nat, kind : {"move", "delete"}, late : BOOLEAN]
Flags == [ver : Nat, seen : BOOLEAN, late : BOOLEAN]

Steps == {"idle", "moves", "moved", "flags", "flagged", "folder", "scan", "scanned",
          "select", "local", "refresh", "refreshed", "pull", "pulled", "bodies", "bodied",
          "reconcile", "prune", "finish"}

TypeOK ==
  /\ PartialIn(srv, Uids, BOOLEAN) /\ PartialIn(msgs, Uids, BOOLEAN)
  /\ uidNext \in 1..Last + 1
  /\ copies \in [Uids -> Nat]
  /\ tasks \in SUBSET Uids /\ history \in SUBSET Uids /\ doomed \in SUBSET Uids
  /\ PartialIn(pmove, Uids, Moves) /\ PartialIn(pflag, Uids, Flags)
  /\ count \in Nat /\ synced \in BOOLEAN /\ based \in BOOLEAN
  /\ \A a \in Syncers :
       /\ syn[a].pc \in Steps
       /\ PartialIn(syn[a].page, Uids, BOOLEAN)
       /\ syn[a].seen \in SUBSET Uids /\ syn[a].at \in SUBSET Uids
       /\ DOMAIN syn[a].todo \subseteq Uids
  /\ removing \in SUBSET (Uids \X {"delete", "restore"})
  /\ PartialIn(stored, Uids, BOOLEAN)
  /\ user \in 0..MaxUser /\ remote \in 0..MaxRemote /\ faults \in 0..MaxFaults

Empty == [u \in {} |-> TRUE]
\* The variables of a synchronizer between two passes.
Idle == [pc |-> "idle", todo |-> Empty, at |-> {}, ok |-> TRUE, page |-> Empty,
         cursor |-> 0, seen |-> {}, fresh |-> 0, next |-> 0, total |-> 0, there |-> {}]

\* A folder never seen before, or one whose first scan is complete.
Init ==
  /\ srv = [u \in 1..Found |-> FALSE]
  /\ uidNext = Found + 1
  /\ copies = [u \in Uids |-> 0]
  /\ synced \in BOOLEAN /\ based = synced
  /\ msgs = IF synced THEN srv ELSE Empty
  /\ count = Cardinality(DOMAIN msgs)
  /\ history = DOMAIN msgs
  /\ tasks = {} /\ pmove = Empty /\ pflag = Empty /\ stored = Empty /\ doomed = {}
  /\ syn = [a \in Syncers |-> Idle]
  /\ removing = {}
  /\ user = 0 /\ remote = 0 /\ faults = 0

Without(f, S) == Restrict(f, DOMAIN f \ S)
Highest(S) == IF S = {} THEN 0 ELSE CHOOSE u \in S : \A v \in S : v <= u
\* The n oldest of a set of UIDs, and the n newest after the offset newest.
Oldest(S, n) == {u \in S : Cardinality({v \in S : v < u}) < n}
Newest(S, n, offset) == LET newer(u) == Cardinality({v \in S : v > u})
                        IN {u \in S : newer(u) >= offset /\ newer(u) < offset + n}
Goto(a, p) == syn' = [syn EXCEPT ![a].pc = p]

-----------------------------------------------------------------------------
(* What the user does: one transaction each, then the loop is triggered.   *)

User == user < MaxUser /\ user' = user + 1 /\ UNCHANGED <<remote, faults>>
Version(rows, u) == IF u \in DOMAIN rows THEN rows[u].ver + 1 ELSE 1
Put(rows, u, row) == [v \in DOMAIN rows \cup {u} |-> IF v = u THEN row ELSE rows[v]]

\* The counts are always derived from the table (QueueMessageMoves, UpdateFolderStats).
CountedDown(u) == count - 1
CountWithout(u) == Cardinality(DOMAIN msgs \ {u})

\* Mark one message read or unread; an unchanged flag queues nothing.
MarkSeen(u, b) ==
  /\ User
  /\ u \in DOMAIN msgs /\ msgs[u] # b
  /\ msgs' = [msgs EXCEPT ![u] = b]
  /\ pflag' = Put(pflag, u, [ver |-> Version(pflag, u), seen |-> b, late |-> FALSE])
  /\ UNCHANGED <<serverVars, tasks, count, synced, based, history, pmove, stored, doomed, syn, removing>>

\* Delete to Trash, or for good where the message is in Trash or Junk.  Of two
\* requests that both found the message the second queues a newer version.
MoveAway(u, kind) ==
  /\ User
  /\ u \in DOMAIN msgs \cup DOMAIN pmove
  /\ msgs' = Without(msgs, {u})
  /\ pmove' = Put(pmove, u, [ver |-> Version(pmove, u), kind |-> kind, late |-> FALSE])
  /\ count' = CountWithout(u)
  /\ doomed' = doomed \cup (IF kind = "delete" THEN {u} ELSE {})
  /\ UNCHANGED <<serverVars, tasks, synced, based, history, pflag, stored, syn, removing>>

\* Delete upstream first, or restore from Junk, and then locally.
RemoveUpstream(u, kind) ==
  /\ User
  /\ u \in DOMAIN msgs /\ u \in DOMAIN srv
  /\ srv' = Without(srv, {u})
  /\ copies' = IF kind = "restore" THEN [copies EXCEPT ![u] = @ + 1] ELSE copies
  /\ removing' = removing \cup {<<u, kind>>}
  /\ doomed' = doomed \cup (IF kind = "delete" THEN {u} ELSE {})
  /\ UNCHANGED <<uidNext, mirrorVars, pmove, pflag, stored, syn>>

\* Only the handler of Junk recounts the folder.
RemoveLocally(u, kind) ==
  /\ <<u, kind>> \in removing
  /\ removing' = removing \ {<<u, kind>>}
  /\ msgs' = Without(msgs, {u})
  /\ count' = IF kind = "restore" THEN CountWithout(u) ELSE count
  /\ UNCHANGED <<serverVars, tasks, synced, based, history, intentVars, syn, boundVars>>

\* The immediate synchronization reads its cursor.
SyncNow ==
  /\ User
  /\ syn["now"].pc = "idle"
  /\ syn' = [syn EXCEPT !["now"] = [Idle EXCEPT !.pc = "pull", !.cursor = Highest(DOMAIN msgs)]]
  /\ UNCHANGED <<serverVars, mirrorVars, intentVars, removing>>

Request ==
  \/ SyncNow
  \/ \E u \in Uids : \/ \E b \in BOOLEAN : MarkSeen(u, b)
                     \/ \E k \in {"move", "delete"} : MoveAway(u, k)
                     \/ \E k \in {"delete", "restore"} : RemoveUpstream(u, k)

-----------------------------------------------------------------------------
(* The loop tells the server what the user did: first moves, then flags.   *)

Due(rows) == Restrict(rows, {u \in DOMAIN rows : ~rows[u].late})
Quiet == UNCHANGED <<user, remote, faults>>
Fault == faults < MaxFaults /\ faults' = faults + 1 /\ UNCHANGED <<user, remote>>

StartPass ==
  /\ syn["loop"].pc = "idle"
  /\ syn' = [syn EXCEPT !["loop"] = [Idle EXCEPT !.pc = "moves", !.todo = Due(pmove)]]
  /\ Quiet
  /\ UNCHANGED <<serverVars, mirrorVars, intentVars, removing>>

CarryDeletingFirst(u, kind, reached) ==
  /\ copies' = IF kind = "move" /\ reached = "all" /\ u \in DOMAIN srv
                 THEN [copies EXCEPT ![u] = @ + 1] ELSE copies
  /\ srv' = IF reached # "nothing" THEN Without(srv, {u}) ELSE srv

\* UID MOVE, or COPY, STORE \Deleted and EXPUNGE: the message leaves only after
\* it was copied.  A UID that is gone is not an error.
Carry(u, kind, reached) ==
  /\ copies' = IF kind = "move" /\ reached # "nothing" /\ u \in DOMAIN srv
                 THEN [copies EXCEPT ![u] = @ + 1] ELSE copies
  /\ srv' = IF reached = "all" THEN Without(srv, {u}) ELSE srv

MoveUpstream(u) ==
  /\ syn["loop"].pc = "moves" /\ u \in DOMAIN syn["loop"].todo
  /\ \E reached \in {"nothing", "copied", "all"}, ok \in BOOLEAN :
       /\ ok => reached = "all"
       /\ IF ok THEN Quiet ELSE Fault
       /\ Carry(u, syn["loop"].todo[u].kind, reached)
       /\ syn' = [syn EXCEPT !["loop"].pc = "moved", !["loop"].at = {u}, !["loop"].ok = ok]
  /\ UNCHANGED <<uidNext, mirrorVars, intentVars, removing>>

SameAny(rows, u)  == u \in DOMAIN rows
\* Completing and failing name the version that was listed.
Same(rows, u) == u \in DOMAIN rows /\ rows[u].ver = syn["loop"].todo[u].ver
Settled(rows) ==
  LET mine == {u \in syn["loop"].at : Same(rows, u)}
  IN IF syn["loop"].ok THEN Without(rows, mine)
     ELSE [u \in DOMAIN rows |-> IF u \in mine THEN [rows[u] EXCEPT !.late = TRUE] ELSE rows[u]]
Rest(p) == syn' = [syn EXCEPT !["loop"].pc = p, !["loop"].at = {},
                              !["loop"].todo = Without(@, syn["loop"].at)]

SettleMove ==
  /\ syn["loop"].pc = "moved"
  /\ pmove' = Settled(pmove)
  /\ Rest("moves") /\ Quiet
  /\ UNCHANGED <<serverVars, mirrorVars, pflag, stored, doomed, removing>>

ListFlags ==
  /\ syn["loop"].pc = "moves" /\ syn["loop"].todo = Empty
  /\ syn' = [syn EXCEPT !["loop"].pc = "flags", !["loop"].todo = Due(pflag)]
  /\ Quiet
  /\ UNCHANGED <<serverVars, mirrorVars, intentVars, removing>>

\* One STORE for all messages that are to get the same flag.
StoreFlags(b) ==
  LET group == {u \in DOMAIN syn["loop"].todo : syn["loop"].todo[u].seen = b} IN
  /\ syn["loop"].pc = "flags" /\ group # {}
  /\ \E reached \in BOOLEAN, ok \in BOOLEAN :
       /\ ok => reached
       /\ IF ok THEN Quiet ELSE Fault
       /\ IF reached
            THEN /\ srv' = [u \in DOMAIN srv |-> IF u \in group THEN b ELSE srv[u]]
                 /\ stored' = [u \in DOMAIN stored \cup (group \cap DOMAIN srv) |->
                                 IF u \in group \cap DOMAIN srv THEN b ELSE stored[u]]
            ELSE UNCHANGED <<srv, stored>>
       /\ syn' = [syn EXCEPT !["loop"].pc = "flagged", !["loop"].at = group, !["loop"].ok = ok]
  /\ UNCHANGED <<uidNext, copies, mirrorVars, pmove, pflag, doomed, removing>>

SettleFlags ==
  /\ syn["loop"].pc = "flagged"
  /\ pflag' = Settled(pflag)
  /\ Rest("flags") /\ Quiet
  /\ UNCHANGED <<serverVars, mirrorVars, pmove, stored, doomed, removing>>

\* The folder is listed; recording it resets its counts (UpsertFolder).
RecordFolder ==
  /\ syn["loop"].pc = "flags" /\ syn["loop"].todo = Empty
  /\ count' = 0
  /\ Goto("loop", IF synced THEN "select" ELSE "scan") /\ Quiet
  /\ UNCHANGED <<serverVars, msgs, tasks, synced, based, history, intentVars, removing>>

Flush == \/ StartPass \/ SettleMove \/ ListFlags \/ SettleFlags \/ RecordFolder
         \/ \E u \in Uids : MoveUpstream(u)
         \/ \E b \in BOOLEAN : StoreFlags(b)

-----------------------------------------------------------------------------
(* Fetching and storing.  A page is what the server had when it was fetched.*)

WantedByServer(page) == page
\* A message the user moved away stays away, a flag the user set stays set.
Kept(page) == DOMAIN page \ DOMAIN pmove
Wanted(page) == [u \in DOMAIN page |-> IF u \in DOMAIN pflag THEN pflag[u].seen ELSE page[u]]
Upserted(page) == [u \in DOMAIN msgs \cup Kept(page) |->
                     IF u \in Kept(page) THEN Wanted(page)[u] ELSE msgs[u]]

Fetched(a, S, p) == syn' = [syn EXCEPT ![a].pc = p, ![a].page = Restrict(srv, S)]
Looking == Quiet /\ UNCHANGED <<serverVars, mirrorVars, intentVars, removing>>

\* The first scan: newest page first, by position.  Its messages are history.
ScanPage ==
  LET l == syn["loop"] IN
  /\ l.pc = "scan"
  /\ IF Limit > 0 /\ l.cursor >= Limit THEN Goto("loop", "finish")
     ELSE LET S == Newest(DOMAIN srv, Batch, l.cursor)
          IN Fetched("loop", S, IF S = {} THEN "prune" ELSE "scanned")
  /\ Looking

StoreScanned ==
  LET l == syn["loop"] IN
  /\ l.pc = "scanned"
  /\ msgs' = Upserted(l.page)
  /\ history' = IF based THEN history ELSE history \cup Kept(l.page)
  /\ syn' = [syn EXCEPT !["loop"].pc = "bodies", !["loop"].cursor = @ + Cardinality(DOMAIN l.page),
                        !["loop"].seen = @ \cup DOMAIN l.page]
  /\ Quiet
  /\ UNCHANGED <<serverVars, tasks, count, synced, based, intentVars, removing>>

\* Later passes: what the server says of the folder, then what the mirror knows.
Select ==
  /\ syn["loop"].pc = "select"
  /\ syn' = [syn EXCEPT !["loop"].pc = "local", !["loop"].next = uidNext,
                        !["loop"].total = Cardinality(DOMAIN srv), !["loop"].there = DOMAIN srv]
  /\ Looking

ReadLocal ==
  LET l == syn["loop"]
      last == Highest(DOMAIN msgs) IN
  /\ l.pc = "local"
  /\ syn' = [syn EXCEPT !["loop"].pc = IF l.total > 0 THEN "refresh" ELSE "pull",
                        !["loop"].cursor = last, !["loop"].fresh = count]
  /\ Looking

\* The flags of the newest messages; an error of the fetch is only logged.
FetchFlags ==
  /\ syn["loop"].pc = "refresh"
  /\ \/ Fetched("loop", Newest(DOMAIN srv, Window, 0), "refreshed") /\ Quiet
     \/ Fault /\ Goto("loop", "pull")
  /\ UNCHANGED <<serverVars, mirrorVars, intentVars, removing>>

SyncFlags ==
  LET page == syn["loop"].page IN
  /\ syn["loop"].pc = "refreshed"
  /\ msgs' = [u \in DOMAIN msgs |-> IF u \in DOMAIN page THEN Wanted(page)[u] ELSE msgs[u]]
  /\ Goto("loop", "pull") /\ Quiet
  /\ UNCHANGED <<serverVars, tasks, count, synced, based, history, intentVars, removing>>

\* What follows the last page.
After(a) == IF a = "now" THEN "finish" ELSE IF synced THEN "reconcile" ELSE "prune"
NothingNew(a) == a = "loop" /\ syn[a].cursor > 0 /\ syn[a].cursor >= syn[a].next - 1

Pull(a) ==
  LET S == Oldest({u \in DOMAIN srv : u > syn[a].cursor}, Batch) IN
  /\ syn[a].pc = "pull"
  /\ IF NothingNew(a) \/ S = {} THEN Goto(a, After(a)) ELSE Fetched(a, S, "pulled")
  /\ Looking

\* New mail is stored together with its tasks.
StoreIncoming(a) ==
  LET page == syn[a].page IN
  /\ syn[a].pc = "pulled"
  /\ msgs' = Upserted(page)
  /\ tasks' = tasks \cup Kept(page)
  /\ syn' = [syn EXCEPT ![a].pc = "bodies", ![a].fresh = @ + Cardinality(DOMAIN page)]
  /\ Quiet
  /\ UNCHANGED <<serverVars, count, synced, based, history, intentVars, removing>>

\* The bodies come with flags of their own; a body that fails is left out.
FetchBodies(a) ==
  /\ syn[a].pc = "bodies"
  /\ syn' = [syn EXCEPT ![a].pc = "bodied", ![a].at = DOMAIN syn[a].page,
                        ![a].page = Restrict(srv, DOMAIN syn[a].page \cap DOMAIN srv)]
  /\ Looking

StoreBodies(a) ==
  LET page == syn[a].at
      scan == a = "loop" /\ ~synced
      cursor == IF scan THEN syn[a].cursor ELSE Highest(page \cup {syn[a].cursor})
      last == Cardinality(page) < Batch IN
  /\ syn[a].pc = "bodied"
  /\ msgs' = Upserted(syn[a].page)
  /\ syn' = [syn EXCEPT ![a].pc = IF last THEN After(a) ELSE IF scan THEN "scan" ELSE "pull",
                        ![a].cursor = cursor, ![a].page = Empty, ![a].at = {}]
  /\ Quiet
  /\ UNCHANGED <<serverVars, tasks, count, synced, based, history, intentVars, removing>>

\* A prune only where the counts say that mail is missing upstream.
NeedsPrune == syn["loop"].total < syn["loop"].fresh

Reconcile ==
  /\ syn["loop"].pc = "reconcile"
  /\ IF NeedsPrune
       THEN syn' = [syn EXCEPT !["loop"].pc = "prune", !["loop"].seen = DOMAIN srv]
       ELSE Goto("loop", "finish")
  /\ Looking

Prune ==
  /\ syn["loop"].pc = "prune"
  /\ msgs' = Restrict(msgs, DOMAIN msgs \cap syn["loop"].seen)
  /\ Goto("loop", "finish") /\ Quiet
  /\ UNCHANGED <<serverVars, tasks, count, synced, based, history, intentVars, removing>>

\* Only a successful pass moves the baseline, and nothing takes it back.
MarkedAfresh(a, ok) == IF a = "loop" THEN ok ELSE synced
Marked(a, ok) == synced \/ (a = "loop" /\ ok)

\* The folder is counted; a complete pass of the loop sets the baseline.
Finish(a) ==
  /\ syn[a].pc = "finish"
  /\ count' = Cardinality(DOMAIN msgs)
  /\ synced' = Marked(a, TRUE) /\ based' = (based \/ a = "loop")
  /\ syn' = [syn EXCEPT ![a] = Idle]
  /\ Quiet
  /\ UNCHANGED <<serverVars, msgs, tasks, history, intentVars, removing>>

\* An error of any call ends the pass; the baseline stays what it was.
GiveUp(a) ==
  /\ syn[a].pc # "idle" /\ Fault
  /\ syn' = [syn EXCEPT ![a] = Idle]
  /\ synced' = Marked(a, FALSE)
  /\ UNCHANGED <<serverVars, msgs, tasks, count, based, history, intentVars, removing>>

Crash ==
  /\ Fault
  /\ \E a \in Syncers : syn[a].pc # "idle"
  /\ syn' = [a \in Syncers |-> Idle]
  /\ removing' = {}
  /\ UNCHANGED <<serverVars, mirrorVars, intentVars>>

\* The retry delay of the failed rows passes: it doubles, but never beyond 5 minutes.
DelayedForEver(rows) == rows
Delayed(rows) == [u \in DOMAIN rows |-> [rows[u] EXCEPT !.late = FALSE]]

Elapse ==
  /\ pmove' = Delayed(pmove) /\ pflag' = Delayed(pflag)
  /\ <<pmove', pflag'>> # <<pmove, pflag>>
  /\ Quiet
  /\ UNCHANGED <<serverVars, mirrorVars, stored, doomed, syn, removing>>

Fetching(a) == Pull(a) \/ StoreIncoming(a) \/ FetchBodies(a) \/ StoreBodies(a) \/ Finish(a)
Scanning == ScanPage \/ StoreScanned
Checking == \/ Select \/ ReadLocal \/ FetchFlags \/ SyncFlags \/ Reconcile \/ Prune

-----------------------------------------------------------------------------
(* The rest of the world.                                                  *)

Remote == remote < MaxRemote /\ remote' = remote + 1 /\ UNCHANGED <<user, faults>>

Arrive ==
  /\ Remote /\ uidNext \in Uids
  /\ srv' = Put(srv, uidNext, FALSE)
  /\ uidNext' = uidNext + 1
  /\ UNCHANGED <<copies, mirrorVars, intentVars, syn, removing>>

RemoteExpunge(u) ==
  /\ Remote /\ u \in DOMAIN srv
  /\ srv' = Without(srv, {u})
  /\ doomed' = doomed \cup {u}
  /\ UNCHANGED <<uidNext, copies, mirrorVars, pmove, pflag, stored, syn, removing>>

RemoteSeen(u) ==
  /\ Remote /\ u \in DOMAIN srv
  /\ srv' = [srv EXCEPT ![u] = ~@]
  /\ UNCHANGED <<uidNext, copies, mirrorVars, intentVars, syn, removing>>

World == Arrive \/ \E u \in Uids : RemoteExpunge(u) \/ RemoteSeen(u)

Loop == Flush \/ Scanning \/ Checking \/ Fetching("loop")
Next ==
  \/ Request \/ Loop \/ Fetching("now") \/ World \/ Crash \/ Elapse
  \/ \E a \in Syncers : GiveUp(a)
  \/ \E u \in Uids, k \in {"delete", "restore"} : RemoveLocally(u, k)

Spec == Init /\ [][Next]_vars
\* The loop runs on its ticker, and a retry delay passes.
FairSpec == Spec /\ WF_vars(Loop) /\ WF_vars(Elapse)

-----------------------------------------------------------------------------
(* Properties.                                                             *)

\* What the user did locally is not undone by a synchronization that has not
\* heard of it: while a flag is pending the mirror shows it, and a message whose
\* move is pending is not shown (upsertMessages, BatchSyncFlags).
IntentShown ==
  /\ \A u \in DOMAIN pflag \cap DOMAIN msgs : msgs[u] = pflag[u].seen
  /\ DOMAIN pmove \cap DOMAIN msgs = {}

\* Mail stored after the first scan has its background tasks, whatever pass,
\* error or race stored it (syncFolder's comment on the baseline).
NewMailHasTask == DOMAIN msgs \subseteq history \cup tasks

\* No mail is lost on the way to another folder: what left the folder was copied,
\* or somebody deleted it, whatever failed and however often it was tried again.
NoMailLost == \A u \in 1..uidNext - 1 : u \in DOMAIN srv \cup doomed \/ copies[u] > 0

\* A queued intent is dropped only when its newest version reached the server: a
\* late acknowledgement of an older one does not drop it (the version guards).
AckedIsDone ==
  [][/\ \A u \in DOMAIN pmove \ DOMAIN pmove' : u \notin DOMAIN srv'
     /\ \A u \in DOMAIN pflag \ DOMAIN pflag' :
          u \in DOMAIN srv => u \in DOMAIN stored /\ stored[u] = pflag[u].seen]_vars

\* Every queued intent is carried out, through errors, lost answers and restarts.
IntentDelivered ==
  \A u \in Uids : u \in DOMAIN pmove \cup DOMAIN pflag ~> u \notin DOMAIN pmove \cup DOMAIN pflag

\* "The mirror uses it during incremental sync to remove records for messages that
\* were deleted remotely" (FetchMessageUIDs): a complete pass leaves no message in
\* the mirror that was gone when the pass selected the folder.
DeletedIsRemoved ==
  [][syn["loop"].pc = "finish" /\ synced /\ synced' /\ syn'["loop"].pc = "idle" /\ Finish("loop")
       => \A u \in DOMAIN msgs' : u < syn["loop"].next => u \in syn["loop"].there]_vars

\* "A durable, idempotent request to reconcile one local flag with the upstream
\* IMAP mailbox" (PendingFlagUpdate): a flag is not acknowledged unless the server
\* stored it for the message, also when the user moved the message as well.
FlagReached ==
  [][\A u \in DOMAIN pflag \ (DOMAIN pflag' \cup doomed) :
       u \in DOMAIN stored /\ stored[u] = pflag[u].seen]_vars

\* Local intents are shown, mail is neither lost nor left without its tasks.
MirrorIsSound == IntentShown /\ NewMailHasTask /\ NoMailLost

\* An intent is kept until the server has it, and the server has it in the end.
IntentIsKept == AckedIsDone /\ IntentDelivered
=============================================================================
