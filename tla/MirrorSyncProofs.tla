---------------------------- MODULE MirrorSyncProofs ----------------------------
(* The safety of the mirror of a folder: the inductive invariant of MirrorSync,  *)
(* for any number of messages, any batch and window, and any number of requests, *)
(* steps of others and faults.                                                   *)
EXTENDS MirrorSync, TLAPS, FiniteSetTheorems

-----------------------------------------------------------------------------
(* The invariant *)

\* The messages the server has had, and those stored with their tasks or before the baseline.
Known == 1..uidNext - 1
Announced == history \cup tasks

\* What a pass knows of the moves it carries out: those listed for good were deleted by the user,
\* and one that was carried out left the folder.
MovesListed(l) ==
  /\ PartialIn(l.todo, Uids, Moves) /\ DOMAIN l.todo \subseteq Known
  /\ \A u \in DOMAIN l.todo : l.todo[u].kind = "delete" => u \in doomed
  /\ l.pc = "moves" => l.at = {}
  /\ l.pc = "moved" /\ l.ok => \A u \in l.at : u \in Known /\ u \notin DOMAIN srv

\* What it knows of the flags: a row it listed is still there, as it was or newer, and one that was
\* acknowledged has been stored.
FlagsListed(l) ==
  /\ \A u \in DOMAIN l.todo : /\ u \in DOMAIN pflag /\ l.todo[u].ver \in Nat
                              /\ \/ pflag[u].ver > l.todo[u].ver
                                 \/ pflag[u].ver = l.todo[u].ver /\ pflag[u].seen = l.todo[u].seen
  /\ l.at \subseteq DOMAIN l.todo
  /\ l.pc = "flagged" /\ l.ok => \A u \in l.at \cap DOMAIN srv : u \in DOMAIN stored /\ stored[u] = l.todo[u].seen

SyncerTyped(l) ==
  /\ DOMAIN l = {"pc", "todo", "at", "ok", "page", "cursor", "seen", "fresh", "next", "total", "there"}
  /\ l.pc \in Steps /\ l.ok \in BOOLEAN
  /\ PartialIn(l.page, Uids, BOOLEAN)
  /\ l.seen \in SUBSET Uids /\ l.at \in SUBSET Uids
  /\ DOMAIN l.todo \subseteq Uids

\* A synchronizer holds pages of mail that was there; when it stores their bodies the messages have
\* been stored, with their tasks or as history; and it scans only what has no baseline.
SyncerIsSound(a) ==
  /\ SyncerTyped(syn[a])
  /\ DOMAIN syn[a].page \subseteq Known
  /\ syn[a].pc \in {"bodies", "bodied"} => DOMAIN syn[a].page \subseteq Announced
  /\ a = "loop" /\ syn[a].pc \in {"scan", "scanned"} => ~synced
  /\ a = "loop" /\ syn[a].pc \in {"moves", "moved"} => MovesListed(syn[a])
  /\ a = "loop" /\ syn[a].pc \in {"flags", "flagged"} => FlagsListed(syn[a])

\* The rows are of mail the server has had; a move is queued only for mail that was stored, and for
\* good only if the user said so; the observer of the baseline is the baseline.
RowsAreKnown ==
  /\ DOMAIN srv \subseteq Known /\ DOMAIN msgs \subseteq Known
  /\ DOMAIN pmove \subseteq Known /\ DOMAIN pflag \subseteq Known
  /\ DOMAIN pmove \subseteq Announced
  /\ \A u \in DOMAIN pmove : pmove[u].kind = "delete" => u \in doomed
  /\ based = synced

MirrorInv ==
  /\ TypeOK /\ IntentShown /\ NewMailHasTask /\ NoMailLost /\ RowsAreKnown
  /\ DOMAIN syn = Syncers
  /\ \A a \in Syncers : SyncerIsSound(a)

-----------------------------------------------------------------------------
(* Tables *)

LEMMA PartialForm ==
  ASSUME NEW f, NEW S, NEW T
  PROVE  PartialIn(f, S, T) <=> /\ DOMAIN f \subseteq S /\ f = [x \in DOMAIN f |-> f[x]]
                                /\ \A x \in DOMAIN f : f[x] \in T
BY DEF PartialIn

LEMMA PutForm ==
  ASSUME NEW rows, NEW T, PartialIn(rows, Uids, T), NEW u \in Uids, NEW r \in T
  PROVE  /\ PartialIn(Put(rows, u, r), Uids, T)
         /\ DOMAIN Put(rows, u, r) = DOMAIN rows \cup {u} /\ Put(rows, u, r)[u] = r
         /\ \A v \in DOMAIN rows : v # u => Put(rows, u, r)[v] = rows[v]
BY DEF PartialIn, Put

LEMMA WithoutForm ==
  ASSUME NEW f, NEW T, PartialIn(f, Uids, T), NEW S
  PROVE  /\ PartialIn(Without(f, S), Uids, T)
         /\ DOMAIN Without(f, S) = DOMAIN f \ S
         /\ \A v \in DOMAIN f \ S : Without(f, S)[v] = f[v]
BY DEF PartialIn, Without, Restrict

LEMMA RestrictForm ==
  ASSUME NEW f, NEW T, PartialIn(f, Uids, T), NEW S \in SUBSET DOMAIN f
  PROVE  /\ PartialIn(Restrict(f, S), Uids, T)
         /\ DOMAIN Restrict(f, S) = S
         /\ \A v \in S : Restrict(f, S)[v] = f[v]
BY DEF PartialIn, Restrict

\* A table of the folder is finite, and so is its count.
LEMMA CountForm ==
  ASSUME NEW S \in SUBSET Uids
  PROVE  Cardinality(S) \in Nat
<1>1. Last \in Nat
  BY MirrorAssumption DEF MirrorAssumption
<1>2. IsFiniteSet(Uids)
  BY <1>1, FS_Interval DEF Uids
<1>3. QED
  BY <1>2, FS_Subset, FS_CardinalityType

\* A page is stored except for what the user moved, with the flags the user set.
LEMMA UpsertedForm ==
  ASSUME TypeOK, NEW page, PartialIn(page, Uids, BOOLEAN)
  PROVE  /\ PartialIn(Upserted(page), Uids, BOOLEAN)
         /\ DOMAIN Upserted(page) = DOMAIN msgs \cup Kept(page)
         /\ Kept(page) = DOMAIN page \ DOMAIN pmove
         /\ \A u \in Kept(page) \cap DOMAIN pflag : Upserted(page)[u] = pflag[u].seen
         /\ \A u \in DOMAIN msgs \ Kept(page) : Upserted(page)[u] = msgs[u]
<1>1. PartialIn(msgs, Uids, BOOLEAN) /\ PartialIn(pflag, Uids, Flags)
  BY DEF TypeOK
<1>2. \A u \in DOMAIN pflag : pflag[u].seen \in BOOLEAN
  BY <1>1 DEF PartialIn, Flags
<1>3. \A u \in DOMAIN page : /\ Wanted(page)[u] \in BOOLEAN
                             /\ u \in DOMAIN pflag => Wanted(page)[u] = pflag[u].seen
  BY <1>2 DEF PartialIn, Wanted
<1>4. Kept(page) = DOMAIN page \ DOMAIN pmove
  BY DEF Kept
<1>5. \A u \in Kept(page) : u \in Uids /\ Wanted(page)[u] \in BOOLEAN
                            /\ (u \in DOMAIN pflag => Wanted(page)[u] = pflag[u].seen)
  BY <1>3, <1>4 DEF PartialIn
<1>6. QED
  BY <1>1, <1>4, <1>5 DEF Upserted, PartialIn

-----------------------------------------------------------------------------
(* Synchronizers *)

Bounded == user \in 0..MaxUser /\ remote \in 0..MaxRemote /\ faults \in 0..MaxFaults

LEMMA BoundsKept ==
  ASSUME TypeOK, Quiet \/ Fault \/ User \/ Remote
  PROVE  Bounded'
BY MirrorAssumption DEF TypeOK, Quiet, Fault, User, Remote, Bounded, MirrorAssumption

\* The other synchronizer goes on where it is: rows of flags become newer at most, and what left the
\* folder stays away.
LEMMA SyncerKept ==
  ASSUME MirrorInv, NEW a \in Syncers, syn'[a] = syn[a],
         Known \subseteq Known', Announced \subseteq Announced',
         a = "loop" => /\ synced' = synced /\ doomed \subseteq doomed' /\ stored' = stored
                       /\ DOMAIN srv' \cap Known \subseteq DOMAIN srv
                       /\ \A u \in DOMAIN pflag : /\ u \in DOMAIN pflag' /\ pflag[u].ver \in Nat
                                                  /\ pflag'[u].ver \in Nat
                                                  /\ \/ pflag'[u].ver > pflag[u].ver
                                                     \/ pflag'[u].ver = pflag[u].ver /\ pflag'[u].seen = pflag[u].seen
  PROVE  SyncerIsSound(a)'
<1>1. SyncerIsSound(a) /\ DOMAIN pflag \subseteq Known
  BY DEF MirrorInv, RowsAreKnown
<1>2. PICK l : l = syn[a]
  OBVIOUS
<1>3. SyncerTyped(l)' /\ DOMAIN l.page \subseteq Known' /\ (l.pc \in {"bodies", "bodied"} => DOMAIN l.page \subseteq Announced')
  BY <1>1, <1>2 DEF SyncerIsSound, SyncerTyped
<1>4. a = "loop" /\ l.pc \in {"moves", "moved"} => MovesListed(l)'
  BY <1>1, <1>2 DEF SyncerIsSound, MovesListed
<1>5. ASSUME a = "loop", l.pc \in {"flags", "flagged"} PROVE FlagsListed(l)'
  <2>1. FlagsListed(l)
    BY <1>1, <1>2, <1>5 DEF SyncerIsSound
  <2>2. ASSUME NEW u \in DOMAIN l.todo
        PROVE  /\ u \in DOMAIN pflag' /\ l.todo[u].ver \in Nat
               /\ \/ pflag'[u].ver > l.todo[u].ver
                  \/ pflag'[u].ver = l.todo[u].ver /\ pflag'[u].seen = l.todo[u].seen
    <3>1. u \in DOMAIN pflag /\ l.todo[u].ver \in Nat
      BY <2>1 DEF FlagsListed
    <3>2. PICK x \in Nat, y \in Nat, z \in Nat : x = l.todo[u].ver /\ y = pflag[u].ver /\ z = pflag'[u].ver
      BY <1>5, <3>1
    <3>3. y > x \/ (y = x /\ pflag[u].seen = l.todo[u].seen)
      BY <2>1, <3>2 DEF FlagsListed
    <3>4. z > y \/ (z = y /\ pflag'[u].seen = pflag[u].seen)
      BY <1>5, <3>1, <3>2
    <3>5. z > x \/ (z = x /\ pflag'[u].seen = l.todo[u].seen)
      BY <3>3, <3>4
    <3>6. QED
      BY <1>5, <3>1, <3>2, <3>5
  <2>3. l.at \subseteq Known /\ l.at \subseteq DOMAIN l.todo
    BY <1>1, <2>1 DEF FlagsListed
  <2>4. l.at \cap DOMAIN srv' \subseteq l.at \cap DOMAIN srv
    BY <1>5, <2>3
  <2>5. QED
    BY <1>5, <2>1, <2>2, <2>3, <2>4 DEF FlagsListed
<1>6. a = "loop" /\ l.pc \in {"scan", "scanned"} => ~synced'
  BY <1>1, <1>2 DEF SyncerIsSound
<1>7. syn'[a] = l
  BY <1>2
<1>8. QED
  BY <1>3, <1>4, <1>5, <1>6, <1>7 DEF SyncerIsSound

\* A synchronizer between two passes.
LEMMA IdleSound ==
  ASSUME NEW a \in Syncers, syn'[a] = Idle
  PROVE  SyncerIsSound(a)'
<1>1. /\ Idle.pc = "idle" /\ Idle.todo = Empty /\ Idle.at = {} /\ Idle.ok = TRUE /\ Idle.page = Empty /\ Idle.seen = {}
      /\ DOMAIN Idle = {"pc", "todo", "at", "ok", "page", "cursor", "seen", "fresh", "next", "total", "there"}
  BY DEF Idle
<1>2. DOMAIN Empty = {} /\ PartialIn(Empty, Uids, BOOLEAN)
  BY DEF Empty, PartialIn
<1>3. SyncerTyped(Idle)
  BY <1>1, <1>2 DEF SyncerTyped, Steps
<1>4. QED
  BY <1>1, <1>2, <1>3 DEF SyncerIsSound, SyncerTyped

\* What a step does that leaves the server and the intents alone.
LEMMA MirrorChanges ==
  ASSUME MirrorInv, UNCHANGED <<serverVars, intentVars>>,
         Bounded', removing' \in SUBSET (Uids \X {"delete", "restore"}),
         PartialIn(msgs', Uids, BOOLEAN), count' \in Nat, synced' \in BOOLEAN, based' = synced',
         tasks' \in SUBSET Uids, history' \in SUBSET Uids, Announced \subseteq Announced',
         DOMAIN msgs' \subseteq Announced', DOMAIN msgs' \subseteq Known,
         DOMAIN pmove \cap DOMAIN msgs' = {},
         \A u \in DOMAIN pflag \cap DOMAIN msgs' : msgs'[u] = pflag[u].seen,
         DOMAIN syn' = Syncers, \A a \in Syncers : SyncerIsSound(a)'
  PROVE  MirrorInv'
<1>1. UNCHANGED <<srv, uidNext, copies, pmove, pflag, stored, doomed>>
  BY DEF serverVars, intentVars
<1>2. TypeOK'
  BY <1>1 DEF MirrorInv, TypeOK, SyncerIsSound, SyncerTyped, Bounded
<1>3. RowsAreKnown'
  BY <1>1 DEF MirrorInv, RowsAreKnown, Known
<1>4. IntentShown' /\ NewMailHasTask' /\ NoMailLost'
  BY <1>1 DEF MirrorInv, IntentShown, NewMailHasTask, NoMailLost, Announced
<1>5. QED
  BY <1>2, <1>3, <1>4 DEF MirrorInv

\* One synchronizer looks at the server or at the mirror and takes a note.
LEMMA Looks ==
  ASSUME MirrorInv, NEW a \in Syncers, UNCHANGED <<serverVars, mirrorVars, intentVars, removing>>, Bounded',
         DOMAIN syn' = Syncers, \A b \in Syncers \ {a} : syn'[b] = syn[b], SyncerIsSound(a)'
  PROVE  MirrorInv'
<1>1. UNCHANGED <<srv, uidNext, msgs, tasks, count, synced, based, history, pmove, pflag, stored, doomed, removing>>
  BY DEF serverVars, mirrorVars, intentVars
<1>2. /\ Known' = Known /\ Announced' = Announced
      /\ \A u \in DOMAIN pflag : pflag[u].ver \in Nat
  BY <1>1 DEF Known, Announced, MirrorInv, TypeOK, PartialIn, Flags
<1>3. ASSUME NEW b \in Syncers PROVE SyncerIsSound(b)'
  <2>1. CASE b = a
    BY <2>1
  <2>2. CASE b # a
    BY <1>1, <1>2, <2>2, SyncerKept
  <2>3. QED
    BY <2>1, <2>2
<1>4. QED
  BY <1>1, <1>2, <1>3, MirrorChanges DEF MirrorInv, TypeOK, RowsAreKnown, IntentShown, NewMailHasTask, Announced

\* The same for one that stores what it has.
LEMMA Stores ==
  ASSUME MirrorInv, NEW a \in Syncers, UNCHANGED <<serverVars, intentVars, removing>>, Bounded',
         PartialIn(msgs', Uids, BOOLEAN), count' \in Nat, UNCHANGED <<synced, based>>,
         tasks' \in SUBSET Uids, history' \in SUBSET Uids, Announced \subseteq Announced',
         DOMAIN msgs' \subseteq Announced', DOMAIN msgs' \subseteq Known,
         DOMAIN pmove \cap DOMAIN msgs' = {},
         \A u \in DOMAIN pflag \cap DOMAIN msgs' : msgs'[u] = pflag[u].seen,
         DOMAIN syn' = Syncers, \A b \in Syncers \ {a} : syn'[b] = syn[b], SyncerIsSound(a)'
  PROVE  MirrorInv'
<1>1. UNCHANGED <<srv, uidNext, pmove, pflag, stored, doomed, removing>>
  BY DEF serverVars, intentVars
<1>2. /\ Known' = Known
      /\ \A u \in DOMAIN pflag : pflag[u].ver \in Nat
  BY <1>1 DEF Known, MirrorInv, TypeOK, PartialIn, Flags
<1>3. ASSUME NEW b \in Syncers PROVE SyncerIsSound(b)'
  <2>1. CASE b = a
    BY <2>1
  <2>2. CASE b # a
    BY <1>1, <1>2, <2>2, SyncerKept
  <2>3. QED
    BY <2>1, <2>2
<1>4. QED
  BY <1>1, <1>2, <1>3, MirrorChanges DEF MirrorInv, TypeOK, RowsAreKnown

\* A note of one synchronizer: which fields of its record change.
Notes(a, S) ==
  /\ DOMAIN syn' = Syncers /\ \A b \in Syncers \ {a} : syn'[b] = syn[b]
  /\ DOMAIN syn'[a] = DOMAIN syn[a]
  /\ \A x \in DOMAIN syn[a] \ S : syn'[a][x] = syn[a][x]

LEMMA GotoForm ==
  ASSUME MirrorInv, NEW a \in Syncers, NEW p, Goto(a, p)
  PROVE  Notes(a, {"pc"}) /\ syn'[a].pc = p
BY DEF Goto, Notes, MirrorInv, SyncerIsSound, SyncerTyped

-----------------------------------------------------------------------------
(* The loop tells the server what the user did *)

LEMMA IdleForm ==
  /\ Idle.pc = "idle" /\ Idle.todo = Empty /\ Idle.at = {} /\ Idle.ok = TRUE /\ Idle.page = Empty /\ Idle.seen = {}
  /\ DOMAIN Idle = {"pc", "todo", "at", "ok", "page", "cursor", "seen", "fresh", "next", "total", "there"}
  /\ DOMAIN Empty = {} /\ PartialIn(Empty, Uids, BOOLEAN)
BY DEF Idle, Empty, PartialIn

LEMMA DueForm ==
  ASSUME NEW rows, NEW T, PartialIn(rows, Uids, T)
  PROVE  /\ PartialIn(Due(rows), Uids, T) /\ DOMAIN Due(rows) \subseteq DOMAIN rows
         /\ \A u \in DOMAIN Due(rows) : Due(rows)[u] = rows[u]
BY DEF Due, Restrict, PartialIn

\* The two tables of intents.
LEMMA Intents ==
  ASSUME TypeOK
  PROVE  /\ PartialIn(pmove, Uids, Moves) /\ PartialIn(pflag, Uids, Flags)
         /\ \A u \in DOMAIN pmove : u \in Uids /\ pmove[u] \in Moves /\ pmove[u].ver \in Nat
         /\ \A u \in DOMAIN pflag : u \in Uids /\ pflag[u] \in Flags /\ pflag[u].ver \in Nat /\ pflag[u].seen \in BOOLEAN
BY DEF TypeOK, PartialIn, Moves, Flags

LEMMA StartPassStep ==
  ASSUME MirrorInv, StartPass
  PROVE  MirrorInv'
<1>1. PICK due : due = Due(pmove)
  OBVIOUS
<1>2. PICK l : l = [Idle EXCEPT !.pc = "moves", !.todo = due]
  OBVIOUS
<1>3. /\ DOMAIN syn' = Syncers /\ syn'["loop"] = l /\ "loop" \in Syncers
      /\ \A b \in Syncers \ {"loop"} : syn'[b] = syn[b]
      /\ UNCHANGED <<serverVars, mirrorVars, intentVars, removing>>
  BY <1>1, <1>2 DEF StartPass, MirrorInv, Syncers
<1>4. /\ l.pc = "moves" /\ l.todo = due /\ l.at = {} /\ l.ok = TRUE /\ l.page = Empty /\ l.seen = {} /\ DOMAIN l = DOMAIN Idle
  BY <1>2, IdleForm
<1>5. /\ PartialIn(due, Uids, Moves) /\ DOMAIN due \subseteq DOMAIN pmove /\ \A u \in DOMAIN due : due[u] = pmove[u]
  BY <1>1, DueForm, Intents DEF MirrorInv
<1>6. SyncerTyped(l)
  BY <1>4, <1>5, IdleForm DEF SyncerTyped, Steps, PartialIn
<1>7. MovesListed(l)
  BY <1>4, <1>5 DEF MovesListed, MirrorInv, RowsAreKnown
<1>8. SyncerIsSound("loop")'
  <2>1. MovesListed(l)'
    BY <1>3, <1>7 DEF MovesListed, Known, serverVars, intentVars
  <2>2. QED
    BY <1>3, <1>4, <1>6, <2>1, IdleForm DEF SyncerIsSound, SyncerTyped
<1>9. Bounded'
  BY BoundsKept DEF MirrorInv, StartPass
<1>10. QED
  BY <1>3, <1>8, <1>9, Looks

\* A row that is settled goes if it was carried out and is still the one that was listed; otherwise it
\* stays, put off at most.
LEMMA SettledForm ==
  ASSUME NEW rows, NEW T, PartialIn(rows, Uids, T), \A r \in T : [r EXCEPT !.late = TRUE] \in T,
         syn["loop"].ok \in BOOLEAN
  PROVE  /\ PartialIn(Settled(rows), Uids, T) /\ DOMAIN Settled(rows) \subseteq DOMAIN rows
         /\ \A u \in DOMAIN Settled(rows) : Settled(rows)[u] \in {rows[u], [rows[u] EXCEPT !.late = TRUE]}
         /\ \A u \in DOMAIN rows \ DOMAIN Settled(rows) : syn["loop"].ok /\ u \in syn["loop"].at /\ Same(rows, u)
<1> DEFINE mine == {u \in syn["loop"].at : Same(rows, u)}
<1>1. CASE syn["loop"].ok
  <2>1. Settled(rows) = Without(rows, mine)
    BY <1>1 DEF Settled
  <2>2. /\ PartialIn(Settled(rows), Uids, T)
        /\ DOMAIN Settled(rows) = DOMAIN rows \ mine
        /\ \A v \in DOMAIN rows \ mine : Settled(rows)[v] = rows[v]
    <3> HIDE DEF mine
    <3>1. QED
      BY <2>1, WithoutForm
  <2>3. \A u \in DOMAIN rows \ DOMAIN Settled(rows) : u \in mine
    BY <2>2
  <2>4. QED
    BY <1>1, <2>2, <2>3
<1>2. CASE ~syn["loop"].ok
  <2>1. Settled(rows) = [u \in DOMAIN rows |-> IF u \in mine THEN [rows[u] EXCEPT !.late = TRUE] ELSE rows[u]]
    BY <1>2 DEF Settled
  <2>2. \A u \in DOMAIN rows : rows[u] \in T
    BY DEF PartialIn
  <2>3. QED
    BY <2>1, <2>2 DEF PartialIn
<1>3. QED
  BY <1>1, <1>2

LEMMA LateRows ==
  /\ \A r \in Moves, b \in BOOLEAN : /\ [r EXCEPT !.late = b] \in Moves
                                     /\ [r EXCEPT !.late = b].ver = r.ver /\ [r EXCEPT !.late = b].kind = r.kind
  /\ \A r \in Flags, b \in BOOLEAN : /\ [r EXCEPT !.late = b] \in Flags
                                     /\ [r EXCEPT !.late = b].ver = r.ver /\ [r EXCEPT !.late = b].seen = r.seen
BY DEF Moves, Flags

LEMMA RestForm ==
  ASSUME MirrorInv, NEW p, Rest(p)
  PROVE  /\ Notes("loop", {"pc", "at", "todo"}) /\ "loop" \in Syncers
         /\ syn'["loop"].pc = p /\ syn'["loop"].at = {}
         /\ syn'["loop"].todo = Without(syn["loop"].todo, syn["loop"].at)
BY DEF Rest, Notes, MirrorInv, SyncerIsSound, SyncerTyped, Syncers

LEMMA SettleMoveStep ==
  ASSUME MirrorInv, SettleMove
  PROVE  MirrorInv'
<1> DEFINE l == syn["loop"]
<1>0. /\ TypeOK /\ "loop" \in Syncers /\ SyncerTyped(l) /\ l.pc = "moved" /\ MovesListed(l)
      /\ DOMAIN l.page \subseteq Known /\ l.ok \in BOOLEAN
      /\ UNCHANGED <<serverVars, mirrorVars, pflag, stored, doomed, removing>> /\ Bounded'
  BY BoundsKept DEF MirrorInv, SettleMove, Syncers, SyncerIsSound, SyncerTyped
<1>1. /\ PartialIn(pmove', Uids, Moves) /\ DOMAIN pmove' \subseteq DOMAIN pmove
      /\ \A u \in DOMAIN pmove' : pmove'[u].kind = pmove[u].kind
  <2>1. pmove' = Settled(pmove)
    BY DEF SettleMove
  <2>2. /\ PartialIn(pmove', Uids, Moves) /\ DOMAIN pmove' \subseteq DOMAIN pmove
        /\ \A u \in DOMAIN pmove' : pmove'[u] \in {pmove[u], [pmove[u] EXCEPT !.late = TRUE]}
    BY <1>0, <2>1, SettledForm, Intents, LateRows
  <2>3. QED
    BY <1>0, <2>2, Intents, LateRows
<1>2. /\ Notes("loop", {"pc", "at", "todo"}) /\ syn'["loop"].pc = "moves" /\ syn'["loop"].at = {}
      /\ syn'["loop"].todo = Without(l.todo, l.at)
  BY RestForm DEF SettleMove
<1>3. PICK left : left = Without(l.todo, l.at)
  OBVIOUS
<1>4. /\ PartialIn(left, Uids, Moves) /\ DOMAIN left \subseteq DOMAIN l.todo
      /\ \A u \in DOMAIN left : left[u] = l.todo[u]
  <2>1. PICK todo, at : todo = l.todo /\ at = l.at
    OBVIOUS
  <2>2. PartialIn(todo, Uids, Moves)
    BY <1>0, <2>1 DEF MovesListed
  <2>3. left = Without(todo, at)
    BY <1>3, <2>1
  <2>4. /\ PartialIn(left, Uids, Moves) /\ DOMAIN left = DOMAIN todo \ at
        /\ \A v \in DOMAIN todo \ at : left[v] = todo[v]
    BY <2>2, <2>3, WithoutForm
  <2>5. QED
    BY <2>1, <2>4
<1>5. SyncerTyped(syn'["loop"])
  BY <1>0, <1>2, <1>3, <1>4 DEF SyncerTyped, Notes, Steps
<1>6. SyncerIsSound("loop")'
  <2>1. MovesListed(syn["loop"])'
    BY <1>0, <1>2, <1>3, <1>4 DEF MovesListed, Known, serverVars
  <2>2. syn'["loop"].page = l.page
    BY <1>0, <1>2 DEF Notes, SyncerTyped
  <2>3. QED
    BY <1>0, <1>2, <1>5, <2>1, <2>2 DEF SyncerIsSound, SyncerTyped, Known, serverVars
<1>7. UNCHANGED <<srv, uidNext, copies, msgs, tasks, count, synced, based, history>>
  BY <1>0 DEF serverVars, mirrorVars
<1>8. ASSUME NEW b \in Syncers PROVE SyncerIsSound(b)'
  BY <1>0, <1>2, <1>6, <1>7, SyncerKept, Intents DEF Notes, Known, Announced
<1>9. TypeOK'
  BY <1>0, <1>1, <1>7, <1>8 DEF TypeOK, SyncerIsSound, SyncerTyped, Bounded
<1>10. IntentShown' /\ NewMailHasTask' /\ NoMailLost' /\ RowsAreKnown'
  BY <1>0, <1>1, <1>7 DEF MirrorInv, IntentShown, NewMailHasTask, NoMailLost, RowsAreKnown, Known, Announced
<1>11. QED
  BY <1>2, <1>8, <1>9, <1>10 DEF MirrorInv, Notes

-----------------------------------------------------------------------------
(* What a step does to the server *)

LEMMA ServerChanges ==
  ASSUME MirrorInv, UNCHANGED <<mirrorVars, pmove, pflag>>, Bounded', DOMAIN syn' = Syncers,
         removing' \in SUBSET (Uids \X {"delete", "restore"}),
         PartialIn(srv', Uids, BOOLEAN), uidNext' \in 1..Last + 1, Known \subseteq Known', DOMAIN srv' \subseteq Known',
         copies' \in [Uids -> Nat], doomed \subseteq doomed', doomed' \in SUBSET Uids, PartialIn(stored', Uids, BOOLEAN),
         \A v \in Known : v \in DOMAIN srv' \cup doomed' \/ copies'[v] > 0,
         Known' \ Known \subseteq DOMAIN srv',
         \A a \in Syncers : SyncerIsSound(a)'
  PROVE  MirrorInv'
<1>1. UNCHANGED <<msgs, tasks, count, synced, based, history, pmove, pflag>>
  BY DEF mirrorVars
<1>2. TypeOK'
  BY <1>1 DEF MirrorInv, TypeOK, SyncerIsSound, SyncerTyped, Bounded
<1>3. RowsAreKnown'
  BY <1>1 DEF MirrorInv, RowsAreKnown, Announced
<1>4. IntentShown' /\ NewMailHasTask'
  BY <1>1 DEF MirrorInv, IntentShown, NewMailHasTask
<1>5. NoMailLost'
  BY DEF NoMailLost, Known
<1>6. QED
  BY <1>2, <1>3, <1>4, <1>5 DEF MirrorInv

\* The loop at work on the moves, and on the flags.
LEMMA LoopForm ==
  ASSUME MirrorInv
  PROVE  /\ TypeOK /\ "loop" \in Syncers /\ SyncerTyped(syn["loop"]) /\ syn["loop"].ok \in BOOLEAN
         /\ DOMAIN syn["loop"].page \subseteq Known
         /\ syn["loop"].pc \in {"moves", "moved"} => MovesListed(syn["loop"])
         /\ syn["loop"].pc \in {"flags", "flagged"} => FlagsListed(syn["loop"])
BY DEF MirrorInv, Syncers, SyncerIsSound, SyncerTyped

\* What the loop notes while it tells the server what the user did leaves its page alone.
LEMMA TellingSound ==
  ASSUME MirrorInv, Notes("loop", {"pc", "at", "todo", "ok"}), Known \subseteq Known',
         syn'["loop"].pc \in {"moves", "moved", "flags", "flagged"},
         syn'["loop"].at \in SUBSET Uids, syn'["loop"].ok \in BOOLEAN, DOMAIN syn'["loop"].todo \subseteq Uids,
         syn'["loop"].pc \in {"moves", "moved"} => MovesListed(syn["loop"])',
         syn'["loop"].pc \in {"flags", "flagged"} => FlagsListed(syn["loop"])'
  PROVE  SyncerIsSound("loop")'
<1>1. /\ SyncerTyped(syn["loop"]) /\ DOMAIN syn["loop"].page \subseteq Known
  BY LoopForm
<1>2. /\ syn'["loop"].page = syn["loop"].page /\ syn'["loop"].seen = syn["loop"].seen
      /\ DOMAIN syn'["loop"] = DOMAIN syn["loop"]
  BY <1>1 DEF Notes, SyncerTyped
<1>3. SyncerTyped(syn'["loop"])
  BY <1>1, <1>2 DEF SyncerTyped, Steps
<1>4. QED
  BY <1>1, <1>2, <1>3 DEF SyncerIsSound, SyncerTyped

LEMMA MoveUpstreamStep ==
  ASSUME MirrorInv, NEW u \in Uids, MoveUpstream(u)
  PROVE  MirrorInv'
<1> DEFINE l == syn["loop"]
<1>0. /\ TypeOK /\ "loop" \in Syncers /\ SyncerTyped(l) /\ l.pc = "moves" /\ MovesListed(l) /\ u \in DOMAIN l.todo
      /\ UNCHANGED <<uidNext, mirrorVars, intentVars, removing>>
  BY LoopForm DEF MoveUpstream
<1>1. PICK reached \in {"nothing", "copied", "all"}, ok \in BOOLEAN :
        /\ ok => reached = "all"
        /\ Quiet \/ Fault
        /\ Carry(u, l.todo[u].kind, reached)
        /\ syn' = [syn EXCEPT !["loop"].pc = "moved", !["loop"].at = {u}, !["loop"].ok = ok]
  BY DEF MoveUpstream
<1>2. /\ Notes("loop", {"pc", "at", "todo", "ok"}) /\ syn'["loop"].pc = "moved" /\ syn'["loop"].at = {u}
      /\ syn'["loop"].todo = l.todo /\ syn'["loop"].ok = ok
  BY <1>0, <1>1 DEF MirrorInv, Notes, SyncerTyped
<1>3. UNCHANGED <<uidNext, msgs, tasks, count, synced, based, history, pmove, pflag, stored, doomed, removing>> /\ Bounded'
  BY <1>0, <1>1, BoundsKept DEF mirrorVars, intentVars
<1>4. PICK k : k = l.todo[u].kind
  OBVIOUS
<1>5. k \in {"move", "delete"} /\ (k = "delete" => u \in doomed) /\ u \in Known
  BY <1>0, <1>4 DEF MovesListed, PartialIn, Moves
<1>6. /\ PartialIn(srv', Uids, BOOLEAN) /\ DOMAIN srv' \subseteq DOMAIN srv
      /\ DOMAIN srv \ DOMAIN srv' \subseteq {u} /\ (reached = "all" => u \notin DOMAIN srv')
      /\ u \in DOMAIN srv \ DOMAIN srv' => reached = "all"
  <2>1. PartialIn(srv, Uids, BOOLEAN)
    BY <1>0 DEF TypeOK
  <2>2. CASE reached = "all"
    <3>1. srv' = Without(srv, {u})
      BY <1>1, <2>2 DEF Carry
    <3>2. PartialIn(srv', Uids, BOOLEAN) /\ DOMAIN srv' = DOMAIN srv \ {u}
      BY <2>1, <3>1, WithoutForm
    <3>3. QED
      BY <2>2, <3>2
  <2>3. CASE reached # "all"
    BY <1>1, <2>1, <2>3 DEF Carry
  <2>4. QED
    BY <2>2, <2>3
<1>7. /\ copies' \in [Uids -> Nat] /\ \A v \in Uids : copies[v] > 0 => copies'[v] > 0
      /\ k = "move" /\ reached = "all" /\ u \in DOMAIN srv => copies'[u] > 0
  <2>1. copies \in [Uids -> Nat]
    BY <1>0 DEF TypeOK
  <2>2. CASE k = "move" /\ reached # "nothing" /\ u \in DOMAIN srv
    <3>1. copies' = [copies EXCEPT ![u] = @ + 1]
      BY <1>1, <1>4, <2>2 DEF Carry
    <3>2. QED
      BY <2>1, <3>1
  <2>3. CASE ~(k = "move" /\ reached # "nothing" /\ u \in DOMAIN srv)
    <3>1. copies' = copies
      BY <1>1, <1>4, <2>3 DEF Carry
    <3>2. QED
      BY <2>1, <2>3, <3>1
  <2>4. QED
    BY <2>2, <2>3
<1>8. SyncerIsSound("loop")'
  <2>1. MovesListed(syn["loop"])'
    BY <1>0, <1>1, <1>2, <1>3, <1>5, <1>6 DEF MovesListed, Known
  <2>2. DOMAIN l.todo \subseteq Uids
    BY <1>0 DEF SyncerTyped
  <2>3. QED
    BY <1>1, <1>2, <1>3, <2>1, <2>2, TellingSound DEF Known
<1>9. ASSUME NEW b \in Syncers PROVE SyncerIsSound(b)'
  BY <1>2, <1>3, <1>8, SyncerKept DEF Notes, Known, Announced
<1>10. \A v \in Known : v \in Uids /\ (v \in DOMAIN srv \cup doomed \/ copies[v] > 0)
  BY <1>0, MirrorAssumption DEF MirrorInv, NoMailLost, Known, TypeOK, Uids, MirrorAssumption
<1>11. \A v \in Known : v \in DOMAIN srv' \cup doomed' \/ copies'[v] > 0
  BY <1>3, <1>5, <1>6, <1>7, <1>10
<1>12. DOMAIN srv \subseteq Known /\ UNCHANGED <<mirrorVars, pmove, pflag>> /\ Known' = Known
  BY <1>0, <1>3 DEF MirrorInv, RowsAreKnown, Known
<1>13. QED
  BY <1>0, <1>2, <1>3, <1>6, <1>7, <1>9, <1>11, <1>12, ServerChanges DEF TypeOK, Notes

LEMMA ListFlagsStep ==
  ASSUME MirrorInv, ListFlags
  PROVE  MirrorInv'
<1> DEFINE l == syn["loop"]
<1>0. /\ TypeOK /\ "loop" \in Syncers /\ SyncerTyped(l) /\ l.pc = "moves" /\ MovesListed(l)
      /\ UNCHANGED <<serverVars, mirrorVars, intentVars, removing>> /\ Bounded'
  BY LoopForm, BoundsKept DEF ListFlags
<1>1. PICK due : due = Due(pflag)
  OBVIOUS
<1>2. /\ PartialIn(due, Uids, Flags) /\ DOMAIN due \subseteq DOMAIN pflag /\ \A u \in DOMAIN due : due[u] = pflag[u]
  BY <1>0, <1>1, DueForm, Intents
<1>3. /\ Notes("loop", {"pc", "at", "todo", "ok"}) /\ syn'["loop"].pc = "flags" /\ syn'["loop"].at = {}
      /\ syn'["loop"].todo = due /\ syn'["loop"].ok \in BOOLEAN
  BY <1>0, <1>1 DEF ListFlags, MirrorInv, Notes, SyncerTyped, MovesListed
<1>4. FlagsListed(syn["loop"])'
  <2>1. \A u \in DOMAIN due : u \in DOMAIN pflag /\ due[u] = pflag[u] /\ pflag[u].ver \in Nat
    BY <1>0, <1>2, Intents
  <2>2. pflag' = pflag
    BY <1>0 DEF intentVars
  <2>3. QED
    BY <1>3, <2>1, <2>2 DEF FlagsListed
<1>5. DOMAIN due \subseteq Uids
  BY <1>2 DEF PartialIn
<1>6. SyncerIsSound("loop")'
  BY <1>0, <1>3, <1>4, <1>5, TellingSound DEF Known, serverVars
<1>7. QED
  BY <1>0, <1>3, <1>6, Looks DEF Notes

LEMMA StoreFlagsStep ==
  ASSUME MirrorInv, NEW b \in BOOLEAN, StoreFlags(b)
  PROVE  MirrorInv'
<1> DEFINE l == syn["loop"]
<1>0. /\ TypeOK /\ "loop" \in Syncers /\ SyncerTyped(l) /\ l.pc = "flags" /\ FlagsListed(l)
      /\ UNCHANGED <<uidNext, copies, mirrorVars, pmove, pflag, doomed, removing>>
  BY LoopForm DEF StoreFlags
<1>1. PICK group : group = {u \in DOMAIN l.todo : l.todo[u].seen = b}
  OBVIOUS
<1>2. PICK reached \in BOOLEAN, ok \in BOOLEAN :
        /\ ok => reached
        /\ Quiet \/ Fault
        /\ IF reached
             THEN /\ srv' = [u \in DOMAIN srv |-> IF u \in group THEN b ELSE srv[u]]
                  /\ stored' = [u \in DOMAIN stored \cup (group \cap DOMAIN srv) |->
                                  IF u \in group \cap DOMAIN srv THEN b ELSE stored[u]]
             ELSE UNCHANGED <<srv, stored>>
        /\ syn' = [syn EXCEPT !["loop"].pc = "flagged", !["loop"].at = group, !["loop"].ok = ok]
  BY <1>1 DEF StoreFlags
<1>3. /\ Notes("loop", {"pc", "at", "todo", "ok"}) /\ syn'["loop"].pc = "flagged" /\ syn'["loop"].at = group
      /\ syn'["loop"].todo = l.todo /\ syn'["loop"].ok = ok
  BY <1>0, <1>2 DEF MirrorInv, Notes, SyncerTyped
<1>4. UNCHANGED <<uidNext, msgs, tasks, count, synced, based, history, pmove, pflag, doomed, removing, copies>> /\ Bounded'
  BY <1>0, <1>2, BoundsKept DEF mirrorVars
<1>5. DOMAIN l.todo \subseteq Uids /\ group \subseteq DOMAIN l.todo /\ \A u \in group : l.todo[u].seen = b
  BY <1>0, <1>1 DEF SyncerTyped
<1>6. PartialIn(srv, Uids, BOOLEAN) /\ PartialIn(stored, Uids, BOOLEAN)
  BY <1>0 DEF TypeOK
<1>7. /\ PartialIn(srv', Uids, BOOLEAN) /\ DOMAIN srv' = DOMAIN srv /\ PartialIn(stored', Uids, BOOLEAN)
      /\ reached => \A u \in group \cap DOMAIN srv : u \in DOMAIN stored' /\ stored'[u] = b
  BY <1>2, <1>5, <1>6 DEF PartialIn
<1>8. SyncerIsSound("loop")'
  <2>1. FlagsListed(syn["loop"])'
    <3>1. \A u \in DOMAIN l.todo : /\ u \in DOMAIN pflag' /\ l.todo[u].ver \in Nat
                                   /\ \/ pflag'[u].ver > l.todo[u].ver
                                      \/ pflag'[u].ver = l.todo[u].ver /\ pflag'[u].seen = l.todo[u].seen
      BY <1>0, <1>4 DEF FlagsListed
    <3>2. ok => \A u \in group \cap DOMAIN srv' : u \in DOMAIN stored' /\ stored'[u] = l.todo[u].seen
      BY <1>2, <1>5, <1>7
    <3>3. QED
      BY <1>3, <1>5, <3>1, <3>2 DEF FlagsListed
  <2>2. QED
    BY <1>3, <1>4, <1>5, <2>1, TellingSound DEF Known
<1>9. ASSUME NEW c \in Syncers PROVE SyncerIsSound(c)'
  BY <1>3, <1>4, <1>8, SyncerKept DEF Notes, Known, Announced
<1>10. /\ DOMAIN srv \subseteq Known /\ UNCHANGED <<mirrorVars, pmove, pflag>> /\ Known' = Known
       /\ \A v \in Known : v \in DOMAIN srv \cup doomed \/ copies[v] > 0
  BY <1>0, <1>4 DEF MirrorInv, RowsAreKnown, Known, NoMailLost
<1>11. QED
  BY <1>0, <1>3, <1>4, <1>7, <1>9, <1>10, ServerChanges DEF TypeOK, Notes

LEMMA SettleFlagsStep ==
  ASSUME MirrorInv, SettleFlags
  PROVE  MirrorInv'
<1> DEFINE l == syn["loop"]
<1>0. /\ TypeOK /\ "loop" \in Syncers /\ SyncerTyped(l) /\ l.pc = "flagged" /\ FlagsListed(l) /\ l.ok \in BOOLEAN
      /\ UNCHANGED <<serverVars, mirrorVars, pmove, stored, doomed, removing>> /\ Bounded'
  BY LoopForm, BoundsKept DEF SettleFlags
<1>1. /\ PartialIn(pflag', Uids, Flags) /\ DOMAIN pflag' \subseteq DOMAIN pflag
      /\ \A u \in DOMAIN pflag' : pflag'[u].ver = pflag[u].ver /\ pflag'[u].seen = pflag[u].seen
      /\ \A u \in DOMAIN pflag \ DOMAIN pflag' : u \in l.at
  <2>1. pflag' = Settled(pflag)
    BY DEF SettleFlags
  <2>2. /\ PartialIn(pflag', Uids, Flags) /\ DOMAIN pflag' \subseteq DOMAIN pflag
        /\ \A u \in DOMAIN pflag' : pflag'[u] \in {pflag[u], [pflag[u] EXCEPT !.late = TRUE]}
        /\ \A u \in DOMAIN pflag \ DOMAIN pflag' : u \in l.at
    BY <1>0, <2>1, SettledForm, Intents, LateRows
  <2>3. QED
    BY <1>0, <2>2, Intents, LateRows
<1>2. /\ Notes("loop", {"pc", "at", "todo"}) /\ syn'["loop"].pc = "flags" /\ syn'["loop"].at = {}
      /\ syn'["loop"].todo = Without(l.todo, l.at)
  BY RestForm DEF SettleFlags
<1>3. PICK left : left = Without(l.todo, l.at)
  OBVIOUS
<1>4. DOMAIN left = DOMAIN l.todo \ l.at /\ \A u \in DOMAIN left : left[u] = l.todo[u]
  BY <1>3 DEF Without, Restrict
<1>5. SyncerIsSound("loop")'
  <2>1. FlagsListed(syn["loop"])'
    BY <1>0, <1>1, <1>2, <1>3, <1>4 DEF FlagsListed
  <2>2. DOMAIN left \subseteq Uids
    BY <1>0, <1>4 DEF SyncerTyped
  <2>3. Notes("loop", {"pc", "at", "todo", "ok"}) /\ syn'["loop"].ok = l.ok
    BY <1>0, <1>2 DEF Notes, SyncerTyped
  <2>4. QED
    BY <1>0, <1>2, <1>3, <2>1, <2>2, <2>3, TellingSound DEF Known, serverVars
<1>6. UNCHANGED <<srv, uidNext, copies, msgs, tasks, count, synced, based, history>>
  BY <1>0 DEF serverVars, mirrorVars
<1>7. ASSUME NEW b \in Syncers PROVE SyncerIsSound(b)'
  <2>1. CASE b = "loop"
    BY <1>5, <2>1
  <2>2. CASE b # "loop"
    BY <1>0, <1>2, <1>6, <2>2, SyncerKept DEF Notes, Known, Announced
  <2>3. QED
    BY <2>1, <2>2
<1>8. TypeOK'
  BY <1>0, <1>1, <1>6, <1>7 DEF TypeOK, SyncerIsSound, SyncerTyped, Bounded
<1>9. IntentShown' /\ NewMailHasTask' /\ NoMailLost' /\ RowsAreKnown'
  BY <1>0, <1>1, <1>6 DEF MirrorInv, IntentShown, NewMailHasTask, NoMailLost, RowsAreKnown, Known, Announced
<1>10. QED
  BY <1>2, <1>7, <1>8, <1>9 DEF MirrorInv, Notes

-----------------------------------------------------------------------------
(* Fetching and storing *)

Telling == {"moves", "moved", "flags", "flagged"}

\* A synchronizer that fetches or stores: what it notes of itself keeps it sound.
LEMMA FetchSound ==
  ASSUME MirrorInv, NEW a \in Syncers, Notes(a, {"pc", "at", "page", "cursor", "seen", "fresh", "next", "total", "there"}),
         Known \subseteq Known', syn'[a].pc \in Steps \ Telling, PartialIn(syn'[a].page, Uids, BOOLEAN),
         DOMAIN syn'[a].page \subseteq Known,
         syn'[a].pc \in {"bodies", "bodied"} => DOMAIN syn'[a].page \subseteq Announced',
         a = "loop" /\ syn'[a].pc \in {"scan", "scanned"} => ~synced',
         syn'[a].seen \in SUBSET Uids, syn'[a].at \in SUBSET Uids
  PROVE  SyncerIsSound(a)'
<1>1. SyncerTyped(syn[a])
  BY DEF MirrorInv, SyncerIsSound
<1>2. /\ syn'[a].todo = syn[a].todo /\ syn'[a].ok = syn[a].ok
      /\ DOMAIN syn'[a] = DOMAIN syn[a]
  BY <1>1 DEF Notes, SyncerTyped
<1>3. SyncerTyped(syn'[a])
  BY <1>1, <1>2 DEF SyncerTyped
<1>4. QED
  BY <1>3 DEF SyncerIsSound, SyncerTyped, Telling

\* What is known of a synchronizer.
LEMMA FetchForm ==
  ASSUME MirrorInv, NEW a \in Syncers
  PROVE  /\ TypeOK /\ SyncerTyped(syn[a]) /\ DOMAIN syn[a].page \subseteq Known /\ PartialIn(syn[a].page, Uids, BOOLEAN)
         /\ syn[a].seen \in SUBSET Uids /\ syn[a].at \in SUBSET Uids
         /\ syn[a].pc \in {"bodies", "bodied"} => DOMAIN syn[a].page \subseteq Announced
         /\ a = "loop" /\ syn[a].pc \in {"scan", "scanned"} => ~synced
         /\ a = "now" \/ a = "loop"
BY DEF MirrorInv, SyncerIsSound, SyncerTyped, Syncers

\* A synchronizer that only goes on to another step.
LEMMA Goes ==
  ASSUME MirrorInv, NEW a \in Syncers, NEW p \in Steps \ (Telling \cup {"bodies", "bodied"}), Goto(a, p), Known \subseteq Known',
         a = "loop" /\ p \in {"scan", "scanned"} => ~synced'
  PROVE  SyncerIsSound(a)' /\ DOMAIN syn' = Syncers /\ \A b \in Syncers \ {a} : syn'[b] = syn[b]
<1>1. Notes(a, {"pc"}) /\ syn'[a].pc = p
  BY GotoForm
<1>2. SyncerTyped(syn[a]) /\ DOMAIN syn[a].page \subseteq Known
  BY FetchForm
<1>3. /\ Notes(a, {"pc", "at", "page", "cursor", "seen", "fresh", "next", "total", "there"})
      /\ syn'[a].page = syn[a].page /\ syn'[a].seen = syn[a].seen /\ syn'[a].at = syn[a].at
  BY <1>1, <1>2 DEF Notes, SyncerTyped
<1>4. QED
  BY <1>1, <1>2, <1>3, FetchSound DEF SyncerTyped, Notes

\* A page of the server is a page of mail that is there.
LEMMA FetchesOn ==
  ASSUME MirrorInv, NEW a \in Syncers, NEW S \in SUBSET DOMAIN srv, NEW p \in Steps \ (Telling \cup {"bodies", "bodied"}),
         Fetched(a, S, p), Known \subseteq Known',
         a = "loop" /\ p \in {"scan", "scanned"} => ~synced'
  PROVE  SyncerIsSound(a)' /\ DOMAIN syn' = Syncers /\ \A b \in Syncers \ {a} : syn'[b] = syn[b]
<1>1. SyncerTyped(syn[a]) /\ TypeOK
  BY FetchForm
<1>2. PICK page : page = Restrict(srv, S)
  OBVIOUS
<1>3. /\ Notes(a, {"pc", "at", "page", "cursor", "seen", "fresh", "next", "total", "there"})
      /\ syn'[a].pc = p /\ syn'[a].page = page /\ syn'[a].seen = syn[a].seen /\ syn'[a].at = syn[a].at
  BY <1>1, <1>2 DEF Fetched, Notes, SyncerTyped, MirrorInv
<1>4. PartialIn(srv, Uids, BOOLEAN) /\ DOMAIN srv \subseteq Known
  BY <1>1 DEF TypeOK, MirrorInv, RowsAreKnown
<1>5. PartialIn(page, Uids, BOOLEAN) /\ DOMAIN page = S
  BY <1>2, <1>4, RestrictForm
<1>6. QED
  BY <1>1, <1>3, <1>4, <1>5, FetchSound DEF SyncerTyped, Notes

LEMMA RecordFolderStep ==
  ASSUME MirrorInv, RecordFolder
  PROVE  MirrorInv'
<1>1. /\ "loop" \in Syncers /\ TypeOK /\ Bounded' /\ UNCHANGED <<serverVars, msgs, tasks, synced, based, history, intentVars, removing>>
      /\ count' = 0 /\ Known' = Known /\ Announced' = Announced
  BY LoopForm, BoundsKept DEF RecordFolder, Known, Announced, serverVars
<1>2. PICK p : p = IF synced THEN "select" ELSE "scan"
  OBVIOUS
<1>3. p \in Steps \ (Telling \cup {"bodies", "bodied"}) /\ Goto("loop", p) /\ (p \in {"scan", "scanned"} => ~synced')
  BY <1>1, <1>2 DEF RecordFolder, Steps, Telling
<1>4. /\ SyncerIsSound("loop")' /\ DOMAIN syn' = Syncers
      /\ \A b \in Syncers \ {"loop"} : syn'[b] = syn[b]
  BY <1>1, <1>3, Goes
<1>5. QED
  BY <1>1, <1>4, Stores DEF MirrorInv, TypeOK, RowsAreKnown, IntentShown, NewMailHasTask, Announced

\* A step that only looks.
LEMMA LooksOn ==
  ASSUME MirrorInv, NEW a \in Syncers, UNCHANGED <<serverVars, mirrorVars, intentVars, removing>>, Quiet \/ Fault,
         DOMAIN syn' = Syncers, \A b \in Syncers \ {a} : syn'[b] = syn[b], SyncerIsSound(a)'
  PROVE  MirrorInv'
BY Looks, BoundsKept DEF MirrorInv

LEMMA Same4 ==
  ASSUME UNCHANGED <<serverVars, mirrorVars, intentVars, removing>>
  PROVE  Known' = Known /\ Announced' = Announced /\ synced' = synced
BY DEF Known, Announced, serverVars, mirrorVars

\* The pages are of mail that is there.
LEMMA PagesForm ==
  ASSUME TypeOK, NEW n, NEW k
  PROVE  Newest(DOMAIN srv, n, k) \subseteq DOMAIN srv /\ \A S : Oldest(S, n) \subseteq S
BY DEF Newest, Oldest

LEMMA ScanPageStep ==
  ASSUME MirrorInv, ScanPage
  PROVE  MirrorInv'
<1> DEFINE l == syn["loop"]
<1>1. /\ "loop" \in Syncers /\ TypeOK /\ UNCHANGED <<serverVars, mirrorVars, intentVars, removing>> /\ Quiet
      /\ ~synced /\ Known' = Known /\ Announced' = Announced /\ synced' = synced
  BY FetchForm, LoopForm, Same4 DEF ScanPage, Looking
<1>2. CASE Goto("loop", "finish")
  BY <1>1, <1>2, Goes, LooksOn DEF Steps, Telling
<1>3. CASE ~Goto("loop", "finish")
  <2>1. PICK S : S = Newest(DOMAIN srv, Batch, l.cursor)
    OBVIOUS
  <2>2. PICK p : p = IF S = {} THEN "prune" ELSE "scanned"
    OBVIOUS
  <2>3. Fetched("loop", S, p)
    BY <1>3, <2>1, <2>2 DEF ScanPage
  <2>4. S \in SUBSET DOMAIN srv /\ p \in Steps \ (Telling \cup {"bodies", "bodied"})
    BY <1>1, <2>1, <2>2, PagesForm DEF Steps, Telling
  <2>5. QED
    BY <1>1, <2>3, <2>4, FetchesOn, LooksOn
<1>4. QED
  BY <1>2, <1>3

LEMMA SelectStep ==
  ASSUME MirrorInv, Select
  PROVE  MirrorInv'
<1>1. /\ "loop" \in Syncers /\ TypeOK /\ UNCHANGED <<serverVars, mirrorVars, intentVars, removing>> /\ Quiet
      /\ Known' = Known /\ Announced' = Announced /\ synced' = synced
      /\ SyncerTyped(syn["loop"]) /\ DOMAIN syn["loop"].page \subseteq Known
  BY FetchForm, LoopForm, Same4 DEF Select, Looking
<1>2. /\ Notes("loop", {"pc", "at", "page", "cursor", "seen", "fresh", "next", "total", "there"}) /\ syn'["loop"].pc = "local"
      /\ syn'["loop"].page = syn["loop"].page /\ syn'["loop"].seen = syn["loop"].seen /\ syn'["loop"].at = syn["loop"].at
  BY <1>1 DEF Select, Notes, MirrorInv, SyncerTyped
<1>3. SyncerIsSound("loop")'
  BY <1>1, <1>2, FetchSound DEF SyncerTyped, Steps, Telling
<1>4. QED
  BY <1>1, <1>2, <1>3, LooksOn DEF Notes

LEMMA ReadLocalStep ==
  ASSUME MirrorInv, ReadLocal
  PROVE  MirrorInv'
<1>1. /\ "loop" \in Syncers /\ TypeOK /\ UNCHANGED <<serverVars, mirrorVars, intentVars, removing>> /\ Quiet
      /\ Known' = Known /\ Announced' = Announced /\ synced' = synced
      /\ SyncerTyped(syn["loop"]) /\ DOMAIN syn["loop"].page \subseteq Known
  BY FetchForm, LoopForm, Same4 DEF ReadLocal, Looking
<1>2. /\ Notes("loop", {"pc", "at", "page", "cursor", "seen", "fresh", "next", "total", "there"})
      /\ syn'["loop"].pc \in {"refresh", "pull"}
      /\ syn'["loop"].page = syn["loop"].page /\ syn'["loop"].seen = syn["loop"].seen /\ syn'["loop"].at = syn["loop"].at
  BY <1>1 DEF ReadLocal, Notes, MirrorInv, SyncerTyped
<1>3. SyncerIsSound("loop")'
  BY <1>1, <1>2, FetchSound DEF SyncerTyped, Steps, Telling
<1>4. QED
  BY <1>1, <1>2, <1>3, LooksOn DEF Notes

LEMMA FetchFlagsStep ==
  ASSUME MirrorInv, FetchFlags
  PROVE  MirrorInv'
<1>1. /\ "loop" \in Syncers /\ TypeOK /\ UNCHANGED <<serverVars, mirrorVars, intentVars, removing>> /\ (Quiet \/ Fault)
      /\ Known' = Known /\ Announced' = Announced /\ synced' = synced
  BY LoopForm, Same4 DEF FetchFlags
<1>2. CASE Goto("loop", "pull")
  BY <1>1, <1>2, Goes, LooksOn DEF Steps, Telling
<1>3. CASE Fetched("loop", Newest(DOMAIN srv, Window, 0), "refreshed")
  BY <1>1, <1>3, PagesForm, FetchesOn, LooksOn DEF Steps, Telling
<1>4. QED
  BY <1>2, <1>3 DEF FetchFlags

LEMMA ReconcileStep ==
  ASSUME MirrorInv, Reconcile
  PROVE  MirrorInv'
<1>1. /\ "loop" \in Syncers /\ TypeOK /\ UNCHANGED <<serverVars, mirrorVars, intentVars, removing>> /\ Quiet
      /\ Known' = Known /\ Announced' = Announced /\ synced' = synced
      /\ SyncerTyped(syn["loop"]) /\ DOMAIN syn["loop"].page \subseteq Known
  BY FetchForm, LoopForm, Same4 DEF Reconcile, Looking
<1>2. CASE Goto("loop", "finish")
  BY <1>1, <1>2, Goes, LooksOn DEF Steps, Telling
<1>3. CASE syn' = [syn EXCEPT !["loop"].pc = "prune", !["loop"].seen = DOMAIN srv]
  <2>1. /\ Notes("loop", {"pc", "at", "page", "cursor", "seen", "fresh", "next", "total", "there"})
        /\ syn'["loop"].pc = "prune"
        /\ syn'["loop"].page = syn["loop"].page /\ syn'["loop"].seen = DOMAIN srv /\ syn'["loop"].at = syn["loop"].at
    BY <1>1, <1>3 DEF Notes, MirrorInv, SyncerTyped
  <2>2. DOMAIN srv \subseteq Uids
    BY <1>1 DEF TypeOK, PartialIn
  <2>3. SyncerIsSound("loop")'
    BY <1>1, <2>1, <2>2, FetchSound DEF SyncerTyped, Steps, Telling
  <2>4. QED
    BY <1>1, <2>1, <2>3, LooksOn DEF Notes
<1>4. QED
  BY <1>2, <1>3 DEF Reconcile

\* A step that stores a page: what the user moved away stays away, and what he marked stays marked.
LEMMA StoresPage ==
  ASSUME MirrorInv, NEW page, PartialIn(page, Uids, BOOLEAN), DOMAIN page \subseteq Known, msgs' = Upserted(page),
         UNCHANGED intentVars
  PROVE  /\ PartialIn(msgs', Uids, BOOLEAN) /\ DOMAIN msgs' \subseteq Known
         /\ DOMAIN msgs' = DOMAIN msgs \cup Kept(page) /\ Kept(page) = DOMAIN page \ DOMAIN pmove
         /\ DOMAIN pmove \cap DOMAIN msgs' = {}
         /\ \A u \in DOMAIN pflag \cap DOMAIN msgs' : msgs'[u] = pflag[u].seen
         /\ DOMAIN msgs \subseteq Announced /\ DOMAIN pmove \subseteq Announced
<1>1. /\ PartialIn(msgs', Uids, BOOLEAN) /\ DOMAIN msgs' = DOMAIN msgs \cup Kept(page) /\ Kept(page) = DOMAIN page \ DOMAIN pmove
      /\ \A u \in Kept(page) \cap DOMAIN pflag : msgs'[u] = pflag[u].seen
      /\ \A u \in DOMAIN msgs \ Kept(page) : msgs'[u] = msgs[u]
  BY UpsertedForm DEF MirrorInv
<1>2. /\ DOMAIN msgs \subseteq Known /\ DOMAIN pmove \cap DOMAIN msgs = {} /\ DOMAIN msgs \subseteq Announced /\ DOMAIN pmove \subseteq Announced
      /\ \A u \in DOMAIN pflag \cap DOMAIN msgs : msgs[u] = pflag[u].seen
  BY DEF MirrorInv, RowsAreKnown, IntentShown, NewMailHasTask, Announced
<1>3. QED
  BY <1>1, <1>2

LEMMA StoreScannedStep ==
  ASSUME MirrorInv, StoreScanned
  PROVE  MirrorInv'
<1> DEFINE l == syn["loop"]
<1>1. /\ "loop" \in Syncers /\ TypeOK /\ Bounded' /\ SyncerTyped(l) /\ DOMAIN l.page \subseteq Known
      /\ ~synced /\ ~based /\ msgs' = Upserted(l.page) /\ history' = history \cup Kept(l.page)
      /\ UNCHANGED <<serverVars, tasks, count, synced, based, intentVars, removing>>
      /\ Known' = Known /\ PartialIn(l.page, Uids, BOOLEAN)
  BY FetchForm, LoopForm, BoundsKept DEF StoreScanned, MirrorInv, RowsAreKnown, Known, serverVars, SyncerTyped
<1>2. PICK page : page = l.page
  OBVIOUS
<1>3. /\ PartialIn(msgs', Uids, BOOLEAN) /\ DOMAIN msgs' \subseteq Known
      /\ DOMAIN msgs' = DOMAIN msgs \cup Kept(page) /\ Kept(page) = DOMAIN page \ DOMAIN pmove
      /\ DOMAIN pmove \cap DOMAIN msgs' = {}
      /\ \A u \in DOMAIN pflag \cap DOMAIN msgs' : msgs'[u] = pflag[u].seen
      /\ DOMAIN msgs \subseteq Announced /\ DOMAIN pmove \subseteq Announced
  BY <1>1, <1>2, StoresPage DEF intentVars
<1>4. /\ Notes("loop", {"pc", "at", "page", "cursor", "seen", "fresh", "next", "total", "there"}) /\ syn'["loop"].pc = "bodies"
      /\ syn'["loop"].page = l.page /\ syn'["loop"].seen = l.seen \cup DOMAIN l.page /\ syn'["loop"].at = l.at
  BY <1>1 DEF StoreScanned, Notes, MirrorInv, SyncerTyped
<1>5. DOMAIN page \subseteq Announced' /\ Announced \subseteq Announced' /\ history' \in SUBSET Uids
  BY <1>1, <1>2, <1>3 DEF Announced, TypeOK, PartialIn
<1>6. SyncerIsSound("loop")'
  BY <1>1, <1>2, <1>4, <1>5, FetchSound DEF SyncerTyped, Steps, Telling, PartialIn
<1>7. DOMAIN msgs' \subseteq Announced'
  BY <1>3, <1>5
<1>8. QED
  BY <1>1, <1>3, <1>4, <1>5, <1>6, <1>7, Stores DEF Notes, TypeOK

LEMMA SyncFlagsStep ==
  ASSUME MirrorInv, SyncFlags
  PROVE  MirrorInv'
<1>1. /\ "loop" \in Syncers /\ TypeOK /\ Bounded' /\ DOMAIN syn["loop"].page \subseteq Known
      /\ UNCHANGED <<serverVars, tasks, count, synced, based, history, intentVars, removing>>
      /\ Known' = Known /\ Announced' = Announced /\ PartialIn(syn["loop"].page, Uids, BOOLEAN)
  BY FetchForm, LoopForm, BoundsKept DEF SyncFlags, Known, Announced, serverVars
<1>2. PICK page : page = syn["loop"].page
  OBVIOUS
<1>3. msgs' = [u \in DOMAIN msgs |-> IF u \in DOMAIN page THEN Wanted(page)[u] ELSE msgs[u]]
  BY <1>2 DEF SyncFlags
<1>4. \A u \in DOMAIN page : /\ Wanted(page)[u] \in BOOLEAN
                             /\ u \in DOMAIN pflag => Wanted(page)[u] = pflag[u].seen
  BY <1>1, <1>2, Intents DEF PartialIn, Wanted
<1>5. /\ PartialIn(msgs, Uids, BOOLEAN) /\ DOMAIN msgs \subseteq Known /\ DOMAIN pmove \cap DOMAIN msgs = {}
      /\ DOMAIN msgs \subseteq Announced
      /\ \A u \in DOMAIN pflag \cap DOMAIN msgs : msgs[u] = pflag[u].seen
  BY <1>1 DEF TypeOK, MirrorInv, RowsAreKnown, IntentShown, NewMailHasTask, Announced
<1>6. PartialIn(msgs', Uids, BOOLEAN) /\ DOMAIN msgs' = DOMAIN msgs
  BY <1>3, <1>4, <1>5 DEF PartialIn
<1>7. \A u \in DOMAIN pflag \cap DOMAIN msgs' : msgs'[u] = pflag[u].seen
  BY <1>3, <1>4, <1>5
<1>8. /\ SyncerIsSound("loop")' /\ DOMAIN syn' = Syncers
      /\ \A b \in Syncers \ {"loop"} : syn'[b] = syn[b]
  BY <1>1, Goes DEF SyncFlags, Steps, Telling
<1>9. QED
  BY <1>1, <1>5, <1>6, <1>7, <1>8, Stores DEF TypeOK

LEMMA PruneStep ==
  ASSUME MirrorInv, Prune
  PROVE  MirrorInv'
<1>1. /\ "loop" \in Syncers /\ TypeOK /\ Bounded'
      /\ UNCHANGED <<serverVars, tasks, count, synced, based, history, intentVars, removing>>
      /\ Known' = Known /\ Announced' = Announced
  BY FetchForm, LoopForm, BoundsKept DEF Prune, Known, Announced, serverVars
<1>2. PICK S : S = DOMAIN msgs \cap syn["loop"].seen
  OBVIOUS
<1>3. /\ PartialIn(msgs, Uids, BOOLEAN) /\ DOMAIN msgs \subseteq Known /\ DOMAIN pmove \cap DOMAIN msgs = {}
      /\ DOMAIN msgs \subseteq Announced
      /\ \A u \in DOMAIN pflag \cap DOMAIN msgs : msgs[u] = pflag[u].seen
  BY <1>1 DEF TypeOK, MirrorInv, RowsAreKnown, IntentShown, NewMailHasTask, Announced
<1>4. S \in SUBSET DOMAIN msgs /\ msgs' = Restrict(msgs, S)
  BY <1>2 DEF Prune
<1>5. /\ PartialIn(msgs', Uids, BOOLEAN) /\ DOMAIN msgs' = S
      /\ \A v \in S : msgs'[v] = msgs[v]
  BY <1>3, <1>4, RestrictForm
<1>6. /\ SyncerIsSound("loop")' /\ DOMAIN syn' = Syncers
      /\ \A b \in Syncers \ {"loop"} : syn'[b] = syn[b]
  BY <1>1, Goes DEF Prune, Steps, Telling
<1>7. QED
  BY <1>1, <1>3, <1>4, <1>5, <1>6, Stores DEF TypeOK

LEMMA PullStep ==
  ASSUME MirrorInv, NEW a \in Syncers, Pull(a)
  PROVE  MirrorInv'
<1>1. /\ TypeOK /\ UNCHANGED <<serverVars, mirrorVars, intentVars, removing>> /\ Quiet
      /\ Known' = Known /\ Announced' = Announced /\ synced' = synced
  BY FetchForm, Same4 DEF Pull, Looking
<1>2. CASE Goto(a, After(a))
  <2>1. PICK p : p = After(a)
    OBVIOUS
  <2>2. p \in {"finish", "reconcile", "prune"}
    BY <2>1 DEF After
  <2>3. QED
    BY <1>1, <1>2, <2>1, <2>2, Goes, LooksOn DEF Steps, Telling
<1>3. CASE ~Goto(a, After(a))
  <2>1. PICK S : S = Oldest({u \in DOMAIN srv : u > syn[a].cursor}, Batch)
    OBVIOUS
  <2>2. Fetched(a, S, "pulled") /\ S \in SUBSET DOMAIN srv
    BY <1>1, <1>3, <2>1, PagesForm DEF Pull
  <2>3. QED
    BY <1>1, <2>2, FetchesOn, LooksOn DEF Steps, Telling
<1>4. QED
  BY <1>2, <1>3

LEMMA StoreIncomingStep ==
  ASSUME MirrorInv, NEW a \in Syncers, StoreIncoming(a)
  PROVE  MirrorInv'
<1> DEFINE l == syn[a]
<1>1. /\ TypeOK /\ Bounded' /\ SyncerTyped(l) /\ DOMAIN l.page \subseteq Known
      /\ msgs' = Upserted(l.page) /\ tasks' = tasks \cup Kept(l.page)
      /\ UNCHANGED <<serverVars, count, synced, based, history, intentVars, removing>>
      /\ Known' = Known /\ PartialIn(l.page, Uids, BOOLEAN)
  BY FetchForm, BoundsKept DEF StoreIncoming, Known, serverVars
<1>2. PICK page : page = l.page
  OBVIOUS
<1>3. /\ PartialIn(msgs', Uids, BOOLEAN) /\ DOMAIN msgs' \subseteq Known
      /\ DOMAIN msgs' = DOMAIN msgs \cup Kept(page) /\ Kept(page) = DOMAIN page \ DOMAIN pmove
      /\ DOMAIN pmove \cap DOMAIN msgs' = {}
      /\ \A u \in DOMAIN pflag \cap DOMAIN msgs' : msgs'[u] = pflag[u].seen
      /\ DOMAIN msgs \subseteq Announced /\ DOMAIN pmove \subseteq Announced
  BY <1>1, <1>2, StoresPage DEF intentVars
<1>4. /\ Notes(a, {"pc", "at", "page", "cursor", "seen", "fresh", "next", "total", "there"}) /\ syn'[a].pc = "bodies"
      /\ syn'[a].page = l.page /\ syn'[a].seen = l.seen /\ syn'[a].at = l.at
  BY <1>1 DEF StoreIncoming, Notes, MirrorInv, SyncerTyped
<1>5. DOMAIN page \subseteq Announced' /\ Announced \subseteq Announced' /\ tasks' \in SUBSET Uids
  BY <1>1, <1>2, <1>3 DEF Announced, TypeOK, PartialIn
<1>6. SyncerIsSound(a)'
  BY <1>1, <1>2, <1>4, <1>5, FetchSound DEF SyncerTyped, Steps, Telling
<1>7. DOMAIN msgs' \subseteq Announced'
  BY <1>3, <1>5
<1>8. QED
  BY <1>1, <1>3, <1>4, <1>5, <1>6, <1>7, Stores DEF Notes, TypeOK

LEMMA FetchBodiesStep ==
  ASSUME MirrorInv, NEW a \in Syncers, FetchBodies(a)
  PROVE  MirrorInv'
<1> DEFINE l == syn[a]
<1>1. /\ TypeOK /\ UNCHANGED <<serverVars, mirrorVars, intentVars, removing>> /\ Quiet
      /\ Known' = Known /\ Announced' = Announced /\ synced' = synced
      /\ SyncerTyped(l) /\ DOMAIN l.page \subseteq Known /\ DOMAIN l.page \subseteq Announced /\ PartialIn(l.page, Uids, BOOLEAN)
  BY FetchForm, Same4 DEF FetchBodies, Looking
<1>2. PICK page, S : S = DOMAIN l.page \cap DOMAIN srv /\ page = Restrict(srv, S)
  OBVIOUS
<1>3. PartialIn(page, Uids, BOOLEAN) /\ DOMAIN page = S
  BY <1>1, <1>2, RestrictForm DEF TypeOK
<1>4. /\ Notes(a, {"pc", "at", "page", "cursor", "seen", "fresh", "next", "total", "there"}) /\ syn'[a].pc = "bodied"
      /\ syn'[a].page = page /\ syn'[a].seen = l.seen /\ syn'[a].at = DOMAIN l.page
  BY <1>1, <1>2 DEF FetchBodies, Notes, MirrorInv, SyncerTyped
<1>5. DOMAIN l.page \subseteq Uids
  BY <1>1 DEF PartialIn
<1>6. SyncerIsSound(a)'
  BY <1>1, <1>2, <1>3, <1>4, <1>5, FetchSound DEF SyncerTyped, Steps, Telling
<1>7. QED
  BY <1>1, <1>4, <1>6, LooksOn DEF Notes

LEMMA StoreBodiesStep ==
  ASSUME MirrorInv, NEW a \in Syncers, StoreBodies(a)
  PROVE  MirrorInv'
<1> DEFINE l == syn[a]
<1>1. /\ TypeOK /\ Bounded' /\ SyncerTyped(l) /\ DOMAIN l.page \subseteq Known
      /\ msgs' = Upserted(l.page) /\ l.pc = "bodied" /\ DOMAIN l.page \subseteq Announced
      /\ UNCHANGED <<serverVars, tasks, count, synced, based, history, intentVars, removing>>
      /\ Known' = Known /\ Announced' = Announced /\ PartialIn(l.page, Uids, BOOLEAN)
  BY FetchForm, BoundsKept DEF StoreBodies, Known, Announced, serverVars
<1>2. PICK page : page = l.page
  OBVIOUS
<1>3. /\ PartialIn(msgs', Uids, BOOLEAN) /\ DOMAIN msgs' \subseteq Known
      /\ DOMAIN msgs' = DOMAIN msgs \cup Kept(page) /\ Kept(page) = DOMAIN page \ DOMAIN pmove
      /\ DOMAIN pmove \cap DOMAIN msgs' = {}
      /\ \A u \in DOMAIN pflag \cap DOMAIN msgs' : msgs'[u] = pflag[u].seen
      /\ DOMAIN msgs \subseteq Announced
  BY <1>1, <1>2, StoresPage DEF intentVars
<1>4. PICK p : p = IF Cardinality(l.at) < Batch THEN After(a) ELSE IF a = "loop" /\ ~synced THEN "scan" ELSE "pull"
  OBVIOUS
<1>5. /\ p \in {"finish", "reconcile", "prune", "scan", "pull"}
      /\ a = "loop" /\ p = "scan" => ~synced'
  BY <1>1, <1>4 DEF After
<1>6. /\ Notes(a, {"pc", "at", "page", "cursor", "seen", "fresh", "next", "total", "there"}) /\ syn'[a].pc = p
      /\ syn'[a].page = Empty /\ syn'[a].seen = l.seen /\ syn'[a].at = {}
  BY <1>1, <1>4 DEF StoreBodies, Notes, MirrorInv, SyncerTyped
<1>7. SyncerIsSound(a)'
  BY <1>1, <1>5, <1>6, FetchSound, IdleForm DEF SyncerTyped, Steps, Telling
<1>8. DOMAIN msgs' \subseteq Announced'
  BY <1>1, <1>2, <1>3
<1>9. QED
  BY <1>1, <1>3, <1>6, <1>7, <1>8, Stores DEF Notes, TypeOK

-----------------------------------------------------------------------------
(* A pass ends *)

LEMMA FinishStep ==
  ASSUME MirrorInv, NEW a \in Syncers, Finish(a)
  PROVE  MirrorInv'
<1>1. /\ TypeOK /\ Bounded' /\ UNCHANGED <<serverVars, msgs, tasks, history, intentVars, removing>>
      /\ Known' = Known /\ Announced' = Announced /\ count' = Cardinality(DOMAIN msgs)
      /\ synced \in BOOLEAN /\ based = synced
      /\ synced' = (synced \/ a = "loop") /\ based' = (based \/ a = "loop")
      /\ DOMAIN syn' = Syncers /\ syn'[a] = Idle
      /\ \A b \in Syncers \ {a} : syn'[b] = syn[b]
  BY FetchForm, BoundsKept DEF Finish, Marked, Known, Announced, serverVars, MirrorInv, TypeOK, RowsAreKnown
<1>2. ASSUME NEW b \in Syncers PROVE SyncerIsSound(b)'
  <2>1. CASE b = a
    BY <1>1, <2>1, IdleSound
  <2>2. CASE b # a
    <3>1. b = "loop" => synced' = synced
      BY <1>1, <2>2 DEF Syncers
    <3>2. QED
      BY <1>1, <2>2, <3>1, SyncerKept, Intents DEF serverVars, intentVars
  <2>3. QED
    BY <2>1, <2>2
<1>3. count' \in Nat
  BY <1>1, CountForm DEF TypeOK, PartialIn
<1>4. QED
  BY <1>1, <1>2, <1>3, MirrorChanges DEF MirrorInv, TypeOK, RowsAreKnown, IntentShown, NewMailHasTask, Announced

LEMMA GiveUpStep ==
  ASSUME MirrorInv, NEW a \in Syncers, GiveUp(a)
  PROVE  MirrorInv'
<1>1. /\ TypeOK /\ Bounded' /\ UNCHANGED <<serverVars, msgs, tasks, count, based, history, intentVars, removing>>
      /\ Known' = Known /\ Announced' = Announced /\ synced \in BOOLEAN /\ synced' = synced
      /\ DOMAIN syn' = Syncers /\ syn'[a] = Idle
      /\ \A b \in Syncers \ {a} : syn'[b] = syn[b]
  BY FetchForm, BoundsKept DEF GiveUp, Marked, Known, Announced, serverVars, MirrorInv, TypeOK
<1>2. SyncerIsSound(a)'
  BY <1>1, IdleSound
<1>3. QED
  BY <1>1, <1>2, Stores DEF MirrorInv, TypeOK, RowsAreKnown, IntentShown, NewMailHasTask, Announced

LEMMA CrashStep ==
  ASSUME MirrorInv, Crash
  PROVE  MirrorInv'
<1>1. /\ TypeOK /\ Bounded' /\ UNCHANGED <<serverVars, mirrorVars, intentVars>> /\ removing' = {}
      /\ DOMAIN syn' = Syncers /\ \A b \in Syncers : syn'[b] = Idle
  BY BoundsKept DEF Crash, MirrorInv
<1>2. UNCHANGED <<msgs, tasks, count, synced, based, history, pmove, pflag>> /\ Announced' = Announced
  BY <1>1 DEF mirrorVars, intentVars, Announced
<1>3. \A b \in Syncers : SyncerIsSound(b)'
  BY <1>1, IdleSound
<1>4. QED
  BY <1>1, <1>2, <1>3, MirrorChanges DEF MirrorInv, TypeOK, RowsAreKnown, IntentShown, NewMailHasTask, Announced

-----------------------------------------------------------------------------
(* The user *)

\* What the user does locally is an intent, and the mirror shows it.
LEMMA IntentChanges ==
  ASSUME MirrorInv, UNCHANGED <<serverVars, tasks, synced, based, history, stored, syn, removing>>, Bounded',
         PartialIn(msgs', Uids, BOOLEAN), DOMAIN msgs' \subseteq DOMAIN msgs, count' \in Nat,
         PartialIn(pmove', Uids, Moves), PartialIn(pflag', Uids, Flags),
         DOMAIN pmove' \subseteq DOMAIN pmove \cup DOMAIN msgs, DOMAIN pmove' \cap DOMAIN msgs' = {},
         doomed \subseteq doomed', doomed' \in SUBSET Uids,
         \A v \in DOMAIN pmove' : pmove'[v].kind = "delete" => v \in doomed',
         DOMAIN pflag' \subseteq DOMAIN pflag \cup DOMAIN msgs,
         \A v \in DOMAIN pflag' \cap DOMAIN msgs' : msgs'[v] = pflag'[v].seen,
         \A v \in DOMAIN pflag : /\ v \in DOMAIN pflag'
                                 /\ pflag'[v].ver \in Nat
                                 /\ \/ pflag'[v].ver > pflag[v].ver
                                    \/ pflag'[v].ver = pflag[v].ver /\ pflag'[v].seen = pflag[v].seen
  PROVE  MirrorInv'
<1>1. UNCHANGED <<srv, uidNext, copies>> /\ Known' = Known /\ Announced' = Announced
  BY DEF serverVars, Known, Announced
<1>2. ASSUME NEW a \in Syncers PROVE SyncerIsSound(a)'
  BY <1>1, SyncerKept, Intents DEF MirrorInv
<1>3. TypeOK'
  BY <1>1 DEF MirrorInv, TypeOK, Bounded
<1>4. RowsAreKnown'
  BY <1>1 DEF MirrorInv, RowsAreKnown, NewMailHasTask, Announced, Known
<1>5. IntentShown' /\ NewMailHasTask' /\ NoMailLost'
  BY <1>1 DEF MirrorInv, IntentShown, NewMailHasTask, NoMailLost
<1>6. QED
  BY <1>2, <1>3, <1>4, <1>5 DEF MirrorInv

\* The next version of a row is a newer one.
LEMMA VersionForm ==
  ASSUME NEW rows, NEW u, \A v \in DOMAIN rows : rows[v].ver \in Nat
  PROVE  /\ Version(rows, u) \in Nat
         /\ u \in DOMAIN rows => Version(rows, u) > rows[u].ver
<1>1. CASE u \in DOMAIN rows
  <2>1. PICK k \in Nat : k = rows[u].ver
    BY <1>1
  <2>2. Version(rows, u) = k + 1
    BY <1>1, <2>1 DEF Version
  <2>3. QED
    BY <2>1, <2>2
<1>2. CASE u \notin DOMAIN rows
  BY <1>2 DEF Version
<1>3. QED
  BY <1>1, <1>2

\* What is shown.
LEMMA ShownForm ==
  ASSUME MirrorInv
  PROVE  /\ TypeOK /\ PartialIn(msgs, Uids, BOOLEAN) /\ DOMAIN pmove \cap DOMAIN msgs = {}
         /\ \A v \in DOMAIN pflag \cap DOMAIN msgs : msgs[v] = pflag[v].seen
         /\ \A v \in DOMAIN pmove : pmove[v].kind = "delete" => v \in doomed
         /\ doomed \in SUBSET Uids /\ count \in Nat
BY DEF MirrorInv, TypeOK, IntentShown, RowsAreKnown

LEMMA MarkSeenStep ==
  ASSUME MirrorInv, NEW u \in Uids, NEW b \in BOOLEAN, MarkSeen(u, b)
  PROVE  MirrorInv'
<1>1. /\ TypeOK /\ Bounded' /\ u \in DOMAIN msgs
      /\ UNCHANGED <<serverVars, tasks, count, synced, based, history, pmove, stored, doomed, syn, removing>>
  BY BoundsKept DEF MarkSeen, MirrorInv
<1>2. PICK ver : ver = Version(pflag, u)
  OBVIOUS
<1>3. ver \in Nat /\ (u \in DOMAIN pflag => ver > pflag[u].ver)
  BY <1>1, <1>2, VersionForm, Intents
<1>4. PICK row : row = [ver |-> ver, seen |-> b, late |-> FALSE]
  OBVIOUS
<1>5. row \in Flags /\ row.ver = ver /\ row.seen = b
  BY <1>3, <1>4 DEF Flags
<1>6. pflag' = Put(pflag, u, row)
  BY <1>2, <1>4 DEF MarkSeen
<1>7. /\ PartialIn(pflag', Uids, Flags) /\ DOMAIN pflag' = DOMAIN pflag \cup {u} /\ pflag'[u] = row
      /\ \A v \in DOMAIN pflag : v # u => pflag'[v] = pflag[v]
  <2>1. PartialIn(pflag, Uids, Flags)
    BY <1>1, Intents
  <2>2. /\ PartialIn(Put(pflag, u, row), Uids, Flags)
        /\ DOMAIN Put(pflag, u, row) = DOMAIN pflag \cup {u} /\ Put(pflag, u, row)[u] = row
        /\ \A v \in DOMAIN pflag : v # u => Put(pflag, u, row)[v] = pflag[v]
    BY <1>5, <2>1, PutForm
  <2>3. QED
    BY <1>6, <2>2
<1>8. /\ PartialIn(msgs', Uids, BOOLEAN) /\ DOMAIN msgs' = DOMAIN msgs /\ msgs'[u] = b
      /\ \A v \in DOMAIN msgs : v # u => msgs'[v] = msgs[v]
  BY <1>1, ShownForm DEF MarkSeen, PartialIn
<1>9. \A v \in DOMAIN pflag' \cap DOMAIN msgs' : msgs'[v] = pflag'[v].seen
  BY <1>5, <1>7, <1>8, ShownForm
<1>10. \A v \in DOMAIN pflag : /\ v \in DOMAIN pflag'
                               /\ pflag'[v].ver \in Nat
                               /\ \/ pflag'[v].ver > pflag[v].ver
                                  \/ pflag'[v].ver = pflag[v].ver /\ pflag'[v].seen = pflag[v].seen
  BY <1>1, <1>3, <1>5, <1>7, Intents
<1>11. QED
  BY <1>1, <1>7, <1>8, <1>9, <1>10, ShownForm, Intents, IntentChanges

LEMMA MoveAwayStep ==
  ASSUME MirrorInv, NEW u \in Uids, NEW kind \in {"move", "delete"}, MoveAway(u, kind)
  PROVE  MirrorInv'
<1>1. /\ TypeOK /\ Bounded' /\ u \in DOMAIN msgs \cup DOMAIN pmove
      /\ UNCHANGED <<serverVars, tasks, synced, based, history, pflag, stored, syn, removing>>
      /\ doomed' = doomed \cup (IF kind = "delete" THEN {u} ELSE {})
      /\ count' = CountWithout(u) /\ msgs' = Without(msgs, {u})
  BY BoundsKept DEF MoveAway, MirrorInv
<1>2. PICK ver : ver = Version(pmove, u)
  OBVIOUS
<1>3. ver \in Nat
  BY <1>1, <1>2, VersionForm, Intents
<1>4. PICK row : row = [ver |-> ver, kind |-> kind, late |-> FALSE]
  OBVIOUS
<1>5. row \in Moves /\ row.kind = kind
  BY <1>3, <1>4 DEF Moves
<1>6. pmove' = Put(pmove, u, row)
  BY <1>2, <1>4 DEF MoveAway
<1>7. /\ PartialIn(pmove', Uids, Moves) /\ DOMAIN pmove' = DOMAIN pmove \cup {u} /\ pmove'[u] = row
      /\ \A v \in DOMAIN pmove : v # u => pmove'[v] = pmove[v]
  <2>1. PartialIn(pmove, Uids, Moves)
    BY <1>1, Intents
  <2>2. /\ PartialIn(Put(pmove, u, row), Uids, Moves)
        /\ DOMAIN Put(pmove, u, row) = DOMAIN pmove \cup {u} /\ Put(pmove, u, row)[u] = row
        /\ \A v \in DOMAIN pmove : v # u => Put(pmove, u, row)[v] = pmove[v]
    BY <1>5, <2>1 DEF Put, PartialIn
  <2>3. QED
    BY <1>6, <2>2
<1>8. /\ PartialIn(msgs', Uids, BOOLEAN) /\ DOMAIN msgs' = DOMAIN msgs \ {u}
      /\ \A v \in DOMAIN msgs \ {u} : msgs'[v] = msgs[v]
  BY <1>1, ShownForm, WithoutForm
<1>9. count' \in Nat
  BY <1>1, CountForm, ShownForm DEF CountWithout, PartialIn
<1>10. /\ doomed \subseteq doomed' /\ doomed' \in SUBSET Uids
       /\ \A v \in DOMAIN pmove' : pmove'[v].kind = "delete" => v \in doomed'
  BY <1>1, <1>5, <1>7, ShownForm
<1>11. DOMAIN pmove' \cap DOMAIN msgs' = {} /\ DOMAIN pmove' \subseteq DOMAIN pmove \cup DOMAIN msgs
  BY <1>1, <1>7, <1>8, ShownForm
<1>12. \A v \in DOMAIN pflag' \cap DOMAIN msgs' : msgs'[v] = pflag'[v].seen
  BY <1>1, <1>8, ShownForm
<1>13. QED
  BY <1>1, <1>7, <1>8, <1>9, <1>10, <1>11, <1>12, Intents, IntentChanges

LEMMA DelayedForm ==
  ASSUME NEW rows, NEW T, PartialIn(rows, Uids, T), \A r \in T : [r EXCEPT !.late = FALSE] \in T
  PROVE  /\ PartialIn(Delayed(rows), Uids, T) /\ DOMAIN Delayed(rows) = DOMAIN rows
         /\ \A u \in DOMAIN rows : Delayed(rows)[u] = [rows[u] EXCEPT !.late = FALSE]
BY DEF Delayed, PartialIn

LEMMA ElapseStep ==
  ASSUME MirrorInv, Elapse
  PROVE  MirrorInv'
<1>1. /\ TypeOK /\ Bounded' /\ UNCHANGED <<serverVars, mirrorVars, stored, doomed, syn, removing>>
      /\ pmove' = Delayed(pmove) /\ pflag' = Delayed(pflag)
  BY BoundsKept DEF Elapse, MirrorInv
<1>2. UNCHANGED <<msgs, tasks, count, synced, based, history>>
  BY <1>1 DEF mirrorVars
<1>3. /\ PartialIn(pmove', Uids, Moves) /\ DOMAIN pmove' = DOMAIN pmove
      /\ \A u \in DOMAIN pmove : pmove'[u] = [pmove[u] EXCEPT !.late = FALSE]
  <2>1. PartialIn(pmove, Uids, Moves)
    BY <1>1, Intents
  <2>2. \A r \in Moves : [r EXCEPT !.late = FALSE] \in Moves
    BY LateRows
  <2>3. /\ PartialIn(Delayed(pmove), Uids, Moves) /\ DOMAIN Delayed(pmove) = DOMAIN pmove
        /\ \A u \in DOMAIN pmove : Delayed(pmove)[u] = [pmove[u] EXCEPT !.late = FALSE]
    BY <2>1, <2>2 DEF Delayed, PartialIn
  <2>4. QED
    BY <1>1, <2>3
<1>4. /\ PartialIn(pflag', Uids, Flags) /\ DOMAIN pflag' = DOMAIN pflag
      /\ \A u \in DOMAIN pflag : pflag'[u] = [pflag[u] EXCEPT !.late = FALSE]
  <2>1. PartialIn(pflag, Uids, Flags)
    BY <1>1, Intents
  <2>2. \A r \in Flags : [r EXCEPT !.late = FALSE] \in Flags
    BY LateRows
  <2>3. /\ PartialIn(Delayed(pflag), Uids, Flags) /\ DOMAIN Delayed(pflag) = DOMAIN pflag
        /\ \A u \in DOMAIN pflag : Delayed(pflag)[u] = [pflag[u] EXCEPT !.late = FALSE]
    BY <2>1, <2>2, DelayedForm
  <2>4. QED
    BY <1>1, <2>3
<1>5. \A u \in DOMAIN pmove : pmove'[u].kind = pmove[u].kind
  BY <1>1, <1>3, Intents, LateRows
<1>6. \A u \in DOMAIN pflag : pflag'[u].ver = pflag[u].ver /\ pflag'[u].seen = pflag[u].seen /\ pflag[u].ver \in Nat
  BY <1>1, <1>4, Intents, LateRows
<1>7. QED
  BY <1>1, <1>2, <1>3, <1>4, <1>5, <1>6, ShownForm, IntentChanges

LEMMA RemoveLocallyStep ==
  ASSUME MirrorInv, NEW u \in Uids, NEW kind \in {"delete", "restore"}, RemoveLocally(u, kind)
  PROVE  MirrorInv'
<1>1. /\ TypeOK /\ UNCHANGED <<serverVars, tasks, synced, based, history, intentVars, syn, boundVars>>
      /\ removing' = removing \ {<<u, kind>>} /\ msgs' = Without(msgs, {u})
      /\ count' = IF kind = "restore" THEN CountWithout(u) ELSE count
  BY DEF RemoveLocally, MirrorInv
<1>2. Known' = Known /\ Announced' = Announced /\ Bounded'
  BY <1>1 DEF Known, Announced, serverVars, boundVars, Bounded, TypeOK
<1>3. /\ PartialIn(msgs', Uids, BOOLEAN) /\ DOMAIN msgs' = DOMAIN msgs \ {u}
      /\ \A v \in DOMAIN msgs \ {u} : msgs'[v] = msgs[v]
  BY <1>1, ShownForm, WithoutForm
<1>4. count' \in Nat
  BY <1>1, CountForm, ShownForm DEF CountWithout, PartialIn
<1>5. ASSUME NEW a \in Syncers PROVE SyncerIsSound(a)'
  BY <1>1, <1>2, SyncerKept, Intents DEF MirrorInv, serverVars, intentVars
<1>6. removing' \in SUBSET (Uids \X {"delete", "restore"})
  BY <1>1 DEF TypeOK
<1>7. QED
  BY <1>1, <1>2, <1>3, <1>4, <1>5, <1>6, ShownForm, MirrorChanges DEF MirrorInv, TypeOK, RowsAreKnown, NewMailHasTask, Announced

LEMMA SyncNowStep ==
  ASSUME MirrorInv, SyncNow
  PROVE  MirrorInv'
<1>1. /\ "now" \in Syncers /\ TypeOK /\ Bounded' /\ UNCHANGED <<serverVars, mirrorVars, intentVars, removing>>
      /\ Known' = Known /\ Announced' = Announced /\ synced' = synced
  BY BoundsKept, Same4 DEF SyncNow, MirrorInv, Syncers
<1>2. PICK l : l = [Idle EXCEPT !.pc = "pull", !.cursor = Highest(DOMAIN msgs)]
  OBVIOUS
<1>3. /\ DOMAIN syn' = Syncers /\ syn'["now"] = l
      /\ \A b \in Syncers \ {"now"} : syn'[b] = syn[b]
  BY <1>1, <1>2 DEF SyncNow, MirrorInv
<1>4. /\ l.pc = "pull" /\ l.todo = Empty /\ l.at = {} /\ l.ok = TRUE /\ l.page = Empty /\ l.seen = {} /\ DOMAIN l = DOMAIN Idle
  BY <1>2, IdleForm
<1>5. SyncerTyped(l)
  BY <1>4, IdleForm DEF SyncerTyped, Steps
<1>6. SyncerIsSound("now")'
  BY <1>3, <1>4, <1>5, IdleForm DEF SyncerIsSound, SyncerTyped
<1>7. QED
  BY <1>1, <1>3, <1>6, Looks

-----------------------------------------------------------------------------
(* The rest of the world *)

\* What leaves the folder, and what changes in it, disturbs no synchronizer.
LEMMA SyncersKept ==
  ASSUME MirrorInv, UNCHANGED <<mirrorVars, pmove, pflag, stored, syn>>, Known \subseteq Known', doomed \subseteq doomed',
         DOMAIN srv' \cap Known \subseteq DOMAIN srv
  PROVE  /\ DOMAIN syn' = Syncers
         /\ \A a \in Syncers : SyncerIsSound(a)'
<1>1. Announced' = Announced /\ synced' = synced
  BY DEF Announced, mirrorVars
<1>2. ASSUME NEW a \in Syncers PROVE SyncerIsSound(a)'
  BY <1>1, SyncerKept, Intents DEF MirrorInv
<1>3. QED
  BY <1>2 DEF MirrorInv

\* What is known of the server.
LEMMA ServerForm ==
  ASSUME MirrorInv
  PROVE  /\ TypeOK /\ PartialIn(srv, Uids, BOOLEAN) /\ DOMAIN srv \subseteq Known /\ doomed \in SUBSET Uids
         /\ \A v \in Known : v \in Uids /\ (v \in DOMAIN srv \cup doomed \/ copies[v] > 0)
         /\ copies \in [Uids -> Nat] /\ uidNext \in 1..Last + 1 /\ PartialIn(stored, Uids, BOOLEAN)
         /\ removing \in SUBSET (Uids \X {"delete", "restore"})
<1>1. TypeOK /\ RowsAreKnown /\ NoMailLost
  BY DEF MirrorInv
<1>2. \A v \in Known : v \in Uids /\ (v \in DOMAIN srv \cup doomed \/ copies[v] > 0)
  BY <1>1, MirrorAssumption DEF NoMailLost, Known, TypeOK, Uids, MirrorAssumption
<1>3. QED
  BY <1>1, <1>2 DEF TypeOK, RowsAreKnown

LEMMA RemoveUpstreamStep ==
  ASSUME MirrorInv, NEW u \in Uids, NEW kind \in {"delete", "restore"}, RemoveUpstream(u, kind)
  PROVE  MirrorInv'
<1>1. /\ TypeOK /\ Bounded' /\ UNCHANGED <<uidNext, mirrorVars, pmove, pflag, stored, syn>>
      /\ srv' = Without(srv, {u}) /\ removing' = removing \cup {<<u, kind>>}
      /\ doomed' = doomed \cup (IF kind = "delete" THEN {u} ELSE {})
      /\ copies' = IF kind = "restore" THEN [copies EXCEPT ![u] = @ + 1] ELSE copies
  BY BoundsKept DEF RemoveUpstream, MirrorInv
<1>2. PartialIn(srv', Uids, BOOLEAN) /\ DOMAIN srv' = DOMAIN srv \ {u}
  BY <1>1, ServerForm, WithoutForm
<1>3. /\ copies' \in [Uids -> Nat] /\ \A v \in Uids : copies[v] > 0 => copies'[v] > 0
      /\ kind = "restore" => copies'[u] > 0
  BY <1>1, ServerForm
<1>4. Known' = Known /\ doomed \subseteq doomed' /\ doomed' \in SUBSET Uids /\ (kind = "delete" => u \in doomed')
  BY <1>1, ServerForm DEF Known
<1>5. \A v \in Known : v \in DOMAIN srv' \cup doomed' \/ copies'[v] > 0
  BY <1>2, <1>3, <1>4, ServerForm
<1>6. removing' \in SUBSET (Uids \X {"delete", "restore"})
  BY <1>1, ServerForm
<1>7. /\ DOMAIN syn' = Syncers
      /\ \A a \in Syncers : SyncerIsSound(a)'
  BY <1>1, <1>2, <1>4, SyncersKept
<1>8. QED
  BY <1>1, <1>2, <1>3, <1>4, <1>5, <1>6, <1>7, ServerForm, ServerChanges

LEMMA ArriveStep ==
  ASSUME MirrorInv, Arrive
  PROVE  MirrorInv'
<1>1. /\ TypeOK /\ Bounded' /\ UNCHANGED <<copies, mirrorVars, intentVars, syn, removing>>
      /\ uidNext \in Uids /\ srv' = Put(srv, uidNext, FALSE) /\ uidNext' = uidNext + 1
  BY BoundsKept DEF Arrive, MirrorInv
<1>2. UNCHANGED <<pmove, pflag, stored, doomed>>
  BY <1>1 DEF intentVars
<1>3. PartialIn(srv', Uids, BOOLEAN) /\ DOMAIN srv' = DOMAIN srv \cup {uidNext}
  BY <1>1, ServerForm DEF Put, PartialIn
<1>4. Known' = Known \cup {uidNext} /\ uidNext \notin Known /\ uidNext' \in 1..Last + 1
  BY <1>1, MirrorAssumption DEF Known, Uids, MirrorAssumption
<1>5. DOMAIN srv' \cap Known \subseteq DOMAIN srv /\ Known' \ Known \subseteq DOMAIN srv' /\ DOMAIN srv' \subseteq Known'
  BY <1>3, <1>4, ServerForm
<1>6. \A v \in Known : v \in DOMAIN srv' \cup doomed' \/ copies'[v] > 0
  BY <1>1, <1>2, <1>3, ServerForm
<1>7. /\ DOMAIN syn' = Syncers
      /\ \A a \in Syncers : SyncerIsSound(a)'
  BY <1>1, <1>2, <1>4, <1>5, SyncersKept
<1>8. QED
  BY <1>1, <1>2, <1>3, <1>4, <1>5, <1>6, <1>7, ServerForm, ServerChanges

LEMMA RemoteExpungeStep ==
  ASSUME MirrorInv, NEW u \in Uids, RemoteExpunge(u)
  PROVE  MirrorInv'
<1>1. /\ TypeOK /\ Bounded' /\ UNCHANGED <<uidNext, copies, mirrorVars, pmove, pflag, stored, syn, removing>>
      /\ srv' = Without(srv, {u}) /\ doomed' = doomed \cup {u}
  BY BoundsKept DEF RemoteExpunge, MirrorInv
<1>2. PartialIn(srv', Uids, BOOLEAN) /\ DOMAIN srv' = DOMAIN srv \ {u}
  BY <1>1, ServerForm, WithoutForm
<1>3. Known' = Known /\ doomed \subseteq doomed' /\ doomed' \in SUBSET Uids
  BY <1>1, ServerForm DEF Known
<1>4. \A v \in Known : v \in DOMAIN srv' \cup doomed' \/ copies'[v] > 0
  BY <1>1, <1>2, ServerForm
<1>5. /\ DOMAIN syn' = Syncers
      /\ \A a \in Syncers : SyncerIsSound(a)'
  BY <1>1, <1>2, <1>3, SyncersKept
<1>6. QED
  BY <1>1, <1>2, <1>3, <1>4, <1>5, ServerForm, ServerChanges

LEMMA RemoteSeenStep ==
  ASSUME MirrorInv, NEW u \in Uids, RemoteSeen(u)
  PROVE  MirrorInv'
<1>1. /\ TypeOK /\ Bounded' /\ UNCHANGED <<uidNext, copies, mirrorVars, intentVars, syn, removing>>
      /\ srv' = [srv EXCEPT ![u] = ~@]
  BY BoundsKept DEF RemoteSeen, MirrorInv
<1>2. UNCHANGED <<pmove, pflag, stored, doomed>> /\ Known' = Known
  BY <1>1 DEF intentVars, Known
<1>3. PartialIn(srv', Uids, BOOLEAN) /\ DOMAIN srv' = DOMAIN srv
  BY <1>1, ServerForm DEF PartialIn
<1>4. \A v \in Known : v \in DOMAIN srv' \cup doomed' \/ copies'[v] > 0
  BY <1>1, <1>2, <1>3, ServerForm
<1>5. /\ DOMAIN syn' = Syncers
      /\ \A a \in Syncers : SyncerIsSound(a)'
  BY <1>1, <1>2, <1>3, SyncersKept
<1>6. QED
  BY <1>1, <1>2, <1>3, <1>4, <1>5, ServerForm, ServerChanges

-----------------------------------------------------------------------------
(* The theorems *)

LEMMA MirrorInit == Init => MirrorInv
<1> SUFFICES ASSUME Init PROVE MirrorInv
  OBVIOUS
<1>1. Last \in Nat /\ Found \in 0..Last /\ MaxUser \in Nat /\ MaxRemote \in Nat /\ MaxFaults \in Nat
  BY MirrorAssumption DEF MirrorAssumption
<1>2. /\ srv = [u \in 1..Found |-> FALSE] /\ uidNext = Found + 1 /\ copies = [u \in Uids |-> 0]
      /\ synced \in BOOLEAN /\ based = synced /\ history = DOMAIN msgs /\ count = Cardinality(DOMAIN msgs)
      /\ msgs = IF synced THEN srv ELSE Empty
      /\ tasks = {} /\ pmove = Empty /\ pflag = Empty /\ stored = Empty /\ doomed = {} /\ removing = {}
      /\ syn = [a \in Syncers |-> Idle] /\ user = 0 /\ remote = 0 /\ faults = 0
  BY DEF Init
<1>3. DOMAIN srv = 1..Found /\ 1..Found \subseteq Uids /\ PartialIn(srv, Uids, BOOLEAN) /\ Known = 1..Found
  BY <1>1, <1>2 DEF Known, Uids, PartialIn
<1>4. \A T : DOMAIN Empty = {} /\ PartialIn(Empty, Uids, T)
  BY DEF Empty, PartialIn
<1>5. PartialIn(msgs, Uids, BOOLEAN) /\ DOMAIN msgs \subseteq 1..Found
  BY <1>2, <1>3, <1>4
<1>6. count \in Nat
  BY <1>2, <1>3, <1>5, CountForm
<1>7. \A a \in Syncers : syn[a] = Idle
  BY <1>2
<1>8. SyncerTyped(Idle)
  BY IdleForm DEF SyncerTyped, Steps
<1>9. \A a \in Syncers : SyncerIsSound(a)
  BY <1>7, <1>8, IdleForm DEF SyncerIsSound, SyncerTyped
<1>10. TypeOK
  BY <1>1, <1>2, <1>3, <1>4, <1>5, <1>6, <1>7, <1>8 DEF TypeOK, SyncerTyped
<1>11. IntentShown /\ NewMailHasTask /\ NoMailLost /\ RowsAreKnown
  BY <1>2, <1>3, <1>4, <1>5 DEF IntentShown, NewMailHasTask, NoMailLost, RowsAreKnown, Known
<1>12. QED
  BY <1>2, <1>9, <1>10, <1>11 DEF MirrorInv

LEMMA MirrorStutter ==
  ASSUME MirrorInv, UNCHANGED vars
  PROVE  MirrorInv'
<1>1. UNCHANGED <<serverVars, mirrorVars, intentVars, removing>> /\ syn' = syn /\ UNCHANGED <<user, remote, faults>>
  BY DEF vars, boundVars
<1>2. /\ "loop" \in Syncers /\ Bounded' /\ DOMAIN syn' = Syncers
      /\ \A b \in Syncers : syn'[b] = syn[b]
  BY <1>1 DEF MirrorInv, TypeOK, Bounded, Syncers
<1>3. SyncerIsSound("loop")'
  BY <1>1, <1>2, SyncerKept, Same4, Intents DEF MirrorInv, serverVars, intentVars
<1>4. QED
  BY <1>1, <1>2, <1>3, Looks

LEMMA MirrorStep == MirrorInv /\ [Next]_vars => MirrorInv'
<1> SUFFICES ASSUME MirrorInv, [Next]_vars PROVE MirrorInv'
  OBVIOUS
<1>1. CASE Request
  BY <1>1, SyncNowStep, MarkSeenStep, MoveAwayStep, RemoveUpstreamStep DEF Request
<1>2. CASE Flush
  BY <1>2, StartPassStep, SettleMoveStep, ListFlagsStep, SettleFlagsStep, RecordFolderStep, MoveUpstreamStep,
     StoreFlagsStep DEF Flush
<1>3. CASE Scanning
  BY <1>3, ScanPageStep, StoreScannedStep DEF Scanning
<1>4. CASE Checking
  BY <1>4, SelectStep, ReadLocalStep, FetchFlagsStep, SyncFlagsStep, ReconcileStep, PruneStep DEF Checking
<1>5. CASE \E a \in Syncers : Fetching(a)
  BY <1>5, PullStep, StoreIncomingStep, FetchBodiesStep, StoreBodiesStep, FinishStep DEF Fetching
<1>6. CASE World
  BY <1>6, ArriveStep, RemoteExpungeStep, RemoteSeenStep DEF World
<1>7. CASE Crash \/ Elapse \/ \E a \in Syncers : GiveUp(a)
  BY <1>7, CrashStep, ElapseStep, GiveUpStep
<1>8. CASE \E u \in Uids, k \in {"delete", "restore"} : RemoveLocally(u, k)
  BY <1>8, RemoveLocallyStep
<1>9. CASE UNCHANGED vars
  BY <1>9, MirrorStutter
<1>10. QED
  BY <1>1, <1>2, <1>3, <1>4, <1>5, <1>6, <1>7, <1>8, <1>9 DEF Next, Loop, Syncers

\* The invariant holds in every state of every behaviour: the two synchronizers, the user, other
\* clients, errors and deaths of the process in any order.
THEOREM MirrorInvariant == Spec => []MirrorInv
BY MirrorInit, MirrorStep, PTL DEF Spec

\* The mirror, the queued intents and what the synchronizers hold are what their types say.
THEOREM MirrorTypesCorrect == Spec => []TypeOK
<1>1. MirrorInv => TypeOK
  BY DEF MirrorInv
<1>2. QED
  BY <1>1, MirrorInvariant, PTL

\* What the user did locally stays shown until the server has heard of it, new mail is stored with
\* its tasks, and no mail is lost between two folders (upsertMessages, BatchSyncFlags, syncFolder,
\* MoveMessage), for every number of messages, requests, other clients' steps and faults.
THEOREM MirrorStaysSound == Spec => []MirrorIsSound
<1>1. MirrorInv => MirrorIsSound
  BY DEF MirrorInv, MirrorIsSound
<1>2. QED
  BY <1>1, MirrorInvariant, PTL

\* An acknowledged step.
Acked ==
  /\ \A u \in DOMAIN pmove \ DOMAIN pmove' : u \notin DOMAIN srv'
  /\ \A u \in DOMAIN pflag \ DOMAIN pflag' : u \in DOMAIN srv => u \in DOMAIN stored /\ stored[u] = pflag[u].seen

LEMMA KeptIsAcked ==
  ASSUME DOMAIN pmove \subseteq DOMAIN pmove', DOMAIN pflag \subseteq DOMAIN pflag'
  PROVE  Acked
BY DEF Acked

\* The only steps that drop rows settle what was sent.
LEMMA IntentsKept ==
  ASSUME MirrorInv, [Next]_vars, ~SettleMove, ~SettleFlags
  PROVE  DOMAIN pmove \subseteq DOMAIN pmove' /\ DOMAIN pflag \subseteq DOMAIN pflag'
<1>1. CASE Request
  BY <1>1 DEF Request, SyncNow, MarkSeen, MoveAway, RemoveUpstream, Put, intentVars
<1>2. CASE Flush
  BY <1>2 DEF Flush, StartPass, ListFlags, RecordFolder, MoveUpstream, StoreFlags, intentVars
<1>3. CASE Scanning \/ Checking
  BY <1>3 DEF Scanning, Checking, ScanPage, StoreScanned, Select, ReadLocal, FetchFlags, SyncFlags, Reconcile, Prune,
              Looking, intentVars
<1>4. CASE \E a \in Syncers : Fetching(a)
  BY <1>4 DEF Fetching, Pull, StoreIncoming, FetchBodies, StoreBodies, Finish, Looking, intentVars
<1>5. CASE World
  BY <1>5 DEF World, Arrive, RemoteExpunge, RemoteSeen, intentVars
<1>6. CASE Elapse
  BY <1>6 DEF Elapse, Delayed
<1>7. CASE Crash \/ \E a \in Syncers : GiveUp(a)
  BY <1>7 DEF Crash, GiveUp, intentVars
<1>8. CASE \E u \in Uids, k \in {"delete", "restore"} : RemoveLocally(u, k)
  BY <1>8 DEF RemoveLocally, intentVars
<1>9. CASE UNCHANGED vars
  BY <1>9 DEF vars, intentVars
<1>10. QED
  BY <1>1, <1>2, <1>3, <1>4, <1>5, <1>6, <1>7, <1>8, <1>9 DEF Next, Loop, Syncers

LEMMA AckedStep == MirrorInv /\ [Next]_vars => Acked
<1> SUFFICES ASSUME MirrorInv, [Next]_vars PROVE Acked
  OBVIOUS
<1> DEFINE l == syn["loop"]
<1>1. CASE SettleMove
  <2>1. /\ TypeOK /\ l.pc = "moved" /\ MovesListed(l) /\ l.ok \in BOOLEAN
        /\ pmove' = Settled(pmove) /\ srv' = srv /\ pflag' = pflag
    BY <1>1, LoopForm DEF SettleMove, serverVars
  <2>2. \A u \in DOMAIN pmove \ DOMAIN pmove' : l.ok /\ u \in l.at
    BY <2>1, SettledForm, Intents, LateRows
  <2>3. \A u \in DOMAIN pmove \ DOMAIN pmove' : u \notin DOMAIN srv'
    BY <2>1, <2>2 DEF MovesListed
  <2>4. QED
    BY <2>1, <2>3 DEF Acked
<1>2. CASE SettleFlags
  <2>1. /\ TypeOK /\ l.pc = "flagged" /\ FlagsListed(l) /\ l.ok \in BOOLEAN
        /\ pflag' = Settled(pflag) /\ pmove' = pmove
    BY <1>2, LoopForm DEF SettleFlags
  <2>2. \A u \in DOMAIN pflag \ DOMAIN pflag' : l.ok /\ u \in l.at /\ pflag[u].ver = l.todo[u].ver
    <3>1. PartialIn(pflag, Uids, Flags) /\ \A r \in Flags : [r EXCEPT !.late = TRUE] \in Flags
      BY <2>1, Intents, LateRows
    <3>2. \A u \in DOMAIN pflag \ DOMAIN pflag' : l.ok /\ u \in l.at /\ Same(pflag, u)
      BY <2>1, <3>1, SettledForm
    <3>3. QED
      BY <3>2 DEF Same
  <2>3. ASSUME NEW u \in DOMAIN pflag \ DOMAIN pflag', u \in DOMAIN srv
        PROVE  u \in DOMAIN stored /\ stored[u] = pflag[u].seen
    <3>1. u \in DOMAIN l.todo /\ pflag[u].seen = l.todo[u].seen
      <4>1. PICK x \in Nat : x = pflag[u].ver /\ x = l.todo[u].ver
        BY <2>1, <2>2, Intents
      <4>2. QED
        BY <2>1, <2>2, <4>1 DEF FlagsListed
    <3>2. QED
      BY <2>1, <2>2, <2>3, <3>1 DEF FlagsListed
  <2>4. QED
    BY <2>1, <2>3 DEF Acked
<1>3. CASE ~SettleMove /\ ~SettleFlags
  BY <1>3, IntentsKept, KeptIsAcked
<1>4. QED
  BY <1>1, <1>2, <1>3

\* A queued move or flag is dropped only when the server has it in its newest version: a late
\* acknowledgement of an older one does not drop it (the version guards of CompletePendingMove and
\* CompletePendingFlags).  The safety half of IntentIsKept.
THEOREM AckedIsReached == Spec => AckedIsDone
<1>1. MirrorInv /\ [Next]_vars => [Acked]_vars
  BY AckedStep
<1>2. QED
  BY <1>1, MirrorInvariant, PTL DEF Spec, AckedIsDone, Acked

=============================================================================
