------------------------------ MODULE Realtime ------------------------------
(***************************************************************************)
(* The browser's list of conversations of one user, kept current by the    *)
(* notification hub: every change bumps a revision and is published to the *)
(* event streams of the user's tabs, a tab that connects is told the       *)
(* revision, and a list request that names the current revision is         *)
(* answered "unchanged".  Also the IMAP IDLE watcher that lives as long as *)
(* one of the streams.  What the mailbox holds is the number of the change *)
(* that was committed last.                                                *)
(***************************************************************************)
EXTENDS Integers, Sequences, FiniteSets

CONSTANTS
  Tabs,
  Nobody,         \* the origin of a change no tab made
  Writers,        \* mutations and passes of the synchronizer at work
  MaxConnections, MaxIdleWatchers, \* the two settings
  Buffer,         \* sseEventBuffer
  MaxChanges,     \* bound: changes committed
  MaxRevisions,   \* bound: revisions a mutation may start from
  MaxLoads,       \* bound: pages loaded afresh
  MaxCloses,      \* bound: streams that break or grow too old
  MaxCrashes      \* bound: restarts of the process

RealtimeAssumption ==
  /\ Nobody \notin Tabs /\ Buffer \in Nat \ {0} /\ MaxConnections \in Nat \ {0}
  /\ \A bound \in {MaxIdleWatchers, MaxChanges, MaxRevisions, MaxLoads, MaxCloses, MaxCrashes} : bound \in Nat

VARIABLES
  mailbox,   \* the last change committed
  revision,  \* <<revisionBase, changes>>
  unheard,   \* some committed change was neither bumped nor published after its commit
  writers,   \* writer -> what it is doing, and for which tab
  streams,   \* tab -> its stream: phase, overflow, and the frames on their way
  stop, running, \* the watcher's stop channel (0: nil), and the watchers not gone yet
  cache, due, fetches, \* tab -> the list it has, whether it is to refetch, its request
  early,     \* tabs whose first list was read before a change they were not told of
  sessions,  \* tab -> "in", "out" (destroyed), "gone" (its streams were closed as well)
  loads, closes, crashes

hub == <<revision, stop, running>>
browser == <<cache, due, fetches, early>>
bounds == <<loads, closes, crashes>>
vars == <<mailbox, unheard, writers, streams, sessions, hub, browser, bounds>>

Idle == [step |-> "idle", tab |-> Nobody]
Off == [phase |-> "off", overflow |-> FALSE, frames |-> <<>>]
NoList == [rev |-> <<0, 0>>, data |-> 0]
NoFetch == [step |-> "none", rev |-> <<0, 0>>, data |-> 0]
Ahead == <<revision[1], revision[2] + 1>>
Subscribed == {t \in Tabs : streams[t].phase \in {"joined", "open"}}
Stops == 1..MaxLoads + MaxCloses + Cardinality(Tabs)

Init ==
  /\ mailbox = 1 /\ revision = <<1, 0>> /\ unheard = FALSE
  /\ writers = [w \in Writers |-> Idle]
  /\ streams = [t \in Tabs |-> Off] /\ stop = 0 /\ running = {}
  /\ cache = [t \in Tabs |-> NoList] /\ due = [t \in Tabs |-> FALSE]
  /\ fetches = [t \in Tabs |-> NoFetch] /\ early = {}
  /\ sessions = [t \in Tabs |-> "in"] /\ loads = 0 /\ closes = 0 /\ crashes = 0

TypeOK ==
  /\ mailbox \in 1..MaxChanges + 1 /\ unheard \in BOOLEAN
  /\ \A w \in Writers : writers[w].step \in {"idle", "handling", "written", "syncing", "synced", "answered"}
  /\ \A t \in Tabs :
       /\ streams[t].phase \in {"off", "asked", "joined", "open"} /\ streams[t].overflow \in BOOLEAN
       /\ Len(streams[t].frames) <= Buffer + 1
       /\ cache[t].data \in 0..mailbox /\ due[t] \in BOOLEAN /\ sessions[t] \in {"in", "out", "gone"}
       /\ fetches[t].step \in {"none", "reading", "listed", "same"}
  /\ early \subseteq Tabs /\ stop \in {0} \cup running \cup Stops /\ running \subseteq Stops

-----------------------------------------------------------------------------
(* Publishing.                                                             *)

Resync(rev) == [kind |-> "resync", rev |-> rev, origin |-> Nobody]
Changed(origin) == [kind |-> "changed", rev |-> <<0, 0>>, origin |-> origin]

SentLossy(stream, frame) ==
  IF Len(stream.frames) < Buffer THEN [stream EXCEPT !.frames = Append(@, frame)] ELSE stream
\* A tab whose buffer is full is disconnected instead of missing the event.
Sent(stream, frame) ==
  IF Len(stream.frames) < Buffer THEN [stream EXCEPT !.frames = Append(@, frame)]
  ELSE [stream EXCEPT !.overflow = TRUE]

Publish(origin) ==
  /\ revision' = Ahead /\ unheard' = FALSE
  /\ streams' = [t \in Tabs |->
       IF t \in Subscribed THEN Sent(streams[t], Changed(origin)) ELSE streams[t]]

-----------------------------------------------------------------------------
(* Who changes the mailbox.                                                *)

Commit == mailbox <= MaxChanges /\ mailbox' = mailbox + 1

\* MailMutationEvents: the revision moves before the handler runs ...
BumpRevision(w) ==
  /\ writers[w] = Idle /\ revision[2] < MaxRevisions
  /\ \E t \in {t \in Tabs : sessions[t] = "in" /\ cache[t] # NoList} :
       writers' = [writers EXCEPT ![w] = [step |-> "handling", tab |-> t]]
  /\ revision' = Ahead
  /\ UNCHANGED <<mailbox, unheard, streams, sessions, stop, running, browser, bounds>>

\* ... which writes or is refused ...
HandleMutation(w) ==
  /\ writers[w].step = "handling"
  /\ \/ Commit /\ writers' = [writers EXCEPT ![w].step = "written"]
     \/ writers' = [writers EXCEPT ![w] = Idle] /\ UNCHANGED mailbox
  /\ UNCHANGED <<unheard, streams, sessions, hub, browser, bounds>>

\* ... and an event is published if it succeeds in the end.
MutationEvents(w) ==
  /\ writers[w].step = "written"
  /\ \/ Publish(writers[w].tab) /\ writers' = [writers EXCEPT ![w].step = "answered"]
     \/ /\ unheard' = TRUE /\ writers' = [writers EXCEPT ![w] = Idle]
        /\ UNCHANGED <<revision, streams>>
  /\ UNCHANGED <<mailbox, sessions, stop, running, browser, bounds>>

\* The tab that asked refetches when it has the answer.
Answer(w) ==
  /\ writers[w].step = "answered"
  /\ writers' = [writers EXCEPT ![w] = Idle]
  /\ due' = [due EXCEPT ![writers[w].tab] = cache[writers[w].tab] # NoList]
  /\ UNCHANGED <<mailbox, unheard, streams, sessions, hub, cache, fetches, early, bounds>>

\* A pass of the synchronizer over a folder, the outbox or a background task: it commits
\* once or more, and publishes at its end, which an error in between skips.
SyncFolder(w) ==
  /\ writers[w].step \in {"idle", "synced"} /\ Commit
  /\ writers' = [writers EXCEPT ![w] = [step |-> "synced", tab |-> Nobody]]
  /\ UNCHANGED <<unheard, streams, sessions, hub, browser, bounds>>

PublishAccountEvent(w) ==
  /\ writers[w].step = "synced"
  /\ writers' = [writers EXCEPT ![w] = Idle]
  /\ \/ Publish(Nobody)
     \/ unheard' = TRUE /\ UNCHANGED <<revision, streams>>
  /\ UNCHANGED <<mailbox, sessions, stop, running, browser, bounds>>

\* Saving a draft is no mailbox mutation for the middleware, and changes the list.
SaveDraft ==
  /\ Commit /\ unheard' = TRUE
  /\ UNCHANGED <<writers, streams, sessions, hub, browser, bounds>>

-----------------------------------------------------------------------------
(* Streams.                                                                *)

\* The request passes the session check, and reaches Subscribe later.
Connect(t) ==
  /\ streams[t].phase = "off" /\ sessions[t] = "in"
  /\ streams' = [streams EXCEPT ![t].phase = "asked"]
  /\ UNCHANGED <<mailbox, unheard, writers, sessions, hub, browser, bounds>>

Subscribe(t) ==
  /\ streams[t].phase = "asked"
  /\ streams' = [streams EXCEPT ![t] =
       [Off EXCEPT !.phase = IF Cardinality(Subscribed) < MaxConnections THEN "joined" ELSE "off"]]
  /\ UNCHANGED <<mailbox, unheard, writers, sessions, hub, browser, bounds>>

\* The second half of Subscribe: a watcher for the user, unless the credentials cannot
\* be read or there is one already.
StartWatcher(t) ==
  /\ streams[t].phase = "joined" /\ stop = 0 /\ Cardinality(running) < MaxIdleWatchers
  /\ \E k \in Stops \ running :
       /\ 1..k - 1 \subseteq running
       /\ stop' = k /\ running' = running \cup {k}
  /\ UNCHANGED <<mailbox, unheard, writers, streams, sessions, revision, browser, bounds>>

\* A watcher ends when told to, or when its connection fails: nobody restarts it.
EndWatcher(k) ==
  /\ k \in running
  /\ running' = running \ {k} /\ stop' = IF stop = k THEN 0 ELSE stop
  /\ UNCHANGED <<mailbox, unheard, writers, streams, sessions, revision, browser, bounds>>

\* HandleSSE: the first frame names the revision, events of the meantime follow it.
StartStream(t) ==
  /\ streams[t].phase = "joined"
  /\ streams' = [streams EXCEPT ![t].phase = "open", ![t].frames = <<Resync(revision)>> \o @]
  /\ UNCHANGED <<mailbox, unheard, writers, sessions, hub, browser, bounds>>

StopKept(left) == stop
\* Unsubscribe: the last stream of the user takes the watcher with it.
StopAfter(left) == IF left = {} THEN 0 ELSE stop

CloseStream(t) ==
  /\ t \in Subscribed
  /\ IF streams[t].overflow THEN UNCHANGED closes ELSE closes < MaxCloses /\ closes' = closes + 1
  /\ streams' = [streams EXCEPT ![t] = Off] /\ stop' = StopAfter(Subscribed \ {t})
  /\ UNCHANGED <<mailbox, unheard, writers, sessions, revision, running, browser, loads, crashes>>

\* HandleLogout destroys the session, then has every stream of the user closed.
Logout(t) ==
  /\ sessions[t] = "in"
  /\ sessions' = [sessions EXCEPT ![t] = "out"]
  /\ UNCHANGED <<mailbox, unheard, writers, streams, hub, browser, bounds>>

DisconnectUser(t) ==
  /\ sessions[t] = "out"
  /\ sessions' = [sessions EXCEPT ![t] = "gone"]
  /\ streams' = [s \in Tabs |->
       IF s \in Subscribed THEN [streams[s] EXCEPT !.overflow = TRUE] ELSE streams[s]]
  /\ stop' = 0
  /\ UNCHANGED <<mailbox, unheard, writers, revision, running, browser, bounds>>

\* A restart: streams and work are gone, the base of the revisions is a later time.
Crash ==
  /\ crashes < MaxCrashes /\ crashes' = crashes + 1
  /\ revision' = <<revision[1] + 1, 0>> /\ unheard' = FALSE
  /\ writers' = [w \in Writers |-> Idle] /\ stop' = 0 /\ running' = {}
  /\ streams' = [t \in Tabs |-> Off]
  /\ fetches' = [t \in Tabs |-> NoFetch]
  /\ due' = [t \in Tabs |-> due[t] \/ (fetches[t] # NoFetch /\ cache[t] # NoList)]
  /\ UNCHANGED <<mailbox, sessions, cache, early, loads, closes>>

-----------------------------------------------------------------------------
(* The tab.                                                                *)

\* A page loads: it asks for the list, without a revision.
LoadPage(t) ==
  /\ loads < MaxLoads /\ loads' = loads + 1
  /\ sessions[t] = "in" /\ streams[t].phase = "off" /\ fetches[t] = NoFetch
  /\ cache' = [cache EXCEPT ![t] = NoList] /\ due' = [due EXCEPT ![t] = FALSE]
  /\ fetches' = [fetches EXCEPT ![t] = [NoFetch EXCEPT !.step = "reading", !.rev = revision]]
  /\ UNCHANGED <<mailbox, unheard, writers, streams, sessions, hub, early, closes, crashes>>

\* onmessage: a frame that says nothing new to the tab is ignored.
Ignored(t, frame) ==
  IF frame.kind = "resync" THEN cache[t] = NoList \/ cache[t].rev = frame.rev
  ELSE frame.origin = t
Receive(t) ==
  /\ streams[t].phase = "open" /\ streams[t].frames # <<>>
  /\ streams' = [streams EXCEPT ![t].frames = Tail(@)]
  /\ due' = [due EXCEPT ![t] = @ \/ ~Ignored(t, Head(streams[t].frames))]
  /\ UNCHANGED <<mailbox, unheard, writers, sessions, hub, cache, fetches, early, bounds>>

\* The timer of invalidate: a request in flight is replaced if there is a list already.
\* conversationListJSON compares the revision the tab sends before it reads anything.
Unchanged(t) == cache[t].rev = revision
Refetch(t) ==
  /\ due[t] /\ due' = [due EXCEPT ![t] = FALSE]
  /\ fetches' = [fetches EXCEPT ![t] =
       IF cache[t] = NoList /\ fetches[t] # NoFetch THEN fetches[t]
       ELSE [step |-> IF Unchanged(t) THEN "same" ELSE "reading", rev |-> revision, data |-> 0]]
  /\ UNCHANGED <<mailbox, unheard, writers, streams, sessions, hub, cache, early, bounds>>

\* conversationPageData reads the list after the revision.
ReadList(t) ==
  /\ fetches[t].step = "reading"
  /\ fetches' = [fetches EXCEPT ![t].step = "listed", ![t].data = mailbox]
  /\ UNCHANGED <<mailbox, unheard, writers, streams, sessions, hub, cache, due, early, bounds>>

Land(t) ==
  /\ fetches[t].step \in {"listed", "same"}
  /\ fetches' = [fetches EXCEPT ![t] = NoFetch]
  /\ cache' = [cache EXCEPT ![t] =
       IF fetches[t].step = "same" THEN @ ELSE [rev |-> fetches[t].rev, data |-> fetches[t].data]]
  /\ early' = IF cache[t] = NoList /\ fetches[t].rev # revision THEN early \cup {t} ELSE early \ {t}
  /\ UNCHANGED <<mailbox, unheard, writers, streams, sessions, hub, due, bounds>>

Next ==
  \/ \E w \in Writers :
       \/ BumpRevision(w) \/ HandleMutation(w) \/ MutationEvents(w) \/ Answer(w)
       \/ SyncFolder(w) \/ PublishAccountEvent(w)
  \/ SaveDraft \/ Crash
  \/ \E t \in Tabs :
       \/ Connect(t) \/ Subscribe(t) \/ StartWatcher(t) \/ StartStream(t) \/ CloseStream(t)
       \/ Logout(t) \/ DisconnectUser(t)
       \/ LoadPage(t) \/ Receive(t) \/ Refetch(t) \/ ReadList(t) \/ Land(t)
  \/ \E k \in Stops : EndWatcher(k)

Spec == Init /\ [][Next]_vars

-----------------------------------------------------------------------------
(* What the tabs see.                                                      *)

AtRest(t) ==
  /\ \A w \in Writers : writers[w] = Idle
  /\ streams[t].phase = "open" /\ ~streams[t].overflow /\ streams[t].frames = <<>>
  /\ cache[t] # NoList /\ ~due[t] /\ fetches[t] = NoFetch

\* "Missed events during a disconnect therefore cannot leave a client stale"
\* (notifications.go:20-22): a connected tab at rest shows the mailbox as it is, through
\* reconnects, overflows, restarts and requests that overtake each other - unless a
\* change was never announced, or its first list was read before it was connected.
QuietIsFresh ==
  \A t \in Tabs : AtRest(t) /\ ~unheard /\ t \notin early => cache[t].data = mailbox

\* A watcher that is not told to stop serves a stream of the user, and there are never
\* more watchers than the setting allows, the ones still closing included
\* (notifications.go:228-274).
WatcherServes ==
  /\ stop # 0 => stop \in running /\ Subscribed # {}
  /\ Cardinality(running) <= MaxIdleWatchers

\* "The server only answers 'unchanged' when it saw the same revision we sent, so a
\* cached body is the authoritative current state" (use-conversations.ts:51-52): with
\* nothing at work, the list a tab keeps for that answer is the mailbox's.
UnchangedIsCurrent ==
  \A t \in Tabs :
    fetches[t].step = "same" /\ (\A w \in Writers : writers[w] = Idle) => cache[t].data = mailbox

\* "a deleted session cannot keep receiving mail events" (notifications.go:314-316).
LoggedOutIsSilent ==
  \A t \in Tabs : sessions[t] = "gone" /\ t \in Subscribed => streams[t].overflow

=============================================================================
