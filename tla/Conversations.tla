--------------------------- MODULE Conversations ---------------------------
(***************************************************************************)
(* The conversations of one mail account as the JSON API serves them: the  *)
(* list is built from the mirrored messages, the outbox and the drafts at  *)
(* each request, paged by a cursor that names the last row sent; an open   *)
(* conversation is a window of messages that grows at both ends; and the   *)
(* handlers that act on a conversation read it first and write later.      *)
(* Message keys grow, dates are what their senders say.                    *)
(***************************************************************************)
EXTENDS Integers, FiniteSets, FiniteSetsExt

CONSTANTS
  Convs,         \* conversations: sets of participants, ordered by their ids
  Dates,
  Handlers,      \* requests that act on a conversation
  PageSize, WindowSize, \* rows of a page, messages of a page
  MaxMail,       \* bound: messages ever
  MaxRequests,   \* bound: requests to act
  MaxChanges     \* bound: changes of the mailbox that are not new mail

ConversationsAssumption ==
  /\ Convs \subseteq Int /\ Dates \subseteq Nat \ {0} /\ \E now \in Dates : \A d \in Dates : d <= now
  /\ PageSize \in Nat \ {0} /\ WindowSize \in Nat \ {0}
  /\ MaxMail \in Nat /\ MaxRequests \in Nat /\ MaxChanges \in Nat

VARIABLES
  mail,      \* the messages of the mirror's INBOX and Sent, and of the outbox
  drafts,    \* conversation -> the date of its draft, 0: none
  statuses,  \* conversation -> the status a person gave it, and for which message
  requests,  \* handler -> the request it serves, with what it has read
  walk,      \* a tab paging through the list (and not at the same time reading:)
  window,    \* a tab's open conversation
  made, asked, changes

vars == <<mail, drafts, statuses, requests, walk, window, made, asked, changes>>

NoStatus == [status |-> "none", key |-> 0]
NoRequest == [step |-> "none", op |-> "none", conv |-> 0, keys |-> {}, rows |-> {}, key |-> 0]
NoWalk == [at |-> "none", cursor |-> <<0, 0>>, got |-> [c \in Convs |-> 0], kept |-> {}]
NoRefresh == [ends |-> <<>>, got |-> {}, oldest |-> <<0, 0>>, newest |-> <<0, 0>>, more |-> FALSE, newer |-> FALSE]
NoWindow == [conv |-> 0, refresh |-> NoRefresh, oldest |-> <<0, 0>>, newest |-> <<0, 0>>, got |-> {}, kept |-> {},
             more |-> FALSE, newer |-> FALSE]

Init ==
  /\ mail = {} /\ drafts = [c \in Convs |-> 0] /\ statuses = [c \in Convs |-> NoStatus]
  /\ requests = [h \in Handlers |-> NoRequest] /\ walk = NoWalk /\ window = NoWindow
  /\ made = 0 /\ asked = 0 /\ changes = 0

-----------------------------------------------------------------------------
(* Building conversations.                                                 *)

MessagesOf(c) == {m \in mail : m.conv = c}
Place(m) == <<m.date, m.id>>
Before(p, q) == p[1] < q[1] \/ (p[1] = q[1] /\ p[2] < q[2])
Last(messages) == CHOOSE m \in messages : \A n \in messages : n = m \/ Before(Place(n), Place(m))

\* A conversation has messages or the draft of its first one.
Listed == {c \in Convs : MessagesOf(c) # {} \/ drafts[c] # 0}
Latest(c) == IF MessagesOf(c) = {} THEN drafts[c] ELSE Last(MessagesOf(c)).date

\* The message its status is about: the last one that is not waiting to be sent.
Settled(c) == {m \in MessagesOf(c) : m.send \in {"received", "sent"}}
StatusMessageKey(c) == IF Settled(c) = {} THEN 0 ELSE Last(Settled(c)).id
Shown(c) ==
  IF drafts[c] # 0 THEN "draft"
  ELSE IF Settled(c) = {} THEN "unanswered"
  ELSE IF statuses[c].key = StatusMessageKey(c) THEN statuses[c].status
  ELSE IF Last(Settled(c)).send = "sent" THEN "answered" ELSE "unanswered"

TypeOK ==
  /\ \A m \in mail : m.id \in 1..made /\ m.conv \in Convs /\ m.date \in Dates /\ m.seen \in BOOLEAN
  /\ \A m \in mail : m.send \in {"received", "queued", "sending", "sent"}
  /\ \A c \in Convs : drafts[c] \in Dates \cup {0}
  /\ \A c \in Listed : Shown(c) \in {"draft", "answered", "unanswered", "no_action"}
  /\ \A h \in Handlers : requests[h].keys \subseteq 1..made
  /\ walk.kept \subseteq Listed /\ made \in 0..MaxMail /\ asked \in 0..MaxRequests /\ changes \in 0..MaxChanges

-----------------------------------------------------------------------------
(* What happens to the mailbox meanwhile.                                  *)

\* The rows and messages that stay where they were under the readers.
Track ==
  /\ walk' = [walk EXCEPT !.kept = {c \in @ : c \in Listed' /\ Latest(c)' = Latest(c)}]
  /\ window' = [window EXCEPT !.kept = {p \in @ : \E m \in mail' : Place(m) = p}]

Change == changes < MaxChanges /\ changes' = changes + 1

Arrive(c) ==
  /\ made < MaxMail /\ made' = made + 1
  /\ \E d \in Dates :
       mail' = mail \cup {[id |-> made', conv |-> c, date |-> d, send |-> "received", seen |-> FALSE]}
  /\ UNCHANGED <<drafts, statuses, requests, asked, changes>> /\ Track

\* A message of the composer: its draft goes, its outbox row comes.
Send(c) ==
  /\ made < MaxMail /\ made' = made + 1 /\ drafts' = [drafts EXCEPT ![c] = 0]
  /\ mail' = mail \cup {[id |-> made', conv |-> c, date |-> Max(Dates), send |-> "queued", seen |-> TRUE]}
  /\ UNCHANGED <<statuses, requests, asked, changes>> /\ Track

Deliver(m) ==
  /\ m.send \in {"queued", "sending"} /\ Change
  /\ mail' = (mail \ {m}) \cup {[m EXCEPT !.send = IF @ = "queued" THEN "sending" ELSE "sent"]}
  /\ UNCHANGED <<drafts, statuses, requests, made, asked>> /\ Track

\* The mirror forgets a message that is gone, or moved, upstream.
Vanish(m) ==
  /\ m.send \in {"received", "sent"} /\ Change
  /\ mail' = mail \ {m}
  /\ UNCHANGED <<drafts, statuses, requests, made, asked>> /\ Track

SaveDraft(c) ==
  /\ Change
  /\ \E d \in Dates : drafts' = [drafts EXCEPT ![c] = d]
  /\ UNCHANGED <<mail, statuses, requests, made, asked>> /\ Track

-----------------------------------------------------------------------------
(* Acting on a conversation: the handlers read it, then write.             *)

Ops == {"status", "read", "unread", "delete", "message", "start"}

\* conversationPageData and findConversation; "start" is for a recipient nobody wrote to.
ReadConversation(h, c) ==
  /\ requests[h] = NoRequest /\ asked < MaxRequests /\ asked' = asked + 1
  /\ \E op \in Ops :
       /\ IF op = "start" THEN c \notin Listed ELSE c \in Listed
       /\ \E messages \in IF op = "message" THEN {{m} : m \in MessagesOf(c)} ELSE {MessagesOf(c)} :
            requests' = [requests EXCEPT ![h] =
              [step |-> "read", op |-> op, conv |-> c, keys |-> {m.id : m \in messages},
               rows |-> {Place(m) : m \in {n \in messages : n.send # "received"}}, key |-> StatusMessageKey(c)]]
  /\ UNCHANGED <<mail, drafts, statuses, walk, window, made, changes>>

Doing(h, op) == requests[h].step = "read" /\ requests[h].op = op
Finish(h) == requests' = [requests EXCEPT ![h] = NoRequest]

HandleStatus(h) ==
  /\ Doing(h, "status") /\ Finish(h)
  /\ \E s \in {"answered", "unanswered", "no_action"} :
       statuses' = IF requests[h].key = 0 THEN statuses
                   ELSE [statuses EXCEPT ![requests[h].conv] = [status |-> s, key |-> requests[h].key]]
  /\ UNCHANGED <<mail, drafts, walk, window, made, asked, changes>>

TargetsNow(h) == {m \in mail : m.conv = requests[h].conv /\ m.send = "received"}
\* The mirrored messages a request is about: those it has read that are still there.
Targets(h) == {m \in mail : m.id \in requests[h].keys /\ m.send = "received"}

HandleSeen(h) ==
  /\ Doing(h, "read") \/ Doing(h, "unread")
  /\ Finish(h)
  /\ mail' = (mail \ Targets(h)) \cup {[m EXCEPT !.seen = requests[h].op = "read"] : m \in Targets(h)}
  /\ UNCHANGED <<drafts, statuses, made, asked, changes>> /\ Track

\* Outbox rows are deleted one by one in the order of the conversation; one that is
\* being sent or is gone refuses, and with it the rest of the request.
DeleteOutgoing(h) ==
  /\ Doing(h, "delete") \/ Doing(h, "message")
  /\ LET free == {m \in mail : Place(m) \in requests[h].rows /\ m.send # "sending"}
         busy == requests[h].rows \ {Place(m) : m \in free} IN
       /\ mail' = mail \ {m \in free : \A p \in busy : Before(Place(m), p)}
       /\ requests' = [requests EXCEPT ![h] = IF busy = {} THEN [@ EXCEPT !.step = "move"] ELSE NoRequest]
  /\ UNCHANGED <<drafts, statuses, made, asked, changes>> /\ Track

\* Moves to the trash, or deletions, are queued in one transaction ...
QueueMoves(h) ==
  /\ requests[h].step = "move"
  /\ mail' = mail \ Targets(h)
  /\ requests' = [requests EXCEPT ![h] = IF @.op = "delete" THEN [@ EXCEPT !.step = "drafts"] ELSE NoRequest]
  /\ UNCHANGED <<drafts, statuses, made, asked, changes>> /\ Track

\* ... and the draft would keep the conversation alive.
DeleteDrafts(h) ==
  /\ requests[h].step = "drafts" /\ Finish(h)
  /\ drafts' = [drafts EXCEPT ![requests[h].conv] = 0]
  /\ UNCHANGED <<mail, statuses, made, asked, changes>> /\ Track

HandleStartConversation(h) ==
  /\ Doing(h, "start") /\ Finish(h)
  /\ \E d \in Dates : drafts' = [drafts EXCEPT ![requests[h].conv] = d]
  /\ UNCHANGED <<mail, statuses, made, asked, changes>> /\ Track

-----------------------------------------------------------------------------
(* Paging through the list: the latest first, then by id.                  *)

Row(c) == <<Latest(c), c>>
AtCursorByDate(p, cursor) == p[1] >= cursor[1]
BeforeOrAtCursor(p, cursor) == p[1] > cursor[1] \/ (p[1] = cursor[1] /\ p[2] <= cursor[2])

Rest == IF walk.at = "start" THEN Listed ELSE {c \in Listed : ~BeforeOrAtCursor(Row(c), walk.cursor)}
Page == {c \in Rest : Cardinality({d \in Rest \ {c} : BeforeOrAtCursor(Row(d), Row(c))}) < PageSize}

StartWalk ==
  /\ walk.at = "none" /\ window.conv = 0 /\ Listed # {}
  /\ walk' = [NoWalk EXCEPT !.at = "start", !.kept = Listed]
  /\ UNCHANGED <<mail, drafts, statuses, requests, window, made, asked, changes>>

NextPage ==
  /\ walk.at \in {"start", "more"}
  /\ walk' = [walk EXCEPT
       !.at = IF Page = Rest THEN "done" ELSE "more",
       !.cursor = IF Page = {} THEN @ ELSE Row(CHOOSE c \in Page : \A d \in Page : BeforeOrAtCursor(Row(d), Row(c))),
       !.got = [c \in Convs |-> IF c \in Page THEN Min({2, @[c] + 1}) ELSE @[c]]]
  /\ UNCHANGED <<mail, drafts, statuses, requests, window, made, asked, changes>>

EndWalk ==
  /\ walk.at = "done" /\ walk' = NoWalk
  /\ UNCHANGED <<mail, drafts, statuses, requests, window, made, asked, changes>>

-----------------------------------------------------------------------------
(* The window of an open conversation.                                     *)

Places(c) == {Place(m) : m \in MessagesOf(c)}
Lowest(places) == CHOOSE p \in places : \A q \in places : q = p \/ Before(p, q)
Highest(places) == CHOOSE p \in places : \A q \in places : q = p \/ Before(q, p)
FirstOf(places) == {p \in places : Cardinality({q \in places : Before(q, p)}) < WindowSize}
LastOf(places) == {p \in places : Cardinality({q \in places : Before(p, q)}) < WindowSize}

\* What a page adds, and what is left on both sides of it.
Extended(w, page) ==
  LET got == w.got \cup page
      low == IF got = {} THEN w.oldest ELSE Lowest(got)
      high == IF got = {} THEN w.newest ELSE Highest(got) IN
    [w EXCEPT !.got = got, !.oldest = low, !.newest = high,
       !.more = \E p \in Places(w.conv) : Before(p, low),
       !.newer = \E p \in Places(w.conv) : Before(high, p)]

\* The latest messages, or those around one that a search has found.
OpenConversation(c) ==
  /\ window.conv = 0 /\ walk.at = "none" /\ MessagesOf(c) # {}
  /\ \E page \in {LastOf(Places(c))} \cup {{p} : p \in Places(c)} :
       window' = Extended([NoWindow EXCEPT !.conv = c, !.kept = Places(c)], page)
  /\ UNCHANGED <<mail, drafts, statuses, requests, walk, made, asked, changes>>

Older == {p \in Places(window.conv) : Before(p, window.oldest)}
Newer == {p \in Places(window.conv) : Before(window.newest, p)}
LoadOlder ==
  /\ window.conv # 0 /\ window.more
  /\ window' = [Extended(window, LastOf(Older)) EXCEPT !.newer = window.newer,
                  !.more = Older # {} /\ Older # LastOf(Older)]
  /\ UNCHANGED <<mail, drafts, statuses, requests, walk, made, asked, changes>>
LoadNewer ==
  /\ window.conv # 0 /\ window.newer
  /\ window' = [Extended(window, FirstOf(Newer)) EXCEPT !.more = window.more,
                  !.newer = Newer # {} /\ Newer # FirstOf(Newer)]
  /\ UNCHANGED <<mail, drafts, statuses, requests, walk, made, asked, changes>>

\* A refresh asks for what lies between the ends, and all the newer if the window has the
\* last message; the server answers from what it has
\* then, and the answer replaces the window when its ends are still the same.
Ends == <<window.oldest, window.newest, window.newer>>
Between(w) ==
  IF w.newer THEN {p \in Places(w.conv) : ~Before(p, w.oldest) /\ ~Before(w.newest, p)}
  ELSE {p \in Places(w.conv) : ~Before(p, w.oldest)} \cup LastOf(Places(w.conv))
AnswerRefresh ==
  /\ window.conv # 0 /\ window.refresh = NoRefresh
  /\ LET fresh == Extended([window EXCEPT !.got = {}], Between(window)) IN
       window' = [window EXCEPT !.refresh =
         [ends |-> Ends, got |-> fresh.got, oldest |-> fresh.oldest, newest |-> fresh.newest,
          more |-> fresh.more, newer |-> fresh.newer]]
  /\ UNCHANGED <<mail, drafts, statuses, requests, walk, made, asked, changes>>

SameEndsAny(r) == TRUE
SameEnds(r) == r.ends = Ends
ApplyRefresh ==
  /\ window.refresh # NoRefresh
  /\ LET r == window.refresh IN
       window' = IF SameEnds(r)
                 THEN [window EXCEPT !.refresh = NoRefresh, !.got = r.got, !.oldest = r.oldest,
                         !.newest = r.newest, !.more = r.more, !.newer = r.newer]
                 ELSE [window EXCEPT !.refresh = NoRefresh]
  /\ UNCHANGED <<mail, drafts, statuses, requests, walk, made, asked, changes>>

CloseConversation ==
  /\ window.conv # 0 /\ window' = NoWindow
  /\ UNCHANGED <<mail, drafts, statuses, requests, walk, made, asked, changes>>

Next ==
  \/ \E c \in Convs : Arrive(c) \/ Send(c) \/ SaveDraft(c) \/ OpenConversation(c)
  \/ \E m \in mail : Deliver(m) \/ Vanish(m)
  \/ \E h \in Handlers :
       \/ HandleStatus(h) \/ HandleSeen(h) \/ DeleteOutgoing(h) \/ QueueMoves(h) \/ DeleteDrafts(h)
       \/ HandleStartConversation(h)
       \/ \E c \in Convs : ReadConversation(h, c)
  \/ StartWalk \/ NextPage \/ EndWalk
  \/ LoadOlder \/ LoadNewer \/ AnswerRefresh \/ ApplyRefresh \/ CloseConversation

Spec == Init /\ [][Next]_vars

-----------------------------------------------------------------------------
(* What the readers and the people who act rely on.                        *)

\* "Pagination cursors need a total order" (conversations.go:461-464): a walk through
\* the pages, while mail comes and goes, returns every row that stayed where it was
\* exactly once; and a window shows every message between its ends that was there all
\* the time, and all of them when nothing is left on either side.
PagesCoverAll ==
  /\ walk.at = "done" => \A c \in walk.kept : walk.got[c] = 1
  /\ window.conv # 0 => \A p \in window.kept :
       \/ p \in window.got
       \/ Before(p, window.oldest) /\ window.more
       \/ Before(window.newest, p) /\ window.newer

\* A message that comes while somebody deletes its conversation, or marks it read, is
\* neither deleted nor read: only what the request has read changes (save that a draft
\* saved meanwhile goes with the conversation).
NewMailUntouched ==
  \A h \in Handlers :
    (requests[h].op # "none" /\ requests'[h] # requests[h])
      => \A m \in mail : m.id \notin requests[h].keys => m \in mail'

\* "A page may finish during refresh. Re-read both boundaries before replacing the cache,
\* retaining extensions in either direction" (use-conversation-messages.ts:46-47): a
\* message the reader has loaded stays in the open conversation while it exists.
LoadedStays ==
  (window.conv # 0 /\ window'.conv # 0) => (window.got \cap window'.kept) \subseteq window'.got

=============================================================================
