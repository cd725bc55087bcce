------------------------------ MODULE MCMailbox ------------------------------
(* What a user meets around the mailbox, on small instances: drafts,          *)
(* conversations, threads, the event stream, the accounts and their           *)
(* synchronizer loops.  As modelled they share no variable, so a behaviour    *)
(* chooses the one that works, and the others stay where they begin (see      *)
(* MCAssistant).  Drafts work in two instances: they are discarded and sent   *)
(* ("drafts") with few texts, or typed at length while few are ("typing").    *)
EXTENDS Integers

CONSTANTS Handlers, Nobody, None,
          Windows, Peers, MaxWindows, MaxTexts, FewTexts, MaxThrown, FewThrown, MaxDrafts,
          MaxLosses,
          Convs, Dates, Readers, PageSize, WindowSize, MaxMail, MaxActs, MaxChanges,
          Mailboxes, Uids, MessageIds, Subjects, Headers, ListingSize, MaxThreadMail,
          MaxListings, MaxCacheFaults,
          Tabs, Writers, MaxConnections, MaxIdleWatchers, Buffer, MaxRevisions, MaxLoads,
          MaxCloses, MaxCrashes,
          MaxAccounts, MaxLoops, MaxRequests

VARIABLES working,   \* the component of this behaviour
          drafts, minted, draftRequests, locked, tabs, windows, thrown, losses,
          mail, draftDates, statuses, acts, walk, window, mailMade, actsAsked, changes,
          header, mailbox, kept, phase, space, page, todo, linked, holder, parent, threads,
          arrived, listings, cacheFaults,
          changed, revision, unheard, writers, streams, stop, running, cache, due, fetches,
          early, sessions, loads, closes, crashes,
          rows, used, registry, loops, down, handlers, accountRequests

\* The messages of a thread, in the run: an answer that names its ancestors, one that knows only its
\* parent and the subject, the message that one is (which claims an unknown parent), and
\* a message without an id.
HeaderOf(id, refs, irt, subject) == [id |-> id, refs |-> refs, irt |-> irt, subject |-> subject]
ThreadHeaders ==
    LET m == CHOOSE f \in [1..3 -> MessageIds] : \A i, j \in 1..3 : i # j => f[i] # f[j]
        s == CHOOSE t \in Subjects : TRUE
    IN  {HeaderOf(m[2], <<>>, m[1], None), HeaderOf(m[3], <<m[1], m[2]>>, m[2], s),
         HeaderOf(m[1], <<>>, m[2], s), HeaderOf(None, <<>>, m[2], None)}

Drafts == INSTANCE Drafts WITH
    Tabs <- Windows, Conversations <- Peers, MaxIds <- MaxDrafts, MaxFaults <- MaxLosses,
    MaxTexts <- FewTexts, requests <- draftRequests, faults <- losses
Typing == INSTANCE Drafts WITH
    Tabs <- Windows, Conversations <- Peers, MaxIds <- MaxDrafts, MaxFaults <- MaxLosses + 1,
    MaxThrown <- FewThrown, requests <- draftRequests, faults <- losses
Reading == INSTANCE Conversations WITH
    Handlers <- Readers, MaxRequests <- MaxActs, drafts <- draftDates, requests <- acts,
    made <- mailMade, asked <- actsAsked
Threading == INSTANCE Threading WITH
    Accounts <- Mailboxes, Page <- ListingSize, MaxMail <- MaxThreadMail,
    MaxRequests <- MaxListings, MaxFaults <- MaxCacheFaults, asked <- listings,
    faults <- cacheFaults
Events == INSTANCE Realtime WITH mailbox <- changed
Loops == INSTANCE AccountLoops WITH MaxIds <- MaxAccounts, requests <- accountRequests

draftVars == <<drafts, minted, draftRequests, locked, tabs, windows, thrown, losses>>
readingVars == <<mail, draftDates, statuses, acts, walk, window, mailMade, actsAsked, changes>>
threadVars == <<header, mailbox, kept, phase, space, page, todo, linked, holder, parent,
                threads, arrived, listings, cacheFaults>>
eventVars == <<changed, revision, unheard, writers, streams, stop, running, cache, due,
               fetches, early, sessions, loads, closes, crashes>>
loopVars == <<rows, used, registry, loops, down, handlers, accountRequests>>
mailboxVars == <<working, draftVars, readingVars, threadVars, eventVars, loopVars>>

ASSUME MailboxAssumption ==
    /\ Drafts!DraftsAssumption /\ Typing!DraftsAssumption /\ Reading!ConversationsAssumption
    /\ Threading!HeadersAssumption /\ Events!RealtimeAssumption
    /\ Loops!LoopsAssumption

MailboxInit ==
    /\ working \in {"drafts", "typing", "reading", "threads", "events",
                    "loops"}
    /\ Drafts!Init /\ Reading!Init /\ Threading!Init /\ Events!Init /\ Loops!Init
    \* a component that does not work begins in one state only
    /\ working = "loops" \/ used = 0

MailboxNext ==
    \/ /\ working = "drafts" /\ Drafts!Next
       /\ UNCHANGED <<working, readingVars, threadVars, eventVars, loopVars>>
    \/ /\ working = "typing" /\ Typing!Next
       /\ UNCHANGED <<working, readingVars, threadVars, eventVars, loopVars>>
    \/ /\ working = "reading" /\ Reading!Next
       /\ UNCHANGED <<working, draftVars, threadVars, eventVars, loopVars>>
    \/ /\ working = "threads" /\ Threading!Next
       /\ UNCHANGED <<working, draftVars, readingVars, eventVars, loopVars>>
    \/ /\ working = "events" /\ Events!Next
       /\ UNCHANGED <<working, draftVars, readingVars, threadVars, loopVars>>
    \/ /\ working = "loops" /\ Loops!Next
       /\ UNCHANGED <<working, draftVars, readingVars, threadVars, eventVars>>

MailboxSpec == MailboxInit /\ [][MailboxNext]_mailboxVars

\* The variables of every component keep to their values.
MailboxTypeOK ==
    CASE working = "drafts"  -> Drafts!TypeOK
      [] working = "typing"  -> Typing!TypeOK
      [] working = "reading" -> Reading!TypeOK
      [] working = "threads" -> Threading!TypeOK
      [] working = "events"  -> Events!TypeOK
      [] working = "loops"   -> Loops!TypeOK

\* A save of a draft is resolved to the row of its conversation, never to a second one
\* (conversation_json.go, compose-dialog.tsx).
SavesAreTaken == working \in {"drafts", "typing"} => Drafts!SavesAreTaken

\* A walk through the pages returns what stayed where it was once, and an open window has no
\* gaps (conversations.go, use-conversation-messages.ts).
PagesCoverAll == working = "reading" => Reading!PagesCoverAll

\* Until a compose window is thrown away, no older text of it replaces a newer one; mail that
\* arrives while somebody acts on its conversation is left alone; loaded messages stay.
MailIsKept ==
    [][/\ working \in {"drafts", "typing"} => Drafts!NewestStaysUntilThrown
       /\ working = "reading" => Reading!NewMailUntouched /\ Reading!LoadedStays]_mailboxVars

\* Threads have no cycles, show every message once and keep answers together (threading.go).
ThreadsAreSound == working = "threads" => Threading!ThreadsAreSound

\* A connected tab at rest shows the mailbox as it is, and a watcher serves somebody
\* (notifications.go, mail_events.go, use-mail-events.ts).
EventsAreSound == working = "events" => Events!QuietIsFresh /\ Events!WatcherServes

\* Every running loop can be told to end, and a user has at most one default mailbox (sync.go,
\* accounts.go).
AccountsAreSound == working = "loops" => Loops!NoOrphan /\ Loops!AtMostOneDefault
=============================================================================
