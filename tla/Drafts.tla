------------------------------- MODULE Drafts -------------------------------
(***************************************************************************)
(* Unsent compose windows kept on the server: the compose window of every  *)
(* tab saves what is typed after a pause, one request at a time; the       *)
(* server finds the row a save belongs to and writes it under draftMu;     *)
(* sending and discarding remove the row.  One mail account; "" is the     *)
(* conversation of a new message.  A text is named by the window it was    *)
(* typed in and its place there; text 0 is what the window opened with.    *)
(***************************************************************************)
EXTENDS Integers, FiniteSets

CONSTANTS
  Tabs, Conversations,  \* compose windows on several computers; peers
  Nobody,               \* waits for no answer: a tab that is gone, a server handler
  MaxWindows,           \* bound: windows opened
  MaxTexts,             \* bound: texts typed in a window
  MaxThrown,            \* bound: windows discarded or sent
  MaxIds,               \* bound: draft ids minted
  MaxFaults             \* bound: lost requests and answers, closed tabs, handlers of others

DraftsAssumption ==
  /\ "" \in Conversations /\ "none" \notin Conversations /\ Nobody \notin Tabs
  /\ \A bound \in {MaxWindows, MaxTexts, MaxThrown, MaxIds, MaxFaults} : bound \in Nat

VARIABLES
  drafts,    \* id -> row of table drafts
  minted,    \* ids given out by newID
  requests,  \* requests on their way or being handled
  locked,    \* draftMu is held
  tabs,      \* tab -> the refs of its compose window
  windows,   \* windows opened so far
  thrown,    \* windows discarded, or whose message was queued
  faults

vars == <<drafts, minted, requests, locked, tabs, windows, thrown, faults>>

DraftIds == 1..MaxIds
NoDraft == [conversation |-> "none", text |-> [window |-> 0, n |-> 0]]
Blank == [window |-> 0, n |-> 0]
Exists(id) == drafts[id] # NoDraft
Closed == [window |-> 0, conversation |-> "", text |-> Blank, lastSaved |-> Blank, draftId |-> 0,
           saving |-> FALSE, pending |-> FALSE, discarded |-> FALSE, sending |-> FALSE, kept |-> Blank]

Init ==
  /\ drafts = [id \in DraftIds |-> NoDraft] /\ minted = 0 /\ requests = {} /\ locked = FALSE
  /\ tabs = [t \in Tabs |-> Closed] /\ windows = 0 /\ thrown = {} /\ faults = 0

Texts == [window : 0..MaxWindows, n : 0..MaxTexts]
Requests == [kind : {"save", "delete", "queue"}, tab : Tabs \cup {Nobody}, window : 0..MaxWindows,
             id : 0..MaxIds, conversation : Conversations, text : Texts,
             step : {"sent", "resolved", "answered", "failed"}]

TypeOK ==
  /\ \A id \in DraftIds : drafts[id] = NoDraft \/ (drafts[id].conversation \in Conversations /\ drafts[id].text \in Texts)
  /\ minted \in 0..MaxIds /\ requests \subseteq Requests /\ locked \in BOOLEAN
  /\ windows \in 0..MaxWindows /\ thrown \subseteq 1..MaxWindows /\ faults \in 0..MaxFaults
  /\ \A t \in Tabs :
       /\ tabs[t].window \in 0..MaxWindows /\ tabs[t].conversation \in Conversations
       /\ {tabs[t].text, tabs[t].lastSaved, tabs[t].kept} \subseteq Texts /\ tabs[t].draftId \in 0..MaxIds

-----------------------------------------------------------------------------
(* The compose window.                                                     *)

Request(kind, t, tab) ==
  [kind |-> kind, tab |-> t, window |-> tab.window, id |-> tab.draftId,
   conversation |-> tab.conversation, text |-> tab.text, step |-> "sent"]

\* Nothing to save: closed, unchanged, or empty.
Unsaved(tab) == tab.window # 0 /\ tab.text # tab.lastSaved

PostponedNever(tab) == FALSE
\* "One write at a time": a change during a save is remembered.
Postponed(tab) == tab.saving

\* saveDraftRef and persistDraft: what the window and the network become.
AfterSave(tab) == IF ~Unsaved(tab) THEN tab
                  ELSE IF Postponed(tab) THEN [tab EXCEPT !.pending = TRUE]
                  ELSE [tab EXCEPT !.saving = TRUE]
SaveRequest(t, tab) ==
  IF Unsaved(tab) /\ ~Postponed(tab) THEN {Request("save", t, tab)} ELSE {}

\* The window opens on the stored draft, unless reading it takes too long; refs of
\* a save that is still under way stay as they are.
Open(t) ==
  /\ windows < MaxWindows /\ tabs[t].window = 0 /\ windows' = windows + 1
  /\ \E c \in Conversations :
       \E id \in {0} \cup {i \in DraftIds : Exists(i) /\ drafts[i].conversation = c} :
         LET text == IF id = 0 THEN Blank ELSE drafts[id].text IN
         tabs' = [tabs EXCEPT ![t] = [@ EXCEPT !.window = windows', !.conversation = c, !.text = text,
                    !.lastSaved = text, !.draftId = id, !.discarded = FALSE, !.kept = Blank]]
  /\ UNCHANGED <<drafts, minted, requests, locked, thrown, faults>>

Type(t) ==
  /\ tabs[t].window # 0
  /\ LET text == tabs[t].text
         n == IF text.window = tabs[t].window THEN text.n + 1 ELSE 1 IN
     n <= MaxTexts /\ tabs' = [tabs EXCEPT ![t].text = [window |-> tabs[t].window, n |-> n]]
  /\ UNCHANGED <<drafts, minted, requests, locked, windows, thrown, faults>>

\* The pause in typing is over.
Autosave(t) ==
  /\ Unsaved(tabs[t]) /\ requests' = requests \cup SaveRequest(t, tabs[t])
  /\ tabs' = [tabs EXCEPT ![t] = AfterSave(@)]
  /\ UNCHANGED <<drafts, minted, locked, windows, thrown, faults>>

\* handleClose: flush, then the window is gone.
Close(t) ==
  /\ tabs[t].window # 0
  /\ requests' = requests \cup SaveRequest(t, tabs[t])
  /\ tabs' = [tabs EXCEPT ![t] = [AfterSave(@) EXCEPT !.window = 0,
                !.kept = IF tabs[t].text.window = tabs[t].window THEN tabs[t].text ELSE Blank]]
  /\ UNCHANGED <<drafts, minted, locked, windows, thrown, faults>>

\* forgetDraft.
Forgotten(tab) == [tab EXCEPT !.discarded = TRUE, !.draftId = 0, !.lastSaved = Blank, !.text = Blank,
                              !.saving = FALSE, !.pending = FALSE, !.window = 0]
Deleting(t) == IF tabs[t].draftId = 0 THEN {} ELSE {Request("delete", t, tabs[t])}

Discard(t) ==
  /\ tabs[t].window # 0 /\ Cardinality(thrown) < MaxThrown
  /\ requests' = requests \cup Deleting(t) /\ tabs' = [tabs EXCEPT ![t] = Forgotten(@)]
  /\ thrown' = thrown \cup {tabs[t].window}
  /\ UNCHANGED <<drafts, minted, locked, windows, faults>>

\* submit: autosaves go on until the answer.
Submit(t) ==
  /\ tabs[t].window # 0 /\ ~tabs[t].sending /\ Cardinality(thrown) < MaxThrown
  /\ requests' = requests \cup {Request("queue", t, tabs[t])}
  /\ tabs' = [tabs EXCEPT ![t].sending = TRUE]
  /\ UNCHANGED <<drafts, minted, locked, windows, thrown, faults>>

Answered(kind, t, r) == r.kind = kind /\ r.tab = t /\ r.step \in {"answered", "failed"}

\* The answer to a save: a discarded window deletes the row, a window that is still
\* open adopts the id; then a postponed change is sent.
SaveReturns(t) ==
  \E r \in requests :
    /\ Answered("save", t, r)
    /\ LET tab == tabs[t]
           ok == r.step = "answered"
           deletes == ok /\ tab.discarded
           adopted == IF ok /\ ~tab.discarded /\ tab.window = r.window
                        THEN [tab EXCEPT !.draftId = r.id, !.lastSaved = r.text] ELSE tab
           settled == [adopted EXCEPT !.saving = FALSE, !.pending = FALSE] IN
       /\ tabs' = [tabs EXCEPT ![t] = IF tab.pending THEN AfterSave(settled) ELSE settled]
       /\ requests' = (requests \ {r})
                        \cup (IF deletes THEN {[r EXCEPT !.kind = "delete", !.step = "sent"]} ELSE {})
                        \cup (IF tab.pending THEN SaveRequest(t, settled) ELSE {})
  /\ UNCHANGED <<drafts, minted, locked, windows, thrown, faults>>

\* Whatever window is open by then is forgotten.
QueueReturns(t) ==
  \E r \in requests :
    /\ Answered("queue", t, r) /\ requests' = (requests \ {r}) \cup (IF r.step = "answered" THEN Deleting(t) ELSE {})
    /\ tabs' = [tabs EXCEPT ![t] = [(IF r.step = "answered" THEN Forgotten(@) ELSE @) EXCEPT !.sending = FALSE]]
    /\ UNCHANGED <<drafts, minted, locked, windows, thrown, faults>>

\* The tab is closed or the browser dies: requests already sent are handled.
Die(t) ==
  /\ faults < MaxFaults /\ faults' = faults + 1 /\ tabs[t] # Closed
  /\ tabs' = [tabs EXCEPT ![t] = Closed]
  /\ requests' = {IF r.tab = t THEN [r EXCEPT !.tab = Nobody] ELSE r :
                    r \in {q \in requests : q.tab # t \/ q.step \in {"sent", "resolved"}}}
  /\ UNCHANGED <<drafts, minted, locked, windows, thrown>>

\* A request or its answer is lost.
Lose ==
  \E r \in requests :
    /\ faults < MaxFaults /\ faults' = faults + 1 /\ r.step \in {"sent", "answered"}
    /\ requests' = (requests \ {r})
                     \cup (IF r.kind = "delete" \/ r.tab = Nobody THEN {} ELSE {[r EXCEPT !.step = "failed"]})
    /\ UNCHANGED <<drafts, minted, locked, tabs, windows, thrown>>

-----------------------------------------------------------------------------
(* The server.                                                             *)

Goto(r, s) == requests' = (requests \ {r}) \cup {s}
Done(r) == requests' = requests \ {r}
Reply(r, s) == IF r.tab = Nobody THEN Done(r) ELSE Goto(r, [r EXCEPT !.step = s])

\* The row of the conversation; else the row the client names, if it belongs to no
\* other conversation; else a new one.
OfConversation(c) == {id \in DraftIds : c # "" /\ drafts[id].conversation = c}
Named(r) == {id \in DraftIds : id = r.id /\ Exists(id) /\ drafts[id].conversation \in {"", r.conversation}}
LockFree == TRUE
MayLock == ~locked
Resolve ==
  \E r \in requests :
    /\ r.kind = "save" /\ r.step = "sent" /\ MayLock /\ locked' = TRUE
    /\ \E id \in DraftIds :
         /\ IF OfConversation(r.conversation) # {} THEN id \in OfConversation(r.conversation) /\ UNCHANGED minted
            ELSE IF Named(r) # {} THEN id \in Named(r) /\ UNCHANGED minted
            ELSE id = minted + 1 /\ minted' = id
         /\ Goto(r, [r EXCEPT !.id = id, !.step = "resolved"])
    /\ UNCHANGED <<drafts, tabs, windows, thrown, faults>>

\* The unique index refuses a second row of a conversation.
Refused(r) == \E id \in OfConversation(r.conversation) : id # r.id
Upsert ==
  \E r \in requests :
    /\ r.kind = "save" /\ r.step = "resolved" /\ locked' = FALSE
    /\ IF Refused(r) THEN UNCHANGED drafts
       ELSE drafts' = [drafts EXCEPT ![r.id] = [conversation |-> r.conversation, text |-> r.text]]
    /\ Reply(r, IF Refused(r) THEN "failed" ELSE "answered")
    /\ UNCHANGED <<minted, tabs, windows, thrown, faults>>

DeleteDraft ==
  \E r \in requests :
    /\ r.kind = "delete" /\ r.step = "sent" /\ Done(r)
    /\ drafts' = [drafts EXCEPT ![r.id] = NoDraft]
    /\ UNCHANGED <<minted, locked, tabs, windows, thrown, faults>>

\* queueOutgoingCompose: the message is saved first, then the conversation's drafts go.
Queue ==
  \E r \in requests :
    /\ r.kind = "queue" /\ r.step = "sent" /\ Goto(r, [r EXCEPT !.step = "resolved"])
    /\ thrown' = thrown \cup {r.window}
    /\ UNCHANGED <<drafts, minted, locked, tabs, windows, faults>>

DeleteDraftsForConversation ==
  \E r \in requests :
    /\ r.kind = "queue" /\ r.step = "resolved" /\ Reply(r, "answered")
    /\ drafts' = [id \in DraftIds |-> IF id \in OfConversation(r.conversation) THEN NoDraft ELSE drafts[id]]
    /\ UNCHANGED <<minted, locked, tabs, windows, thrown, faults>>

\* HandleStartConversationJSON: no conversation and no draft of it was found; an empty
\* draft is saved for it.
StartConversation ==
  \E c \in Conversations \ {""} :
    /\ OfConversation(c) = {} /\ faults < MaxFaults /\ faults' = faults + 1
    /\ requests' = requests \cup {[Request("save", Nobody, Closed) EXCEPT !.conversation = c]}
    /\ UNCHANGED <<drafts, minted, locked, tabs, windows, thrown>>

\* HandleConversationDeleteJSON: the drafts listed are deleted one by one.
PurgeConversation ==
  \E c \in Conversations \ {""} :
    \E id \in OfConversation(c) :
      /\ faults < MaxFaults /\ faults' = faults + 1
      /\ requests' = requests \cup {[Request("delete", Nobody, Closed) EXCEPT !.id = id]}
      /\ UNCHANGED <<drafts, minted, locked, tabs, windows, thrown>>

Next ==
  \/ \E t \in Tabs : \/ Open(t) \/ Type(t) \/ Autosave(t) \/ Close(t) \/ Discard(t) \/ Submit(t)
                     \/ SaveReturns(t) \/ QueueReturns(t) \/ Die(t)
  \/ StartConversation \/ PurgeConversation \/ Lose \/ Resolve \/ Upsert \/ DeleteDraft \/ Queue \/ DeleteDraftsForConversation

Spec == Init /\ [][Next]_vars

-----------------------------------------------------------------------------

\* "A draft belongs to exactly one (owner, account, conversation)": the row a save was
\* resolved to is never a second one of its conversation, so the index refuses nothing.
SavesAreTaken == \A r \in requests : r.kind = "save" /\ r.step = "resolved" => ~Refused(r)

\* "One write at a time ... so an older body can never land on top of a newer one":
\* what one window stored is not replaced by an earlier text of that window.
OlderLandsNever ==
  \A id \in DraftIds : Exists(id) /\ drafts'[id] # NoDraft /\ drafts'[id].text.window = drafts[id].text.window
    => drafts'[id].text.n >= drafts[id].text.n
NewestStays == [][OlderLandsNever]_vars

\* It holds as long as no window was thrown away: forgetDraft clears savingRef while
\* a save of the window is under way.
NewestStaysUntilThrown == thrown = {} => OlderLandsNever

\* "Closing keeps the draft - that is the whole point of storing it on the server - but
\* anything typed inside the debounce window is flushed first."
ClosingKeeps ==
  \A t \in Tabs : tabs[t].kept # Blank /\ requests = {} =>
    \E id \in DraftIds : Exists(id) /\ drafts[id].text = tabs[t].kept

\* "Set when the window is thrown away while a save is in flight, so the row that save
\* writes cannot outlive the discard": nor does a sent reply leave its draft behind.
ThrownStaysAway == requests = {} => \A id \in DraftIds : Exists(id) => drafts[id].text.window \notin thrown
=============================================================================
