------------------------------- MODULE Calendar -------------------------------
(* One user's CalDAV calendar as the JSON API edits it (handlers/jsonapi/     *)
(* calendar.go over handlers/api/caldav.go): events are created, updated and  *)
(* deleted by uid or by path, a meeting mails its invitations, and an answer  *)
(* to somebody else's invitation is mailed and then shown in the calendar.    *)
(* The server keeps one object per path and takes every PUT: a request sends  *)
(* no precondition.  An object holds the series of an event, an override of   *)
(* one of its occurrences, or both.                                           *)
EXTENDS Naturals, FiniteSets

CONSTANTS Uids,         \* identities of events; a create without one takes it from the start time
          Handlers,     \* requests served at the same time
          Guests,       \* whom a meeting can invite
          Nowhere,      \* no path: the body of an update may lack it
          MaxRequests,  \* bound on requests
          MaxFaults,    \* bound on failing calls to the two servers
          MaxForeign    \* bound on what the user's other calendar clients write

CalendarAssumption ==
    /\ IsFiniteSet(Uids) /\ IsFiniteSet(Handlers) /\ IsFiniteSet(Guests)
    /\ {MaxRequests, MaxFaults, MaxForeign} \subseteq Nat

VARIABLES objects,   \* the calendar: path -> object, or None
          req,       \* what each handler is doing
          invited,   \* invitations mailed, by uid and text
          stored,    \* history: the events the calendar has accepted, by uid and text
          told,      \* history: the answers mailed to organizers, with their uids
          asked,     \* requests made so far: the text of the next one
          faults, foreign

vars == <<objects, req, invited, stored, told, asked, faults, foreign>>

Answers == {"ACCEPTED", "TENTATIVE", "DECLINED"}
\* An object lies at <uid>.ics, where this program puts it, or where another client put it.
Paths == Uids \X {"own", "other"}
None == [text |-> 0]
\* reply is the user's own PARTSTAT, near tells whether the event is within five years of now.
Object == [series : BOOLEAN, override : BOOLEAN, text : 1 .. MaxRequests + MaxForeign,
           reply : Answers \cup {"NEEDS-ACTION"}, near : BOOLEAN]
Idle == [op |-> "idle"]

Exists(p) == objects[p] # None
CopiesIn(calendar, u) == {p \in Paths : p[1] = u /\ calendar[p] # None}
Copies(u) == CopiesIn(objects, u)

TypeOK ==
    /\ objects \in [Paths -> Object \cup {None}]
    /\ \A h \in Handlers : req[h].op \in {"idle", "create", "update", "delete", "answer", "form"}
    /\ invited \subseteq Uids \X (1 .. MaxRequests + MaxForeign) \X Guests
    /\ stored \subseteq Uids \X (1 .. MaxRequests + MaxForeign)
    /\ told \subseteq Uids \X Answers
    /\ asked \in 0 .. MaxRequests /\ faults \in 0 .. MaxFaults /\ foreign \in 0 .. MaxForeign

Init ==
    /\ objects = [p \in Paths |-> None]
    /\ req = [h \in Handlers |-> Idle]
    /\ invited = {} /\ stored = {}
    /\ told = {}
    /\ asked = 0 /\ faults = 0 /\ foreign = 0

-----------------------------------------------------------------------------
(* Requests.  A client knows the path of an event from an earlier listing.   *)

Take(h, r) ==
    /\ req[h] = Idle /\ asked < MaxRequests
    /\ asked' = asked + 1
    /\ req' = [req EXCEPT ![h] = r]
    /\ UNCHANGED <<objects, invited, stored, told, faults, foreign>>

\* handleCreateEvent: the body names no path.
AskCreate(h) == \E u \in Uids, gs \in SUBSET Guests :
    Take(h, [op |-> "create", pc |-> "put", uid |-> u, path |-> Nowhere, guests |-> gs,
             text |-> asked + 1, single |-> FALSE, reply |-> "NEEDS-ACTION"])

\* HandleCreateEvent, the form of the older pages, which invites nobody.
AskCreateForm(h) == \E u \in Uids :
    Take(h, [op |-> "create", pc |-> "put", uid |-> u, path |-> Nowhere, guests |-> {},
             text |-> asked + 1, single |-> FALSE, reply |-> "NEEDS-ACTION"])

\* handleUpdateEvent: the whole event as the client last saw it, with its changes; single when
\* the client marks it, with a recurrence id, as a change of one occurrence.
AskUpdate(h) == \E u \in Uids, gs \in SUBSET Guests, single \in BOOLEAN :
    \E p \in Copies(u) \cup {Nowhere} :
        Take(h, [op |-> "update", pc |-> "put", uid |-> u, path |-> p, guests |-> gs,
                 text |-> asked + 1, single |-> single,
                 reply |-> IF p = Nowhere THEN "NEEDS-ACTION" ELSE objects[p].reply])

AskDelete(h) == \E u \in Uids :
    Take(h, [op |-> "delete", pc |-> "find", uid |-> u])

\* handleCalendarRSVP, about an invitation somebody mailed to the user.
AskAnswer(h) == \E u \in Uids, a \in Answers :
    Take(h, [op |-> "answer", pc |-> "reply", uid |-> u, path |-> Nowhere, guests |-> {},
             text |-> asked + 1, single |-> FALSE, reply |-> a])

\* HandleRSVP, the form of the older pages, which leaves the calendar alone.
AskAnswerForm(h) == \E u \in Uids, a \in Answers :
    Take(h, [op |-> "form", pc |-> "reply", uid |-> u, reply |-> a])

-----------------------------------------------------------------------------
(* The steps of a request.                                                    *)

End(h) == req' = [req EXCEPT ![h] = Idle]
Goto(h, pc) == req' = [req EXCEPT ![h].pc = pc]

\* The object a write goes to: the known one, else <calendar>/<uid>.ics.
TargetOwn(r) == <<r.uid, "own">>   \* a mutated form
Target(r) == IF r.path # Nowhere THEN r.path ELSE <<r.uid, "own">>

\* The one VEVENT that replaces whatever the object held.
Built(r) == [series |-> ~r.single, override |-> r.single, text |-> r.text,
             reply |-> r.reply, near |-> TRUE]

\* putEvent: an accepted PUT.  An answer ends here, the others go on to mail invitations.
Put(h) ==
    /\ req[h].op \in {"create", "update", "answer"} /\ req[h].pc = "put"
    /\ objects' = [objects EXCEPT ![Target(req[h])] = Built(req[h])]
    /\ stored' = stored \cup {<<req[h].uid, req[h].text>>}
    /\ IF req[h].guests = {} THEN End(h) ELSE Goto(h, "invite")
    /\ UNCHANGED <<invited, told, asked, faults, foreign>>

\* What follows a PUT that failed: an error, and no mail.
AfterRefusalInvite(r) == IF r.guests = {} THEN Idle ELSE [r EXCEPT !.pc = "invite"]   \* a mutated form
AfterRefusal(r) == Idle

PutFails(h) ==
    /\ req[h].op \in {"create", "update", "answer"} /\ req[h].pc = "put"
    /\ faults < MaxFaults
    /\ faults' = faults + 1
    /\ req' = [req EXCEPT ![h] = AfterRefusal(req[h])]
    /\ UNCHANGED <<objects, invited, stored, told, asked, foreign>>

\* BuildRequestICS: what an invitation says of the event, to whom.
Invitation(r, g) == <<r.uid, r.text, g>>

\* sendInvites: one message per guest; a failed one is counted in a warning and not retried.
Invite(h) ==
    /\ req[h].op \in {"create", "update"} /\ req[h].pc = "invite"
    /\ \E g \in req[h].guests :
        LET rest == req[h].guests \ {g}
            left == IF rest = {} THEN Idle ELSE [req[h] EXCEPT !.guests = rest]
        IN  /\ req' = [req EXCEPT ![h] = left]
            /\ \/ invited' = invited \cup {Invitation(req[h], g)} /\ faults' = faults
               \/ faults < MaxFaults /\ faults' = faults + 1 /\ invited' = invited
    /\ UNCHANGED <<objects, stored, told, asked, foreign>>

\* BuildReplyICS: what an answer says.
Answer(r) == <<r.uid, r.reply>>

\* The answer is mailed first; nothing is shown in the calendar when the mail fails.
AfterReply(r) == IF r.op = "form" THEN Idle
                 ELSE [r EXCEPT !.pc = IF r.reply = "DECLINED" THEN "find" ELSE "put"]

Reply(h) ==
    /\ req[h].op \in {"answer", "form"} /\ req[h].pc = "reply"
    /\ told' = told \cup {Answer(req[h])}
    /\ req' = [req EXCEPT ![h] = AfterReply(req[h])]
    /\ UNCHANGED <<objects, invited, stored, asked, faults, foreign>>

AfterLostReplyShow(r) == IF r.op = "form" THEN Idle ELSE [r EXCEPT !.pc = "put"]   \* a mutated form
AfterLostReply(r) == Idle

ReplyFails(h) ==
    /\ req[h].op \in {"answer", "form"} /\ req[h].pc = "reply"
    /\ faults < MaxFaults
    /\ faults' = faults + 1
    /\ req' = [req EXCEPT ![h] = AfterLostReply(req[h])]
    /\ UNCHANGED <<objects, invited, stored, told, asked, foreign>>

\* DeleteEvent looks the uid up in a listing of ten years; the first object that holds it goes.
Findable(u) == {p \in Copies(u) : objects[p].near}

Find(h) ==
    /\ req[h].op \in {"delete", "answer"} /\ req[h].pc = "find"
    /\ \/ \E p \in Findable(req[h].uid) :
            req' = [req EXCEPT ![h] = [op |-> req[h].op, pc |-> "remove", uid |-> req[h].uid,
                                       path |-> p, guests |-> {}]]
       \/ Findable(req[h].uid) = {} /\ End(h)
    /\ UNCHANGED <<objects, invited, stored, told, asked, faults, foreign>>

\* The DELETE names the path alone: it removes what lies there now.
Remove(h) ==
    /\ req[h].op \in {"delete", "answer"} /\ req[h].pc = "remove"
    /\ objects' = [objects EXCEPT ![req[h].path] = None]
    /\ End(h)
    /\ UNCHANGED <<invited, stored, told, asked, faults, foreign>>

\* Either call to the server fails: an error for a deletion, nothing at all for an answer.
RemoveFails(h) ==
    /\ req[h].op \in {"delete", "answer"} /\ req[h].pc \in {"find", "remove"}
    /\ faults < MaxFaults
    /\ faults' = faults + 1
    /\ End(h)
    /\ UNCHANGED <<objects, invited, stored, told, asked, foreign>>

-----------------------------------------------------------------------------
(* The user's other clients: they put events where they like, override an     *)
(* occurrence of a series, and keep events of long ago.                       *)
ForeignPut == \E u \in Uids, near \in BOOLEAN :
    /\ foreign < MaxForeign
    /\ foreign' = foreign + 1
    /\ objects' = [objects EXCEPT ![<<u, "other">>] =
                       [series |-> TRUE, override |-> FALSE, text |-> MaxRequests + foreign + 1,
                        reply |-> "NEEDS-ACTION", near |-> near]]
    /\ stored' = stored \cup {<<u, MaxRequests + foreign + 1>>}
    /\ UNCHANGED <<req, invited, told, asked, faults>>

ForeignOverride == \E p \in Paths :
    /\ foreign < MaxForeign
    /\ Exists(p)
    /\ foreign' = foreign + 1
    /\ objects' = [objects EXCEPT ![p].override = TRUE]
    /\ UNCHANGED <<req, invited, stored, told, asked, faults>>

Serve(h) ==
    \/ AskCreate(h) \/ AskCreateForm(h) \/ AskUpdate(h) \/ AskDelete(h)
    \/ AskAnswer(h) \/ AskAnswerForm(h)
    \/ Put(h) \/ PutFails(h) \/ Invite(h) \/ Reply(h) \/ ReplyFails(h)
    \/ Find(h) \/ Remove(h) \/ RemoveFails(h)

Next == (\E h \in Handlers : Serve(h)) \/ ForeignPut \/ ForeignOverride

Spec == Init /\ [][Next]_vars

-----------------------------------------------------------------------------
\* Nobody is invited to an event that the calendar never accepted: handleCreateEvent and
\* handleUpdateEvent mail after the PUT, and mail nothing when it fails.
InvitedWasStored == \A i \in invited : <<i[1], i[2]>> \in stored

\* An answer that the calendar shows is one the organizer has been mailed, whatever failed and
\* however several answers and edits of the same event interleave (handleCalendarRSVP).
ShownWasTold == \A p \in Paths :
    Exists(p) => \/ objects[p].reply = "NEEDS-ACTION"
                 \/ <<p[1], objects[p].reply>> \in told

\* The mail and the calendar agree about meetings.
MeetingsAgree == InvitedWasStored /\ ShownWasTold

\* The step is the PUT of an update, and the update carries the path of an object there is.
Writing(h) == req[h].op = "update" /\ req[h].pc = "put" /\ req'[h] # req[h] /\ objects' # objects
Known(r) == r.path # Nowhere /\ r.path \in Copies(r.uid)

\* An update that carries the path of an object that still exists changes that object and makes
\* no second one (eventBody.Path).
EditsNeverFork ==
    \A h \in Handlers : Writing(h) /\ Known(req[h]) =>
       Cardinality(CopiesIn(objects', req[h].uid)) = Cardinality(Copies(req[h].uid))

\* What the comment on eventBody.RecurrenceID promises (calendar.go:105-106): with it, an update
\* is an override of one occurrence, so the series is still there afterwards.  The PUT replaces
\* the object that holds both.
OverrideKeepsSeries ==
    [][\A h \in Handlers : Writing(h) /\ Known(req[h]) =>
          (req[h].single /\ objects[req[h].path].series => objects'[req[h].path].series)]_vars
=============================================================================
