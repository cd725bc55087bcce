----------------------------- MODULE OfficeProofs -----------------------------
(* The safety of the business data and the groupware: the calendar, the        *)
(* contacts, the price lists, the documents and the product catalogue.  The    *)
(* components share no variable, so each has an inductive invariant of its     *)
(* own; a step of MCOffice is a step of one of them, and leaves the others.    *)
EXTENDS MCOffice, TLAPS, FiniteSetTheorems, SequenceTheorems

-----------------------------------------------------------------------------
(* Meetings (Calendar) *)

\* What a handler can be doing: a request that writes, a deletion that searches or removes,
\* an answer of the older pages.
Replies == Calendar!Answers \cup {"NEEDS-ACTION"}
CalendarWrite ==
  [op : {"create", "update", "answer"}, pc : {"put", "invite", "reply", "find"}, uid : Uids,
   path : Calendar!Paths \cup {Nowhere}, guests : SUBSET Guests, text : 1..MaxRequests,
   single : BOOLEAN, reply : Replies]
CalendarSearch == [op : {"delete"}, pc : {"find"}, uid : Uids]
CalendarRemoval ==
  [op : {"delete", "answer"}, pc : {"remove"}, uid : Uids, path : Calendar!Paths, guests : {{}}]
CalendarForm == [op : {"form"}, pc : {"reply"}, uid : Uids, reply : Calendar!Answers]
CalendarRequest ==
  {Calendar!Idle} \cup CalendarWrite \cup CalendarSearch \cup CalendarRemoval \cup CalendarForm

\* Mail about an event goes out once the event is stored, and an answer that is about to be
\* shown was told; a path is one of the event itself.
Backed(r, accepted, answered) ==
  /\ r.op \in {"create", "update"} /\ r.pc = "invite" => <<r.uid, r.text>> \in accepted
  /\ r \in CalendarWrite /\ r.pc = "put" /\ r.reply # "NEEDS-ACTION" => <<r.uid, r.reply>> \in answered
  /\ r \in CalendarWrite /\ r.op = "answer" => r.reply # "NEEDS-ACTION"
  /\ r \in CalendarWrite /\ r.path # Nowhere => r.path \in Calendar!Paths /\ r.path[1] = r.uid

CalendarHeld ==
  /\ eventRequests = [h \in Handlers |-> eventRequests[h]]
  /\ \A h \in Handlers :
       eventRequests[h] \in CalendarRequest /\ Backed(eventRequests[h], stored, told)

CalendarTables ==
  /\ objects \in [Calendar!Paths -> Calendar!Object \cup {Calendar!None}]
  /\ invited \subseteq Uids \X (1..(MaxRequests + MaxForeign)) \X Guests
  /\ stored \subseteq Uids \X (1..(MaxRequests + MaxForeign)) /\ told \subseteq Uids \X Calendar!Answers
  /\ eventsAsked \in 0..MaxRequests /\ eventFaults \in 0..MaxFaults /\ foreign \in 0..MaxForeign

CalendarInv == CalendarTables /\ Calendar!MeetingsAgree /\ CalendarHeld

\* No meeting is stored and no request is made at the start.
LEMMA CalendarInit == Calendar!CalendarAssumption /\ Calendar!Init => CalendarInv
<1> SUFFICES ASSUME Calendar!CalendarAssumption, Calendar!Init
             PROVE  CalendarInv
  OBVIOUS
<1>1. \A h \in Handlers : eventRequests[h] = Calendar!Idle
  BY DEF Calendar!Init
<1>2. Backed(Calendar!Idle, {}, {})
  <2>1. Calendar!Idle \notin CalendarWrite
    BY DEF Calendar!Idle, CalendarWrite
  <2>2. QED
    BY <2>1 DEF Backed, Calendar!Idle
<1>3. CalendarHeld
  BY <1>1, <1>2 DEF CalendarHeld, CalendarRequest, Calendar!Init
<1>4. CalendarTables
  <2>1. {MaxRequests, MaxFaults, MaxForeign} \subseteq Nat
    BY DEF Calendar!CalendarAssumption
  <2>2. QED
    BY <2>1 DEF Calendar!Init, CalendarTables
<1>5. Calendar!MeetingsAgree
  BY DEF Calendar!Init, Calendar!MeetingsAgree, Calendar!InvitedWasStored, Calendar!ShownWasTold,
         Calendar!Exists
<1>6. QED
  BY <1>3, <1>4, <1>5 DEF CalendarInv

\* A handler goes on, and what is known of stored events and told answers only grows.
LEMMA CalendarHold ==
  ASSUME CalendarHeld, NEW h \in Handlers, NEW r \in CalendarRequest,
         eventRequests' = [eventRequests EXCEPT ![h] = r],
         stored \subseteq stored', told \subseteq told', Backed(r, stored', told')
  PROVE  CalendarHeld'
<1>1. eventRequests' = [g \in Handlers |-> eventRequests'[g]]
  BY DEF CalendarHeld
<1>2. ASSUME NEW g \in Handlers
      PROVE  eventRequests'[g] \in CalendarRequest /\ Backed(eventRequests'[g], stored', told')
  <2>1. eventRequests'[g] = IF g = h THEN r ELSE eventRequests[g]
    BY DEF CalendarHeld
  <2>2. eventRequests[g] \in CalendarRequest /\ Backed(eventRequests[g], stored, told)
    BY DEF CalendarHeld
  <2>3. PICK old : old = eventRequests[g]
    OBVIOUS
  <2>4. Backed(old, stored', told')
    BY <2>2, <2>3 DEF Backed
  <2>5. QED
    BY <2>1, <2>2, <2>3, <2>4
<1>3. QED
  BY <1>1, <1>2 DEF CalendarHeld

\* The requests that are put, mailed, told or removed are of these forms.
LEMMA CalendarForms ==
  ASSUME NEW r \in CalendarRequest
  PROVE  /\ r.op \in {"create", "update", "answer"} /\ r.pc = "put" => r \in CalendarWrite
         /\ r.op \in {"create", "update"} => r \in CalendarWrite
         /\ r.op \in {"delete", "answer"} /\ r.pc = "remove" => r \in CalendarRemoval
         /\ r.op = "answer" /\ r.pc = "reply" => r \in CalendarWrite
         /\ r.op = "form" => r \in CalendarForm
         /\ r.op \in {"delete", "answer"} => r.uid \in Uids
BY DEF CalendarRequest, CalendarWrite, CalendarSearch, CalendarRemoval, CalendarForm, Calendar!Idle

\* A request is taken in a form that the stored meetings back.
LEMMA CalendarAskStep ==
  ASSUME Calendar!CalendarAssumption, CalendarInv, NEW h \in Handlers,
         NEW r \in CalendarRequest, Calendar!Take(h, r), Backed(r, stored, told)
  PROVE  CalendarInv'
<1>1. CalendarHeld'
  BY CalendarHold DEF CalendarInv, Calendar!Take
<1>2. CalendarTables'
  BY DEF CalendarInv, CalendarTables, Calendar!Take, Calendar!CalendarAssumption
<1>3. Calendar!MeetingsAgree'
  BY DEF CalendarInv, Calendar!MeetingsAgree, Calendar!InvitedWasStored, Calendar!ShownWasTold,
         Calendar!Exists, Calendar!Take
<1>4. QED
  BY <1>1, <1>2, <1>3 DEF CalendarInv

\* A client asks for something.
CalendarAsks(h) ==
  \/ Calendar!AskCreate(h) \/ Calendar!AskCreateForm(h) \/ Calendar!AskUpdate(h)
  \/ Calendar!AskDelete(h) \/ Calendar!AskAnswer(h) \/ Calendar!AskAnswerForm(h)

\* Every request begins in its form.
LEMMA CalendarAsked ==
  ASSUME Calendar!CalendarAssumption, CalendarInv, NEW h \in Handlers, CalendarAsks(h)
  PROVE  CalendarInv'
<1>0. eventsAsked < MaxRequests => eventsAsked + 1 \in 1..MaxRequests
  BY DEF CalendarInv, CalendarTables, Calendar!CalendarAssumption
<1> DEFINE write(op, pc, u, p, gs, single, reply) ==
      [op |-> op, pc |-> pc, uid |-> u, path |-> p, guests |-> gs, text |-> eventsAsked + 1,
       single |-> single, reply |-> reply]
<1>1. ASSUME NEW op \in {"create", "update", "answer"}, NEW pc \in {"put", "reply"}, NEW u \in Uids,
             NEW p \in Calendar!Paths \cup {Nowhere}, NEW gs \in SUBSET Guests, NEW single \in BOOLEAN,
             NEW reply \in Replies, p # Nowhere => p[1] = u,
             pc = "put" /\ reply # "NEEDS-ACTION" => <<u, reply>> \in told,
             op = "answer" => reply # "NEEDS-ACTION",
             Calendar!Take(h, write(op, pc, u, p, gs, single, reply))
      PROVE  CalendarInv'
  <2>1. PICK r : r = write(op, pc, u, p, gs, single, reply)
    OBVIOUS
  <2>2. r \in CalendarWrite
    BY <1>0, <1>1, <2>1 DEF CalendarWrite, Calendar!Take
  <2>3. Backed(r, stored, told)
    BY <1>1, <2>1 DEF Backed
  <2>4. r \in CalendarRequest /\ Calendar!Take(h, r)
    BY <1>1, <2>1, <2>2 DEF CalendarRequest
  <2>5. QED
    BY <2>3, <2>4, CalendarAskStep
<1> HIDE DEF write
<1>2. "NEEDS-ACTION" \in Replies /\ Calendar!Answers \subseteq Replies /\ {} \in SUBSET Guests
      /\ Nowhere \in Calendar!Paths \cup {Nowhere} /\ FALSE \in BOOLEAN /\ "NEEDS-ACTION" \notin Calendar!Answers
  BY DEF Replies, Calendar!Answers
<1>3. CASE Calendar!AskCreate(h)
  <2>1. PICK u \in Uids, gs \in SUBSET Guests :
          Calendar!Take(h, write("create", "put", u, Nowhere, gs, FALSE, "NEEDS-ACTION"))
    BY <1>3 DEF Calendar!AskCreate, write
  <2>2. QED
    BY <1>1, <1>2, <2>1
<1>4. CASE Calendar!AskCreateForm(h)
  <2>1. PICK u \in Uids :
          Calendar!Take(h, write("create", "put", u, Nowhere, {}, FALSE, "NEEDS-ACTION"))
    BY <1>4 DEF Calendar!AskCreateForm, write
  <2>2. QED
    BY <1>1, <1>2, <2>1
<1>5. CASE Calendar!AskUpdate(h)
  <2>0. PICK u \in Uids, gs \in SUBSET Guests, single \in BOOLEAN :
          \E p \in Calendar!Copies(u) \cup {Nowhere} :
             Calendar!Take(h, write("update", "put", u, p, gs, single,
                                    IF p = Nowhere THEN "NEEDS-ACTION" ELSE objects[p].reply))
    BY <1>5 DEF Calendar!AskUpdate, write
  <2>1. PICK p \in Calendar!Copies(u) \cup {Nowhere} :
          Calendar!Take(h, write("update", "put", u, p, gs, single,
                                 IF p = Nowhere THEN "NEEDS-ACTION" ELSE objects[p].reply))
    BY <2>0
  <2>2. PICK reply : reply = IF p = Nowhere THEN "NEEDS-ACTION" ELSE objects[p].reply
    OBVIOUS
  <2>3. /\ p \in Calendar!Paths \cup {Nowhere} /\ (p # Nowhere => p[1] = u)
        /\ p # Nowhere => p \in Calendar!Paths /\ objects[p] # Calendar!None
    BY <2>1 DEF Calendar!Copies, Calendar!CopiesIn
  <2>4. reply \in Replies
    BY <1>2, <2>2, <2>3 DEF CalendarInv, CalendarTables, Calendar!Object, Replies
  <2>5. reply # "NEEDS-ACTION" => <<u, reply>> \in told
    BY <2>2, <2>3 DEF CalendarInv, Calendar!MeetingsAgree, Calendar!ShownWasTold, Calendar!Exists
  <2>6. QED
    BY <1>1, <2>1, <2>2, <2>3, <2>4, <2>5
<1>6. CASE Calendar!AskDelete(h)
  <2>0. PICK u \in Uids : Calendar!Take(h, [op |-> "delete", pc |-> "find", uid |-> u])
    BY <1>6 DEF Calendar!AskDelete
  <2>1. PICK r : r = [op |-> "delete", pc |-> "find", uid |-> u] /\ Calendar!Take(h, r)
    BY <2>0
  <2>2. r \in CalendarRequest /\ r \notin CalendarWrite
    BY <2>1 DEF CalendarRequest, CalendarSearch, CalendarWrite
  <2>3. QED
    BY <2>1, <2>2, CalendarAskStep DEF Backed
<1>7. CASE Calendar!AskAnswer(h)
  <2>1. PICK u \in Uids, a \in Calendar!Answers :
          Calendar!Take(h, write("answer", "reply", u, Nowhere, {}, FALSE, a))
    BY <1>7 DEF Calendar!AskAnswer, write
  <2>2. QED
    BY <1>1, <1>2, <2>1
<1>8. CASE Calendar!AskAnswerForm(h)
  <2>0. PICK u \in Uids, a \in Calendar!Answers :
          Calendar!Take(h, [op |-> "form", pc |-> "reply", uid |-> u, reply |-> a])
    BY <1>8 DEF Calendar!AskAnswerForm
  <2>1. PICK r : r = [op |-> "form", pc |-> "reply", uid |-> u, reply |-> a] /\ Calendar!Take(h, r)
    BY <2>0
  <2>2. r \in CalendarRequest /\ r \notin CalendarWrite
    BY <2>1 DEF CalendarRequest, CalendarForm, CalendarWrite
  <2>3. QED
    BY <2>1, <2>2, CalendarAskStep DEF Backed
<1>9. QED
  BY <1>3, <1>4, <1>5, <1>6, <1>7, <1>8 DEF CalendarAsks

\* A request that ends is no burden.
LEMMA CalendarEnds ==
  ASSUME CalendarHeld, NEW h \in Handlers, eventRequests' = [eventRequests EXCEPT ![h] = Calendar!Idle],
         stored \subseteq stored', told \subseteq told'
  PROVE  CalendarHeld'
<1>1. Calendar!Idle \in CalendarRequest /\ Calendar!Idle \notin CalendarWrite /\ Calendar!Idle.op = "idle"
  BY DEF CalendarRequest, CalendarWrite, Calendar!Idle
<1>2. PICK idle : idle = Calendar!Idle
  OBVIOUS
<1>3. Backed(idle, stored', told')
  BY <1>1, <1>2 DEF Backed
<1>4. QED
  BY <1>1, <1>2, <1>3, CalendarHold

\* Where a write goes to, and what it puts there.
LEMMA CalendarTarget ==
  ASSUME Calendar!CalendarAssumption, NEW r \in CalendarWrite, Backed(r, stored, told)
  PROVE  /\ Calendar!Target(r) \in Calendar!Paths /\ Calendar!Target(r)[1] = r.uid
         /\ Calendar!Built(r) \in Calendar!Object /\ Calendar!Built(r).reply = r.reply
         /\ Calendar!Built(r) # Calendar!None
<1>1. Calendar!Target(r) \in Calendar!Paths /\ Calendar!Target(r)[1] = r.uid
  BY DEF Calendar!Target, Calendar!Paths, CalendarWrite, Backed
<1>2. r.text \in 1..(MaxRequests + MaxForeign) /\ r.text # 0
  BY DEF CalendarWrite, Calendar!CalendarAssumption
<1>3. Calendar!Built(r) \in Calendar!Object /\ Calendar!Built(r).reply = r.reply
  BY <1>2 DEF Calendar!Built, Calendar!Object, CalendarWrite, Replies
<1>4. Calendar!Built(r).text # Calendar!None.text
  BY <1>2 DEF Calendar!Built, Calendar!None
<1>5. QED
  BY <1>1, <1>3, <1>4

\* The PUT of an object (putEvent).
LEMMA CalendarPut ==
  ASSUME Calendar!CalendarAssumption, CalendarInv, NEW h \in Handlers, Calendar!Put(h)
  PROVE  CalendarInv'
<1>1. PICK r : r = eventRequests[h]
  OBVIOUS
<1>2. r \in CalendarWrite /\ Backed(r, stored, told) /\ r.pc = "put"
  BY <1>1, CalendarForms DEF CalendarInv, CalendarHeld, Calendar!Put
<1>3. PICK p : p = Calendar!Target(r)
  OBVIOUS
<1>4. PICK o : o = Calendar!Built(r)
  OBVIOUS
<1>5. p \in Calendar!Paths /\ p[1] = r.uid /\ o \in Calendar!Object /\ o.reply = r.reply
  BY <1>2, <1>3, <1>4, CalendarTarget
<1>6. /\ objects' = [objects EXCEPT ![p] = o] /\ stored' = stored \cup {<<r.uid, r.text>>}
      /\ UNCHANGED <<invited, told, eventsAsked, eventFaults, foreign>>
      /\ \/ eventRequests' = [eventRequests EXCEPT ![h] = Calendar!Idle]
         \/ eventRequests' = [eventRequests EXCEPT ![h] = [r EXCEPT !.pc = "invite"]]
  BY <1>1, <1>3, <1>4 DEF Calendar!Put, Calendar!End, Calendar!Goto, CalendarInv, CalendarHeld
<1>7. CalendarHeld'
  <2>1. PICK n : n = [r EXCEPT !.pc = "invite"]
    OBVIOUS
  <2>2. /\ n \in CalendarWrite /\ n.pc = "invite" /\ n.uid = r.uid /\ n.text = r.text
        /\ n.path = r.path /\ n.op = r.op /\ n.reply = r.reply
    BY <1>2, <2>1 DEF CalendarWrite
  <2>3. n \in CalendarRequest /\ Backed(n, stored', told')
    BY <1>2, <1>6, <2>2 DEF CalendarRequest, Backed
  <2>4. QED
    BY <1>6, <2>1, <2>3, CalendarEnds, CalendarHold DEF CalendarInv
<1>8. CalendarTables'
  <2>1. <<r.uid, r.text>> \in Uids \X (1..(MaxRequests + MaxForeign))
    BY <1>2 DEF CalendarWrite, Calendar!CalendarAssumption
  <2>2. QED
    BY <1>5, <1>6, <2>1 DEF CalendarInv, CalendarTables
<1>9. Calendar!MeetingsAgree'
  <2>1. r.reply # "NEEDS-ACTION" => <<p[1], o.reply>> \in told
    BY <1>2, <1>5 DEF Backed
  <2>2. \A q \in Calendar!Paths : objects'[q] = IF q = p THEN o ELSE objects[q]
    BY <1>5, <1>6 DEF CalendarInv, CalendarTables
  <2>3. Calendar!ShownWasTold'
    BY <1>5, <1>6, <2>1, <2>2
       DEF CalendarInv, Calendar!MeetingsAgree, Calendar!ShownWasTold, Calendar!Exists
  <2>4. Calendar!InvitedWasStored'
    BY <1>6 DEF CalendarInv, Calendar!MeetingsAgree, Calendar!InvitedWasStored
  <2>5. QED
    BY <2>3, <2>4 DEF Calendar!MeetingsAgree
<1>10. QED
  BY <1>7, <1>8, <1>9 DEF CalendarInv

\* The invitations after a stored meeting.
LEMMA CalendarInvite ==
  ASSUME Calendar!CalendarAssumption, CalendarInv, NEW h \in Handlers, Calendar!Invite(h)
  PROVE  CalendarInv'
<1>1. PICK r : r = eventRequests[h]
  OBVIOUS
<1>2. r \in CalendarWrite /\ Backed(r, stored, told) /\ r.op \in {"create", "update"} /\ r.pc = "invite"
  BY <1>1, CalendarForms DEF CalendarInv, CalendarHeld, Calendar!Invite
<1>3. PICK g \in r.guests :
        /\ eventRequests' = [eventRequests EXCEPT ![h] =
             IF r.guests \ {g} = {} THEN Calendar!Idle ELSE [r EXCEPT !.guests = r.guests \ {g}]]
        /\ \/ invited' = invited \cup {<<r.uid, r.text, g>>} /\ eventFaults' = eventFaults
           \/ eventFaults < MaxFaults /\ eventFaults' = eventFaults + 1 /\ invited' = invited
  BY <1>1 DEF Calendar!Invite, Calendar!Invitation
<1>4. UNCHANGED <<objects, stored, told, eventsAsked, foreign>>
  BY DEF Calendar!Invite
<1>5. CalendarHeld'
  <2>1. PICK n : n = [r EXCEPT !.guests = r.guests \ {g}]
    OBVIOUS
  <2>2. /\ n \in CalendarWrite /\ n.pc = r.pc /\ n.uid = r.uid /\ n.text = r.text
        /\ n.path = r.path /\ n.op = r.op /\ n.reply = r.reply
    BY <1>2, <2>1 DEF CalendarWrite
  <2>3. n \in CalendarRequest /\ Backed(n, stored', told')
    BY <1>2, <1>4, <2>2 DEF CalendarRequest, Backed
  <2>4. QED
    BY <1>3, <1>4, <2>1, <2>3, CalendarEnds, CalendarHold DEF CalendarInv
<1>6. <<r.uid, r.text>> \in stored /\ g \in Guests
  BY <1>2 DEF Backed, CalendarWrite
<1>7. <<r.uid, r.text, g>> \in Uids \X (1..(MaxRequests + MaxForeign)) \X Guests
  BY <1>2, <1>6 DEF CalendarWrite, Calendar!CalendarAssumption
<1>8. CalendarTables'
  BY <1>3, <1>4, <1>7 DEF CalendarInv, CalendarTables, Calendar!CalendarAssumption
<1>9. Calendar!MeetingsAgree'
  <2>1. Calendar!InvitedWasStored'
    <3>1. PICK mail : mail = <<r.uid, r.text, g>>
      OBVIOUS
    <3>2. <<mail[1], mail[2]>> \in stored
      BY <1>6, <3>1
    <3>3. invited' = invited \cup {mail} \/ invited' = invited
      BY <1>3, <3>1
    <3>4. QED
      BY <1>4, <3>2, <3>3 DEF CalendarInv, Calendar!MeetingsAgree, Calendar!InvitedWasStored
  <2>2. QED
    BY <1>4, <2>1 DEF CalendarInv, Calendar!MeetingsAgree, Calendar!ShownWasTold, Calendar!Exists
<1>10. QED
  BY <1>5, <1>8, <1>9 DEF CalendarInv

\* The reply to the organizer, before the stored answer or after it.
LEMMA CalendarReply ==
  ASSUME Calendar!CalendarAssumption, CalendarInv, NEW h \in Handlers, Calendar!Reply(h)
  PROVE  CalendarInv'
<1>1. PICK r : r = eventRequests[h]
  OBVIOUS
<1>2. r \in CalendarRequest /\ Backed(r, stored, told) /\ r.op \in {"answer", "form"} /\ r.pc = "reply"
  BY <1>1 DEF CalendarInv, CalendarHeld, Calendar!Reply
<1>3. /\ told' = told \cup {<<r.uid, r.reply>>}
      /\ eventRequests' = [eventRequests EXCEPT ![h] = Calendar!AfterReply(r)]
      /\ UNCHANGED <<objects, invited, stored, eventsAsked, eventFaults, foreign>>
  BY <1>1 DEF Calendar!Reply, Calendar!Answer
<1>4. CalendarHeld'
  <2>1. CASE r.op = "form"
    BY <1>3, <2>1, CalendarEnds DEF Calendar!AfterReply, CalendarInv
  <2>2. CASE r.op = "answer"
    <3>1. r \in CalendarWrite
      BY <1>2, <2>2, CalendarForms
    <3>2. PICK n : n = Calendar!AfterReply(r)
      OBVIOUS
    <3>3. /\ n \in CalendarWrite /\ n.op = "answer" /\ n.uid = r.uid /\ n.reply = r.reply
          /\ n.path = r.path
      BY <2>2, <3>1, <3>2 DEF CalendarWrite, Calendar!AfterReply
    <3>4. n \in CalendarRequest /\ Backed(n, stored', told')
      BY <1>2, <1>3, <2>2, <3>1, <3>3 DEF CalendarRequest, Backed
    <3>5. QED
      BY <1>3, <3>2, <3>4, CalendarHold DEF CalendarInv
  <2>3. QED
    BY <1>2, <2>1, <2>2
<1>5. CalendarTables' /\ Calendar!MeetingsAgree'
  <2>1. ASSUME CalendarTables', told \subseteq told'
        PROVE  Calendar!MeetingsAgree'
    BY <1>3, <2>1 DEF CalendarInv, Calendar!MeetingsAgree, Calendar!InvitedWasStored,
         Calendar!ShownWasTold, Calendar!Exists
  <2>2. r.reply \in Calendar!Answers /\ r.uid \in Uids
    <3>1. CASE r.op = "form"
      BY <1>2, <3>1, CalendarForms DEF CalendarForm
    <3>2. CASE r.op = "answer"
      BY <1>2, <3>2, CalendarForms DEF CalendarWrite, Backed, Replies
    <3>3. QED
      BY <1>2, <3>1, <3>2
  <2>3. CalendarTables'
    BY <1>3, <2>2 DEF CalendarInv, CalendarTables
  <2>4. QED
    BY <1>3, <2>1, <2>3
<1>6. QED
  BY <1>4, <1>5 DEF CalendarInv

\* A request gives up, or a look finds nothing: no mail and no event is touched.
LEMMA CalendarGivesUp ==
  ASSUME Calendar!CalendarAssumption, CalendarInv, NEW h \in Handlers,
         Calendar!PutFails(h) \/ Calendar!ReplyFails(h) \/ Calendar!RemoveFails(h)
  PROVE  CalendarInv'
<1>1. /\ eventRequests' = [eventRequests EXCEPT ![h] = Calendar!Idle]
      /\ eventFaults < MaxFaults /\ eventFaults' = eventFaults + 1
      /\ UNCHANGED <<objects, invited, stored, told, eventsAsked, foreign>>
  BY DEF Calendar!PutFails, Calendar!ReplyFails, Calendar!RemoveFails, Calendar!AfterRefusal,
         Calendar!AfterLostReply, Calendar!End
<1>2. CalendarHeld'
  BY <1>1, CalendarEnds DEF CalendarInv
<1>3. CalendarTables'
  BY <1>1 DEF CalendarInv, CalendarTables, Calendar!CalendarAssumption
<1>4. Calendar!MeetingsAgree'
  BY <1>1 DEF CalendarInv, Calendar!MeetingsAgree, Calendar!InvitedWasStored,
     Calendar!ShownWasTold, Calendar!Exists
<1>5. QED
  BY <1>2, <1>3, <1>4 DEF CalendarInv

\* The search for the object of a deletion.
LEMMA CalendarFind ==
  ASSUME CalendarInv, NEW h \in Handlers, Calendar!Find(h)
  PROVE  CalendarInv'
<1>1. PICK r : r = eventRequests[h]
  OBVIOUS
<1>2. r \in CalendarRequest /\ r.op \in {"delete", "answer"} /\ r.uid \in Uids
  BY <1>1, CalendarForms DEF CalendarInv, CalendarHeld, Calendar!Find
<1>3. UNCHANGED <<objects, invited, stored, told, eventsAsked, eventFaults, foreign>>
  BY DEF Calendar!Find
<1>4. CalendarHeld'
  <2>1. CASE Calendar!End(h)
    BY <1>3, <2>1, CalendarEnds DEF Calendar!End, CalendarInv
  <2>2. ASSUME NEW p \in Calendar!Findable(r.uid),
               eventRequests' = [eventRequests EXCEPT ![h] =
                 [op |-> r.op, pc |-> "remove", uid |-> r.uid, path |-> p, guests |-> {}]]
        PROVE  CalendarHeld'
    <3>1. p \in Calendar!Paths
      BY DEF Calendar!Findable, Calendar!Copies, Calendar!CopiesIn
    <3>2. PICK n : n = [op |-> r.op, pc |-> "remove", uid |-> r.uid, path |-> p, guests |-> {}]
      OBVIOUS
    <3>3. n \in CalendarRemoval /\ n \notin CalendarWrite /\ n.op \notin {"create", "update"}
      BY <1>2, <3>1, <3>2 DEF CalendarRemoval, CalendarWrite
    <3>4. n \in CalendarRequest /\ Backed(n, stored', told')
      BY <3>3 DEF CalendarRequest, Backed
    <3>5. QED
      BY <1>3, <2>2, <3>2, <3>4, CalendarHold DEF CalendarInv
  <2>3. QED
    BY <1>1, <2>1, <2>2 DEF Calendar!Find
<1>5. CalendarTables'
  BY <1>3 DEF CalendarInv, CalendarTables
<1>6. Calendar!MeetingsAgree'
  BY <1>3 DEF CalendarInv, Calendar!MeetingsAgree, Calendar!InvitedWasStored,
     Calendar!ShownWasTold, Calendar!Exists
<1>7. QED
  BY <1>4, <1>5, <1>6 DEF CalendarInv

\* The DELETE of an object.
LEMMA CalendarRemove ==
  ASSUME CalendarInv, NEW h \in Handlers, Calendar!Remove(h)
  PROVE  CalendarInv'
<1>1. PICK p : p = eventRequests[h].path
  OBVIOUS
<1>2. /\ objects' = [objects EXCEPT ![p] = Calendar!None]
      /\ eventRequests' = [eventRequests EXCEPT ![h] = Calendar!Idle]
      /\ UNCHANGED <<invited, stored, told, eventsAsked, eventFaults, foreign>>
  BY <1>1 DEF Calendar!Remove, Calendar!End
<1>3. CalendarHeld'
  BY <1>2, CalendarEnds DEF CalendarInv
<1>4. CalendarTables'
  BY <1>2 DEF CalendarInv, CalendarTables
<1>5. Calendar!MeetingsAgree'
  BY <1>2 DEF CalendarInv, CalendarTables, Calendar!MeetingsAgree, Calendar!InvitedWasStored,
     Calendar!ShownWasTold, Calendar!Exists
<1>6. QED
  BY <1>3, <1>4, <1>5 DEF CalendarInv

\* Another client writes a meeting or an override.
LEMMA CalendarForeign ==
  ASSUME Calendar!CalendarAssumption, CalendarInv, Calendar!ForeignPut \/ Calendar!ForeignOverride
  PROVE  CalendarInv'
<1>1. PICK p \in Calendar!Paths, o \in Calendar!Object :
        /\ objects' = [objects EXCEPT ![p] = o]
        /\ o.reply = "NEEDS-ACTION" \/ (objects[p] # Calendar!None /\ o.reply = objects[p].reply)
        /\ stored' = stored \/ \E u \in Uids : stored' = stored \cup {<<u, MaxRequests + foreign + 1>>}
        /\ foreign < MaxForeign /\ foreign' = foreign + 1
        /\ UNCHANGED <<eventRequests, invited, told, eventsAsked, eventFaults>>
  <2>1. CASE Calendar!ForeignPut
    <3>1. PICK u \in Uids, near \in BOOLEAN :
            /\ foreign < MaxForeign /\ foreign' = foreign + 1
            /\ objects' = [objects EXCEPT ![<<u, "other">>] =
                 [series |-> TRUE, override |-> FALSE, text |-> MaxRequests + foreign + 1,
                  reply |-> "NEEDS-ACTION", near |-> near]]
            /\ stored' = stored \cup {<<u, MaxRequests + foreign + 1>>}
            /\ UNCHANGED <<eventRequests, invited, told, eventsAsked, eventFaults>>
      BY <2>1 DEF Calendar!ForeignPut
    <3>2. PICK o : o = [series |-> TRUE, override |-> FALSE, text |-> MaxRequests + foreign + 1,
                        reply |-> "NEEDS-ACTION", near |-> near]
      OBVIOUS
    <3>3. MaxRequests + foreign + 1 \in 1..(MaxRequests + MaxForeign)
      BY <3>1 DEF Calendar!CalendarAssumption, CalendarInv, CalendarTables
    <3>4. o \in Calendar!Object /\ o.reply = "NEEDS-ACTION"
      BY <3>2, <3>3 DEF Calendar!Object
    <3>5. <<u, "other">> \in Calendar!Paths
      BY DEF Calendar!Paths
    <3>6. PICK p : p = <<u, "other">>
      OBVIOUS
    <3>7. QED
      BY <3>1, <3>2, <3>4, <3>5, <3>6
  <2>2. CASE Calendar!ForeignOverride
    <3>1. PICK p \in Calendar!Paths :
            /\ objects[p] # Calendar!None /\ objects' = [objects EXCEPT ![p].override = TRUE]
            /\ foreign < MaxForeign /\ foreign' = foreign + 1
            /\ UNCHANGED <<eventRequests, invited, stored, told, eventsAsked, eventFaults>>
      BY <2>2 DEF Calendar!ForeignOverride, Calendar!Exists
    <3>2. objects[p] \in Calendar!Object
      BY <3>1 DEF CalendarInv, CalendarTables
    <3>3. PICK o : o = [objects[p] EXCEPT !.override = TRUE]
      OBVIOUS
    <3>4. o \in Calendar!Object /\ o.reply = objects[p].reply
      BY <3>2, <3>3 DEF Calendar!Object
    <3>5. objects' = [objects EXCEPT ![p] = o]
      BY <3>1, <3>3
    <3>6. QED
      BY <3>1, <3>4, <3>5
  <2>3. QED
    BY <2>1, <2>2
<1>2. stored \subseteq stored' /\ stored' \subseteq Uids \X (1..(MaxRequests + MaxForeign))
  BY <1>1 DEF Calendar!CalendarAssumption, CalendarInv, CalendarTables
<1>3. CalendarHeld'
  <2>1. ASSUME NEW r, Backed(r, stored, told)
        PROVE  Backed(r, stored', told)
    BY <1>2, <2>1 DEF Backed
  <2>2. QED
    BY <1>1, <2>1 DEF CalendarInv, CalendarHeld
<1>4. CalendarTables'
  BY <1>1, <1>2 DEF CalendarInv, CalendarTables, Calendar!CalendarAssumption
<1>5. Calendar!MeetingsAgree'
  <2>1. Calendar!InvitedWasStored'
    BY <1>1, <1>2 DEF CalendarInv, Calendar!MeetingsAgree, Calendar!InvitedWasStored
  <2>2. \A q \in Calendar!Paths : objects'[q] = IF q = p THEN o ELSE objects[q]
    BY <1>1 DEF CalendarInv, CalendarTables
  <2>3. Calendar!ShownWasTold'
    BY <1>1, <2>2
       DEF CalendarInv, Calendar!MeetingsAgree, Calendar!ShownWasTold, Calendar!Exists
  <2>4. QED
    BY <2>1, <2>3 DEF Calendar!MeetingsAgree
<1>6. QED
  BY <1>3, <1>4, <1>5 DEF CalendarInv

\* The calendar's invariant is inductive.
LEMMA CalendarStep ==
  ASSUME Calendar!CalendarAssumption, CalendarInv, [Calendar!Next]_(Calendar!vars)
  PROVE  CalendarInv'
<1>1. ASSUME NEW h \in Handlers, Calendar!Serve(h)
      PROVE  CalendarInv'
  <2>1. CalendarAsks(h) => CalendarInv'
    BY CalendarAsked
  <2>2. Calendar!Put(h) \/ Calendar!Invite(h) \/ Calendar!Reply(h) => CalendarInv'
    BY CalendarPut, CalendarInvite, CalendarReply
  <2>3. Calendar!PutFails(h) \/ Calendar!ReplyFails(h) \/ Calendar!RemoveFails(h) => CalendarInv'
    BY CalendarGivesUp
  <2>4. Calendar!Find(h) \/ Calendar!Remove(h) => CalendarInv'
    BY CalendarFind, CalendarRemove
  <2>5. QED
    BY <1>1, <2>1, <2>2, <2>3, <2>4 DEF Calendar!Serve, CalendarAsks
<1>2. CASE UNCHANGED Calendar!vars
  BY <1>2 DEF Calendar!vars, CalendarInv, CalendarTables, CalendarHeld, Calendar!MeetingsAgree,
     Calendar!InvitedWasStored, Calendar!ShownWasTold, Calendar!Exists
<1>3. QED
  BY <1>1, <1>2, CalendarForeign DEF Calendar!Next

\* The calendar's invariant gives its type and its safety.
LEMMA CalendarSafe == ASSUME CalendarInv PROVE Calendar!TypeOK /\ Calendar!MeetingsAgree
<1>1. ASSUME NEW r \in CalendarRequest
      PROVE  r.op \in {"idle", "create", "update", "delete", "answer", "form"}
  <2>1. CASE r = Calendar!Idle
    BY <2>1 DEF Calendar!Idle
  <2>2. QED
    BY <2>1 DEF CalendarRequest, CalendarWrite, CalendarSearch, CalendarRemoval, CalendarForm
<1>2. QED
  BY <1>1 DEF CalendarInv, CalendarHeld, CalendarTables, Calendar!TypeOK

\* The write of an update that carries the path of an object replaces that object.
LEMMA EditsReach == ASSUME Calendar!CalendarAssumption, CalendarInv, [Calendar!Next]_(Calendar!vars)
                    PROVE  Calendar!EditsNeverFork
<1> SUFFICES ASSUME NEW h \in Handlers, Calendar!Writing(h), Calendar!Known(eventRequests[h])
             PROVE  Calendar!CopiesIn(objects', eventRequests[h].uid) = Calendar!Copies(eventRequests[h].uid)
  BY DEF Calendar!EditsNeverFork
<1>1. PICK r : r = eventRequests[h]
  OBVIOUS
<1>2. /\ r \in CalendarWrite /\ r.op = "update" /\ r.pc = "put" /\ Backed(r, stored, told)
      /\ eventRequests'[h] # eventRequests[h] /\ objects' # objects
      /\ r.path # Nowhere /\ r.path \in Calendar!Copies(r.uid)
  BY <1>1, CalendarForms DEF CalendarInv, CalendarHeld, Calendar!Writing, Calendar!Known
<1>3. Calendar!Put(h)
  <2>1. ASSUME NEW g \in Handlers, Calendar!Serve(g)
        PROVE  Calendar!Put(g) \/ Calendar!Remove(g)
    BY <1>2, <2>1 DEF Calendar!Serve, Calendar!AskCreate, Calendar!AskCreateForm, Calendar!AskUpdate,
         Calendar!AskDelete, Calendar!AskAnswer, Calendar!AskAnswerForm, Calendar!Take,
         Calendar!PutFails, Calendar!Invite, Calendar!Reply, Calendar!ReplyFails, Calendar!Find,
         Calendar!RemoveFails
  <2>2. ASSUME NEW g \in Handlers, Calendar!Put(g) \/ Calendar!Remove(g)
        PROVE  g = h
    <3>1. PICK n : eventRequests' = [eventRequests EXCEPT ![g] = n]
      BY <2>2 DEF Calendar!Put, Calendar!Remove, Calendar!End, Calendar!Goto
    <3>2. QED
      BY <1>2, <3>1 DEF CalendarInv, CalendarHeld
  <2>3. ~(Calendar!ForeignPut \/ Calendar!ForeignOverride) /\ ~UNCHANGED Calendar!vars
    BY <1>2 DEF Calendar!ForeignPut, Calendar!ForeignOverride, Calendar!vars
  <2>4. PICK g \in Handlers : Calendar!Serve(g)
    BY <2>3 DEF Calendar!Next
  <2>5. Calendar!Put(h) \/ Calendar!Remove(h)
    BY <2>1, <2>2, <2>4
  <2>6. QED
    BY <1>1, <1>2, <2>5 DEF Calendar!Remove
<1>4. PICK o : o = Calendar!Built(r) /\ o # Calendar!None
  BY <1>2, CalendarTarget
<1>5. objects' = [objects EXCEPT ![r.path] = o]
  BY <1>1, <1>2, <1>3, <1>4 DEF Calendar!Put, Calendar!Target
<1>6. objects[r.path] # Calendar!None /\ r.path \in Calendar!Paths
  BY <1>2 DEF Calendar!Copies, Calendar!CopiesIn
<1>7. \A p \in Calendar!Paths : objects'[p] # Calendar!None <=> objects[p] # Calendar!None
  BY <1>4, <1>5, <1>6 DEF CalendarInv, CalendarTables
<1>8. QED
  BY <1>1, <1>7 DEF Calendar!Copies, Calendar!CopiesIn
-----------------------------------------------------------------------------
(* Price lists (PriceLists) *)

\* Cells that are empty in every column a list does not have.
Visible(shown) == {cells \in PriceLists!Cells : \A k \in ListKeys \ shown : cells[k] = EmptyCell}

\* What an import is about to save: columns and cells of the list.
ImportSound(import) ==
  import # PriceLists!Idle =>
    /\ import = [step |-> import.step, columns |-> import.columns, headers |-> import.headers,
                 pending |-> import.pending]
    /\ import.columns \subseteq ListKeys
    /\ \A p \in import.pending : p.cells \in PriceLists!Cells

ListInv ==
  /\ columns \subseteq ListKeys /\ cellEdits \in 0..MaxCellEdits
  /\ rows = [r \in PriceLists!Ids |-> rows[r]]
  /\ \A r \in PriceLists!Stored : \E cells \in Visible(columns) : rows[r] = PriceLists!Row(cells)
  /\ rowImports = [i \in ListImporters |-> rowImports[i]]
  /\ \A i \in ListImporters : ImportSound(rowImports[i])

\* The price list begins without rows.
LEMMA ListInit == PriceLists!PriceListsAssumption /\ PriceLists!Init => ListInv
<1> SUFFICES ASSUME PriceLists!PriceListsAssumption, PriceLists!Init
             PROVE  ListInv
  OBVIOUS
<1>1. PriceLists!Stored = {}
  BY DEF PriceLists!Stored, PriceLists!Init
<1>2. QED
  BY <1>1 DEF PriceLists!Init, ListInv, ImportSound, PriceLists!PriceListsAssumption

\* Cells that are cleaned of all but the columns of the list are visible, and search finds texts.
LEMMA CleanIsVisible ==
  ASSUME NEW cells \in PriceLists!Cells, NEW shown
  PROVE  PriceLists!Clean(cells, shown) \in Visible(shown)
BY DEF PriceLists!Clean, PriceLists!Cells, Visible

\* Columns that go take their cells with them, those that come find empty ones.
LEMMA ColumnsClean ==
  ASSUME NEW before, NEW keys \in SUBSET ListKeys, NEW cells \in Visible(before)
  PROVE  PriceLists!Clean(cells, keys \cup (ListKeys \ before)) \in Visible(keys)
BY DEF PriceLists!Clean, PriceLists!Cells, Visible

\* A row keeps the cells it is made of.
LEMMA RowKeepsCells ==
  ASSUME NEW cells
  PROVE  PriceLists!Row(cells).cells = cells /\ PriceLists!Row(cells).search = PriceLists!SearchText(cells)
BY DEF PriceLists!Row

\* Rows that are visible, or no rows at all, after a call that leaves the columns.
LEMMA ListRows ==
  ASSUME ListInv, PriceLists!PriceListsAssumption, columns' \subseteq ListKeys, cellEdits' \in 0..MaxCellEdits,
         rows' = [r \in PriceLists!Ids |-> rows'[r]],
         \A r \in PriceLists!Ids :
            \/ rows'[r] \in {PriceLists!NoRow, PriceLists!Gone}
            \/ \E cells \in Visible(columns') : rows'[r] = PriceLists!Row(cells),
         rowImports' = [i \in ListImporters |-> rowImports'[i]],
         \A i \in ListImporters : ImportSound(rowImports'[i])
  PROVE  ListInv'
<1>1. ASSUME NEW r \in PriceLists!Stored'
      PROVE  \E cells \in Visible(columns') : rows'[r] = PriceLists!Row(cells)
  BY DEF PriceLists!Stored
<1>2. QED
  BY <1>1 DEF ListInv

\* What a row is: none, or one with visible cells.
LEMMA RowIs ==
  ASSUME ListInv, NEW r \in PriceLists!Ids
  PROVE  \/ rows[r] \in {PriceLists!NoRow, PriceLists!Gone}
         \/ \E cells \in Visible(columns) : rows[r] = PriceLists!Row(cells)
BY DEF ListInv, PriceLists!Stored

\* One row changes.
LEMMA OneRow ==
  ASSUME ListInv, PriceLists!PriceListsAssumption, PriceLists!Edit, NEW r, NEW row,
         rows' = [rows EXCEPT ![r] = row], UNCHANGED <<columns, rowImports>>,
         row = PriceLists!Gone \/ \E cells \in Visible(columns) : row = PriceLists!Row(cells)
  PROVE  ListInv'
<1>1. cellEdits' \in 0..MaxCellEdits
  BY DEF ListInv, PriceLists!Edit, PriceLists!PriceListsAssumption
<1>2. rows' = [s \in PriceLists!Ids |-> rows'[s]] /\ \A s \in PriceLists!Ids : rows'[s] = row \/ rows'[s] = rows[s]
  BY DEF ListInv
<1>3. QED
  BY <1>1, <1>2, RowIs, ListRows DEF ListInv

\* Columns are saved with the values of those that leave.
LEMMA ColumnsSaved ==
  ASSUME ListInv, PriceLists!PriceListsAssumption, NEW keys \in SUBSET ListKeys, columns' = keys,
         rows' = PriceLists!WithColumns(keys), cellEdits' \in 0..MaxCellEdits,
         rowImports' = [i \in ListImporters |-> rowImports'[i]],
         \A i \in ListImporters : ImportSound(rowImports'[i])
  PROVE  ListInv'
<1>1. rows' = [r \in PriceLists!Ids |-> rows'[r]]
  BY DEF PriceLists!WithColumns
<1>2. ASSUME NEW r \in PriceLists!Ids
      PROVE  \/ rows'[r] \in {PriceLists!NoRow, PriceLists!Gone}
             \/ \E cells \in Visible(keys) : rows'[r] = PriceLists!Row(cells)
  <2>1. CASE r \notin PriceLists!Stored
    BY <2>1 DEF PriceLists!WithColumns, PriceLists!Stored
  <2>2. CASE r \in PriceLists!Stored
    <3>1. PICK cells \in Visible(columns) : rows[r] = PriceLists!Row(cells)
      BY <2>2 DEF ListInv
    <3>2. rows'[r] = PriceLists!Row(PriceLists!Clean(cells, keys \cup (ListKeys \ columns)))
      BY <2>2, <3>1, RowKeepsCells DEF PriceLists!WithColumns
    <3>3. QED
      BY <3>2, ColumnsClean
  <2>3. QED
    BY <2>1, <2>2
<1>3. QED
  BY <1>1, <1>2, ListRows

\* Pending rows are saved: what they hold is cleaned of the columns the list does not have.
LEMMA RowsSaved ==
  ASSUME ListInv, PriceLists!PriceListsAssumption, NEW pending,
         \A p \in pending : p.cells \in PriceLists!Cells,
         PriceLists!SaveRows(pending), columns' = columns, cellEdits' \in 0..MaxCellEdits,
         rowImports' = [i \in ListImporters |-> rowImports'[i]],
         \A i \in ListImporters : ImportSound(rowImports'[i])
  PROVE  ListInv'
<1> DEFINE added == PriceLists!Added(pending)
<1>1. PICK place \in [added -> PriceLists!Made + 1..PriceLists!Made + PriceLists!Cardinality(added)] :
        rows' = [r \in PriceLists!Ids |->
            IF \E p \in added : place[p] = r
              THEN PriceLists!Row(PriceLists!Clean((CHOOSE p \in added : place[p] = r).cells, columns))
            ELSE IF r \in PriceLists!Stored /\ \E p \in pending : p.id = r
              THEN PriceLists!Row(PriceLists!Clean((CHOOSE p \in pending : p.id = r).cells, columns))
            ELSE rows[r]]
  BY DEF PriceLists!SaveRows
<1>2. added \subseteq pending
  BY DEF PriceLists!Added
<1> HIDE DEF added
<1>3. ASSUME NEW r \in PriceLists!Ids
      PROVE  \/ rows'[r] \in {PriceLists!NoRow, PriceLists!Gone}
             \/ \E cells \in Visible(columns) : rows'[r] = PriceLists!Row(cells)
  <2>1. CASE \E p \in added : place[p] = r
    <3>1. PICK x : x = CHOOSE p \in added : place[p] = r
      OBVIOUS
    <3>2. x \in added
      BY <2>1, <3>1
    <3>3. rows'[r] = PriceLists!Row(PriceLists!Clean(x.cells, columns))
      BY <1>1, <2>1, <3>1
    <3>4. QED
      BY <1>2, <3>2, <3>3, CleanIsVisible
  <2>2. CASE ~(\E p \in added : place[p] = r) /\ r \in PriceLists!Stored /\ \E p \in pending : p.id = r
    <3>1. PICK x : x = CHOOSE p \in pending : p.id = r
      OBVIOUS
    <3>2. x \in pending
      BY <2>2, <3>1
    <3>3. rows'[r] = PriceLists!Row(PriceLists!Clean(x.cells, columns))
      BY <1>1, <2>2, <3>1
    <3>4. QED
      BY <3>2, <3>3, CleanIsVisible
  <2>3. CASE ~(\E p \in added : place[p] = r) /\ ~(r \in PriceLists!Stored /\ \E p \in pending : p.id = r)
    <3>1. rows'[r] = rows[r]
      BY <1>1, <2>3
    <3>2. QED
      BY <3>1, RowIs
  <2>4. QED
    BY <2>1, <2>2, <2>3
<1>4. rows' = [r \in PriceLists!Ids |-> rows'[r]]
  BY <1>1
<1>5. columns' \subseteq ListKeys
  BY DEF ListInv
<1>6. QED
  BY <1>3, <1>4, <1>5, ListRows

\* A call of the grid, or of the column editor.
LEMMA ListCall ==
  ASSUME ListInv, PriceLists!PriceListsAssumption,
         \/ PriceLists!SavePriceColumns \/ PriceLists!AppendPriceRow \/ PriceLists!UpdatePriceRowCells
         \/ PriceLists!DeletePriceRow \/ PriceLists!SavePriceRows \/ PriceLists!DeletePriceList
  PROVE  ListInv'
<1>0. PriceLists!Edit /\ rowImports' = rowImports
  BY DEF PriceLists!SavePriceColumns, PriceLists!AppendPriceRow, PriceLists!UpdatePriceRowCells,
         PriceLists!DeletePriceRow, PriceLists!SavePriceRows, PriceLists!DeletePriceList
<1>1. /\ cellEdits' \in 0..MaxCellEdits /\ rowImports' = [i \in ListImporters |-> rowImports'[i]]
      /\ \A i \in ListImporters : ImportSound(rowImports'[i])
  BY <1>0 DEF PriceLists!Edit, ListInv, PriceLists!PriceListsAssumption
<1>2. CASE PriceLists!SavePriceColumns
  BY <1>1, <1>2, ColumnsSaved DEF PriceLists!SavePriceColumns
<1>3. CASE PriceLists!AppendPriceRow
  <2>1. PICK cells \in PriceLists!Cells :
          rows' = [rows EXCEPT ![PriceLists!Made + 1] = PriceLists!Row(PriceLists!Clean(cells, columns))]
    BY <1>3 DEF PriceLists!AppendPriceRow
  <2>2. PICK row, at : /\ row = PriceLists!Row(PriceLists!Clean(cells, columns)) /\ at = PriceLists!Made + 1
    OBVIOUS
  <2>3. \E c \in Visible(columns) : row = PriceLists!Row(c)
    BY <2>2, CleanIsVisible
  <2>4. QED
    BY <1>0, <1>3, <2>1, <2>2, <2>3, OneRow DEF PriceLists!AppendPriceRow
<1>4. CASE PriceLists!UpdatePriceRowCells
  <2>1. PICK r \in PriceLists!Stored, k \in ListKeys, text \in Texts \cup {EmptyCell} :
          rows' = [rows EXCEPT ![r] = PriceLists!Row(
            IF k \in columns THEN [rows[r].cells EXCEPT ![k] = text] ELSE rows[r].cells)]
    BY <1>4 DEF PriceLists!UpdatePriceRowCells
  <2>2. PICK cells \in Visible(columns) : rows[r].cells = cells
    BY RowKeepsCells DEF ListInv
  <2>3. PICK new : new = IF k \in columns THEN [cells EXCEPT ![k] = text] ELSE cells
    OBVIOUS
  <2>4. new \in Visible(columns)
    BY <2>3 DEF Visible, PriceLists!Cells
  <2>5. PICK row : row = PriceLists!Row(new)
    OBVIOUS
  <2>6. rows' = [rows EXCEPT ![r] = row]
    BY <2>1, <2>2, <2>3, <2>5
  <2>7. QED
    BY <1>0, <1>4, <2>4, <2>5, <2>6, OneRow DEF PriceLists!UpdatePriceRowCells
<1>5. CASE PriceLists!DeletePriceRow
  <2>1. PICK r, row : row = PriceLists!Gone /\ rows' = [rows EXCEPT ![r] = row]
    BY <1>5 DEF PriceLists!DeletePriceRow
  <2>2. QED
    BY <1>0, <1>5, <2>1, OneRow DEF PriceLists!DeletePriceRow
<1>6. CASE PriceLists!SavePriceRows
  <2>1. PICK r \in PriceLists!Ids, cells \in PriceLists!Cells :
          PriceLists!SaveRows({[id |-> r, cells |-> cells]})
    BY <1>6 DEF PriceLists!SavePriceRows
  <2>2. PICK pending : pending = {[id |-> r, cells |-> cells]}
    OBVIOUS
  <2>3. \A p \in pending : p.cells \in PriceLists!Cells
    BY <2>2
  <2>4. PriceLists!SaveRows(pending) /\ columns' = columns
    BY <1>6, <2>1, <2>2 DEF PriceLists!SavePriceRows
  <2>5. QED
    BY <1>1, <2>3, <2>4, RowsSaved
<1>7. CASE PriceLists!DeletePriceList
  <2>1. /\ columns' = {} /\ rows' = [r \in PriceLists!Ids |-> rows'[r]]
        /\ \A r \in PriceLists!Ids : rows'[r] = PriceLists!Gone \/ rows'[r] = PriceLists!NoRow
    BY <1>7 DEF PriceLists!DeletePriceList, PriceLists!Stored
  <2>2. QED
    BY <1>1, <2>1, ListRows
<1>8. QED
  BY <1>2, <1>3, <1>4, <1>5, <1>6, <1>7

\* A step of an import.
LEMMA ListImportStep ==
  ASSUME ListInv, PriceLists!PriceListsAssumption, NEW i \in ListImporters,
         PriceLists!ReadTable(i) \/ PriceLists!SaveImportedColumns(i)
           \/ PriceLists!SaveImportedRows(i) \/ PriceLists!Abandon(i)
  PROVE  ListInv'
<1>1. ImportSound(PriceLists!Idle)
  BY DEF ImportSound
<1>2. ASSUME NEW next, ImportSound(next), rowImports' = [rowImports EXCEPT ![i] = next]
      PROVE  /\ rowImports' = [j \in ListImporters |-> rowImports'[j]]
             /\ \A j \in ListImporters : ImportSound(rowImports'[j])
  <2>1. \A j \in ListImporters : rowImports'[j] = next \/ rowImports'[j] = rowImports[j]
    BY <1>2 DEF ListInv
  <2>2. \A j \in ListImporters : ImportSound(rowImports[j])
    BY DEF ListInv
  <2>3. rowImports' = [j \in ListImporters |-> rowImports'[j]]
    BY <1>2 DEF ListInv
  <2>4. \A j \in ListImporters : ImportSound(rowImports'[j])
    BY <1>2, <2>1, <2>2
  <2>5. QED
    BY <2>3, <2>4
<1>3. ASSUME NEW next, ImportSound(next), rowImports' = [rowImports EXCEPT ![i] = next],
             UNCHANGED <<columns, rows, cellEdits>>
      PROVE  ListInv'
  BY <1>2, <1>3, RowIs, ListRows DEF ListInv
<1>4. PICK import : import = rowImports[i]
  OBVIOUS
<1>5. ImportSound(import)
  BY <1>4 DEF ListInv
<1>6. PICK idle : idle = PriceLists!Idle
  OBVIOUS
<1>7. CASE PriceLists!ReadTable(i)
  <2>1. PICK headers \in SUBSET ListKeys, upsert \in BOOLEAN, create \in BOOLEAN, lines \in SUBSET PriceLists!Cells :
          LET known == IF create THEN columns \cup headers ELSE columns
              content(cells) == PriceLists!Clean(cells, headers \cap known)
              pending == {content(c) : c \in lines} \ {[k \in ListKeys |-> EmptyCell]}
          IN  /\ PriceLists!Cardinality(lines) \in 1..2
              /\ rowImports' = [rowImports EXCEPT ![i] = [step |-> "columns", columns |-> known,
                headers |-> headers \cap known,
                pending |-> {[id |-> PriceLists!Matched(c, upsert, known), cells |-> c] : c \in pending}]]
    BY <1>7 DEF PriceLists!ReadTable
  <2>2. PICK known : known = IF create THEN columns \cup headers ELSE columns
    OBVIOUS
  <2>3. PICK lined : lined = {PriceLists!Clean(c, headers \cap known) : c \in lines} \ {[k \in ListKeys |-> EmptyCell]}
    OBVIOUS
  <2>4. PICK pending : pending = {[id |-> PriceLists!Matched(c, upsert, known), cells |-> c] : c \in lined}
    OBVIOUS
  <2>5. rowImports' = [rowImports EXCEPT ![i] = [step |-> "columns", columns |-> known,
                         headers |-> headers \cap known, pending |-> pending]]
    BY <2>1, <2>2, <2>3, <2>4
  <2>6. known \subseteq ListKeys
    BY <2>2 DEF ListInv
  <2>7. \A c \in lined : c \in PriceLists!Cells
    BY <2>3 DEF PriceLists!Clean, PriceLists!Cells
  <2>8. \A p \in pending : p.cells \in PriceLists!Cells
    BY <2>4, <2>7
  <2>9. PICK next : next = [step |-> "columns", columns |-> known, headers |-> headers \cap known, pending |-> pending]
    OBVIOUS
  <2>10. ImportSound(next)
    BY <2>6, <2>8, <2>9 DEF ImportSound
  <2>11. QED
    BY <1>3, <1>7, <2>5, <2>9, <2>10 DEF PriceLists!ReadTable
<1>8. CASE PriceLists!SaveImportedColumns(i)
  <2>1. CASE columns = {}
    BY <1>1, <1>3, <1>6, <1>8, <2>1 DEF PriceLists!SaveImportedColumns
  <2>2. CASE columns # {}
    <3>1. /\ import.step = "columns" /\ rowImports' = [rowImports EXCEPT ![i] = [import EXCEPT !.step = "rows"]]
          /\ columns' = import.columns /\ rows' = PriceLists!WithColumns(import.columns) /\ cellEdits' = cellEdits
      BY <1>4, <1>8, <2>2 DEF PriceLists!SaveImportedColumns, ListInv
    <3>2. PICK next : next = [import EXCEPT !.step = "rows"]
      OBVIOUS
    <3>3. import # PriceLists!Idle
      BY <3>1 DEF PriceLists!Idle
    <3>4. ImportSound(next) /\ import.columns \in SUBSET ListKeys
      BY <1>5, <3>2, <3>3 DEF ImportSound
    <3>5. rowImports' = [rowImports EXCEPT ![i] = next]
      BY <3>1, <3>2
    <3>6. cellEdits' \in 0..MaxCellEdits
      BY <3>1 DEF ListInv
    <3>7. PICK keys : keys = import.columns
      OBVIOUS
    <3>8. QED
      BY <1>2, <3>1, <3>4, <3>5, <3>6, <3>7, ColumnsSaved
  <2>3. QED
    BY <2>1, <2>2
<1>9. CASE PriceLists!SaveImportedRows(i)
  <2>1. /\ import.step = "rows" /\ rowImports' = [rowImports EXCEPT ![i] = idle]
        /\ IF columns = {} THEN rows' = rows ELSE PriceLists!SaveRows(import.pending)
        /\ UNCHANGED <<columns, cellEdits>>
    BY <1>4, <1>6, <1>9 DEF PriceLists!SaveImportedRows
  <2>2. CASE columns = {}
    BY <1>1, <1>3, <1>6, <2>1, <2>2
  <2>3. CASE columns # {}
    <3>1. import # PriceLists!Idle
      BY <2>1 DEF PriceLists!Idle
    <3>2. PICK pending : pending = import.pending
      OBVIOUS
    <3>3. \A p \in pending : p.cells \in PriceLists!Cells
      BY <1>5, <3>1, <3>2 DEF ImportSound
    <3>4. PriceLists!SaveRows(pending) /\ columns' = columns /\ cellEdits' \in 0..MaxCellEdits
      BY <2>1, <2>3, <3>2 DEF ListInv
    <3>5. QED
      BY <1>1, <1>2, <1>6, <2>1, <3>3, <3>4, RowsSaved
  <2>4. QED
    BY <2>2, <2>3
<1>10. CASE PriceLists!Abandon(i)
  BY <1>1, <1>3, <1>6, <1>10 DEF PriceLists!Abandon
<1>11. QED
  BY <1>7, <1>8, <1>9, <1>10

\* The price list's invariant is inductive.
LEMMA ListStep ==
  ASSUME ListInv, PriceLists!PriceListsAssumption, [PriceLists!Next]_(PriceLists!vars)
  PROVE  ListInv'
<1>1. CASE UNCHANGED PriceLists!vars
  BY <1>1 DEF PriceLists!vars, ListInv, PriceLists!Stored
<1>2. QED
  BY <1>1, ListCall, ListImportStep DEF PriceLists!Next

\* The price list's invariant gives its type and its safety.
LEMMA ListSafe == ASSUME ListInv, PriceLists!PriceListsAssumption PROVE PriceLists!TypeOK /\ PriceLists!NothingInvisible
<1>1. ASSUME NEW r \in PriceLists!Stored
      PROVE  /\ rows[r].cells \in PriceLists!Cells /\ rows[r].search \subseteq Texts
             /\ \A k \in ListKeys \ columns : rows[r].cells[k] = EmptyCell
             /\ rows[r].search = PriceLists!SearchText(rows[r].cells)
  <2>1. PICK cells \in Visible(columns) : rows[r] = PriceLists!Row(cells)
    BY DEF ListInv
  <2>2. rows[r].cells = cells /\ rows[r].search = PriceLists!SearchText(cells)
    BY <2>1, RowKeepsCells
  <2>3. cells \in PriceLists!Cells /\ \A k \in ListKeys \ columns : cells[k] = EmptyCell
    BY DEF Visible
  <2>4. PriceLists!SearchText(cells) \subseteq Texts
    BY <2>3 DEF PriceLists!SearchText, PriceLists!Cells
  <2>5. QED
    BY <2>2, <2>3, <2>4
<1>2. QED
  BY <1>1 DEF ListInv, PriceLists!TypeOK, PriceLists!NothingInvisible
-----------------------------------------------------------------------------
(* Quotations and contracts (Documents) *)

\* The content of a document, with the edits that made it.
DocSources == {Documents!NoSource} \cup [id : Documents!Ids, revision : Nat]
DocBody(n) == [kind : {"quotation", "contract"}, line : Documents!Lines, source : DocSources, edits : SUBSET (1..n)]

\* A catalogue line has the price of the version it names.
TrulyPriced(line, prices) ==
  Documents!Catalogued(line) => line.version \in 1..Len(prices) /\ line.price = prices[line.version]

\* An id that was given to a document, whether or not the document is still there.
Given(id) == id \in links \/ id \in 1..minted

\* What a copy or a save knows: while its revision is the stored one it has all its edits.
Reads(c) ==
  /\ c.id \in Documents!Ids \cup {0} /\ c.revision \in Nat /\ c.body \in DocBody(edits)
  /\ c.revision = 0 => c.id \in Cards \cup {0}
  /\ c.revision > 0 =>
       /\ c.id \in Documents!Ids /\ Given(c.id)
       /\ Documents!Stored(c.id) => c.revision <= docs[c.id].revision
       /\ Documents!Stored(c.id) /\ c.revision = docs[c.id].revision => docs[c.id].edits \subseteq c.body.edits

\* A save that read the stored document keeps its source.
KeepsSource(s) ==
  ~s.blind /\ s.revision > 0 /\ Documents!Stored(s.id) /\ s.revision = docs[s.id].revision
    => s.body.source = docs[s.id].source

\* A revision is an edit, at least.
DocSound(id) ==
  /\ docs[id] = [kind |-> docs[id].kind, line |-> docs[id].line, source |-> docs[id].source,
                 edits |-> docs[id].edits, total |-> docs[id].total, revision |-> docs[id].revision]
  /\ Documents!Kept(docs[id]) \in DocBody(edits) /\ docs[id].revision \in Nat \ {0}
  /\ docs[id].revision <= Cardinality(docs[id].edits)
  /\ TrulyPriced(docs[id].line, catalogue) /\ docs[id].total = Documents!Total(docs[id].line)
  /\ Given(id)
CopySound(c) ==
  /\ c = [id |-> c.id, revision |-> c.revision, body |-> c.body]
  /\ Reads(c) /\ c.revision <= Cardinality(c.body.edits)
SaveSound(s) ==
  /\ s = [id |-> s.id, revision |-> s.revision, body |-> s.body, blind |-> s.blind, editor |-> s.editor]
  /\ Reads(s) /\ s.revision + 1 <= Cardinality(s.body.edits) /\ s.blind \in BOOLEAN /\ s.editor \in Editors
  /\ KeepsSource(s) /\ TrulyPriced(s.body.line, catalogue)

DocTables ==
  /\ catalogue \in Seq(Prices) /\ Len(catalogue) \in 1..MaxVersions
  /\ links \subseteq Cards /\ minted \in 0..MaxMinted /\ edits \in 0..MaxEdits
  /\ templates \subseteq seeds /\ docFaults \in 0..MaxFaults
DocsHeld ==
  /\ docs = [id \in Documents!Ids |-> docs[id]]
  /\ \A id \in Documents!Ids : Documents!Stored(id) => DocSound(id)
CopiesHeld ==
  /\ copies = [e \in Editors |-> copies[e]]
  /\ \A e \in Editors : copies[e] # Documents!Idle => CopySound(copies[e])
SavesHeld ==
  /\ saves = [h \in Handlers |-> saves[h]]
  /\ \A h \in Handlers : saves[h] # Documents!Idle => SaveSound(saves[h])

DocInv == DocTables /\ DocsHeld /\ CopiesHeld /\ SavesHeld

\* The ids that the server mints are none of a message.
LEMMA DocIds ==
  ASSUME Documents!DocumentsAssumption
  PROVE  /\ 0 \notin Documents!Ids /\ Cards \cap 1..MaxMinted = {} /\ MaxMinted + 1 \notin Cards
         /\ MaxMinted \in Nat /\ MaxEdits \in Nat /\ MaxFaults \in Nat /\ MaxVersions \in Nat \ {0}
         /\ Prices \subseteq Nat \ {0}
BY DEF Documents!DocumentsAssumption, Documents!Ids

\* A document is not the empty record.
LEMMA DocIsStored ==
  ASSUME NEW d, d.revision \in Nat \ {0}
  PROVE  d # Documents!None
BY DEF Documents!None

\* The documents' invariant holds at the start.
LEMMA DocInit == Documents!DocumentsAssumption /\ Documents!Init => DocInv
<1> SUFFICES ASSUME Documents!DocumentsAssumption, Documents!Init
             PROVE  DocInv
  OBVIOUS
<1>1. PICK p \in Prices : catalogue = <<p>>
  BY DEF Documents!Init
<1>2. catalogue \in Seq(Prices) /\ Len(catalogue) = 1
  BY <1>1
<1>3. DocTables
  BY <1>2, DocIds DEF Documents!Init, DocTables
<1>4. DocsHeld /\ CopiesHeld /\ SavesHeld
  BY DEF Documents!Init, DocsHeld, CopiesHeld, SavesHeld, Documents!Stored
<1>5. QED
  BY <1>3, <1>4 DEF DocInv

\* Bodies stay bodies while edits are made.
LEMMA BodyGrows ==
  ASSUME NEW n \in Nat, NEW m \in Nat, n <= m, NEW body \in DocBody(n)
  PROVE  body \in DocBody(m)
<1>1. SUBSET (1..n) \subseteq SUBSET (1..m)
  OBVIOUS
<1>2. QED
  BY <1>1 DEF DocBody

\* A version of the product keeps its price.
LEMMA PriceStays ==
  ASSUME NEW line, NEW prices \in Seq(Prices), NEW p \in Prices, TrulyPriced(line, prices)
  PROVE  TrulyPriced(line, Append(prices, p))
<1>1. /\ Len(Append(prices, p)) = Len(prices) + 1 /\ Len(prices) \in Nat
      /\ \A i \in 1..Len(prices) : Append(prices, p)[i] = prices[i]
  OBVIOUS
<1>2. QED
  BY <1>1 DEF TrulyPriced

\* What a step may do to a document: leave it, delete it, replace the revision there is, or make
\* one under an id that was never given.
DocMoves(id) ==
  \/ docs'[id] = docs[id]
  \/ docs'[id] = Documents!None
  \/ ~Given(id)
  \/ Documents!Stored(id) /\ docs'[id].revision = docs[id].revision + 1

DocsMove ==
  /\ \A id \in Documents!Ids : DocMoves(id)
  /\ links \subseteq links' /\ minted \in Nat /\ minted' \in Nat /\ minted <= minted'
  /\ edits \in Nat /\ edits' \in Nat /\ edits <= edits'

\* What was read stays true of what is stored.
LEMMA ReadsStay ==
  ASSUME DocsHeld, DocsMove, NEW c, Reads(c)
  PROVE  /\ c.id \in Documents!Ids \cup {0} /\ c.revision \in Nat /\ c.body \in DocBody(edits')
         /\ c.revision = 0 => c.id \in Cards \cup {0}
         /\ c.revision > 0 =>
              /\ c.id \in Documents!Ids /\ Given(c.id)'
              /\ Documents!Stored(c.id)' => c.revision <= docs'[c.id].revision
              /\ Documents!Stored(c.id)' /\ c.revision = docs'[c.id].revision =>
                   docs[c.id] = docs'[c.id] /\ docs'[c.id].edits \subseteq c.body.edits
<1>1. c.body \in DocBody(edits')
  BY BodyGrows DEF Reads, DocsMove
<1>2. CASE c.revision > 0
  <2>1. c.id \in Documents!Ids /\ Given(c.id) /\ Given(c.id)'
    BY <1>2 DEF Reads, Given, DocsMove
  <2>2. CASE docs'[c.id] = docs[c.id]
    BY <1>1, <1>2, <2>1, <2>2 DEF Reads, Documents!Stored
  <2>3. CASE docs'[c.id] = Documents!None
    BY <1>1, <1>2, <2>1, <2>3 DEF Reads, Documents!Stored
  <2>4. CASE Documents!Stored(c.id) /\ docs'[c.id].revision = docs[c.id].revision + 1
    <3>1. docs[c.id].revision \in Nat /\ c.revision <= docs[c.id].revision
      BY <1>2, <2>1, <2>4 DEF DocsHeld, DocSound, Reads
    <3>2. c.revision \in Nat /\ c.revision < docs'[c.id].revision
      BY <2>4, <3>1 DEF Reads
    <3>3. QED
      BY <1>1, <1>2, <2>1, <2>4, <3>1, <3>2 DEF Reads
  <2>5. QED
    BY <1>1, <2>1, <2>2, <2>3, <2>4 DEF DocsMove, DocMoves, Reads
<1>3. QED
  BY <1>1, <1>2 DEF Reads

\* What an editor shows stays sound while the documents move.
LEMMA CopyStays ==
  ASSUME DocsHeld, DocsMove, NEW c, CopySound(c)
  PROVE  CopySound(c)'
<1>1. Reads(c)'
  BY ReadsStay DEF CopySound, Reads
<1>2. QED
  BY <1>1 DEF CopySound

\* What a save holds stays sound while the documents move.
LEMMA SaveStays ==
  ASSUME DocsHeld, DocsMove, NEW s, SaveSound(s), TrulyPriced(s.body.line, catalogue')
  PROVE  SaveSound(s)'
<1>1. Reads(s)'
  BY ReadsStay DEF SaveSound, Reads
<1>2. KeepsSource(s)'
  <2>1. ASSUME s.revision > 0, Documents!Stored(s.id)', s.revision = docs'[s.id].revision
        PROVE  docs[s.id] = docs'[s.id]
    BY <2>1, ReadsStay DEF SaveSound
  <2>2. QED
    BY <2>1 DEF SaveSound, KeepsSource, Documents!Stored
<1>3. QED
  BY <1>1, <1>2 DEF SaveSound

\* A document that stays keeps what makes it sound.
LEMMA DocStays ==
  ASSUME DocsHeld, DocsMove, NEW id \in Documents!Ids, docs'[id] = docs[id], Documents!Stored(id),
         TrulyPriced(docs[id].line, catalogue')
  PROVE  DocSound(id)'
<1>1. DocSound(id)
  BY DEF DocsHeld
<1>2. PICK d : d = docs[id] /\ d = docs'[id]
  OBVIOUS
<1>3. Documents!Kept(d) \in DocBody(edits')
  <2>1. PICK body : body = Documents!Kept(d)
    OBVIOUS
  <2>2. body \in DocBody(edits)
    BY <1>1, <1>2, <2>1 DEF DocSound, Documents!Kept
  <2>3. QED
    BY <2>1, <2>2, BodyGrows DEF DocsMove
<1>4. Given(id)'
  BY <1>1 DEF DocSound, Given, DocsMove
<1>5. QED
  BY <1>1, <1>2, <1>3, <1>4 DEF DocSound, Documents!Kept, Documents!Total

\* The rest of a step: what it leaves alone stays sound, so only what it writes is to be shown so.
LEMMA DocFrame ==
  ASSUME DocInv, DocsMove, DocTables',
         \A line : TrulyPriced(line, catalogue) => TrulyPriced(line, catalogue'),
         docs' = [id \in Documents!Ids |-> docs'[id]],
         \A id \in Documents!Ids : docs'[id] = docs[id] \/ docs'[id] = Documents!None \/ DocSound(id)',
         copies' = [e \in Editors |-> copies'[e]],
         \A e \in Editors : copies'[e] = copies[e] \/ \E c : c = copies'[e] /\ CopySound(c)',
         saves' = [h \in Handlers |-> saves'[h]],
         \A h \in Handlers : \/ saves'[h] = saves[h] \/ saves'[h] = Documents!Idle
                             \/ \E s : s = saves'[h] /\ SaveSound(s)'
  PROVE  DocInv'
<1>1. DocsHeld'
  <2>1. ASSUME NEW id \in Documents!Ids, Documents!Stored(id)'
        PROVE  DocSound(id)'
    <3>1. CASE docs'[id] = docs[id]
      <4>1. Documents!Stored(id) /\ DocsHeld
        BY <2>1, <3>1 DEF Documents!Stored, DocInv
      <4>2. TrulyPriced(docs[id].line, catalogue')
        BY <4>1 DEF DocsHeld, DocSound
      <4>3. QED
        BY <3>1, <4>1, <4>2, DocStays
    <3>2. QED
      BY <2>1, <3>1 DEF Documents!Stored
  <2>2. QED
    BY <2>1 DEF DocsHeld
<1>2. CopiesHeld'
  <2>2. ASSUME NEW e \in Editors, copies'[e] # Documents!Idle
        PROVE  \E c : c = copies'[e] /\ CopySound(c)'
    <3>1. PICK c : c = copies'[e]
      OBVIOUS
    <3>2. CASE c = copies[e]
      <4>1. CopySound(c) /\ DocsHeld
        BY <2>2, <3>1, <3>2 DEF DocInv, CopiesHeld
      <4>2. QED
        BY <3>1, <4>1, CopyStays
    <3>3. QED
      BY <3>1, <3>2
  <2>3. QED
    BY <2>2 DEF CopiesHeld
<1>3. SavesHeld'
  <2>1. ASSUME NEW h \in Handlers, saves'[h] # Documents!Idle
        PROVE  \E s : s = saves'[h] /\ SaveSound(s)'
    <3>1. PICK s : s = saves'[h]
      OBVIOUS
    <3>2. CASE s = saves[h]
      <4>1. SaveSound(s) /\ DocsHeld
        BY <2>1, <3>1, <3>2 DEF DocInv, SavesHeld
      <4>2. TrulyPriced(s.body.line, catalogue')
        BY <4>1 DEF SaveSound
      <4>3. QED
        BY <3>1, <4>1, <4>2, SaveStays
    <3>3. QED
      BY <2>1, <3>1, <3>2
  <2>2. QED
    BY <2>1 DEF SavesHeld
<1>4. QED
  BY <1>1, <1>2, <1>3 DEF DocInv

\* A step that touches no document and no price moves them as a step may.
LEMMA DocsRest ==
  ASSUME DocInv, docs' = docs, links' = links, minted' = minted, edits' \in Nat, edits <= edits'
  PROVE  DocsMove /\ docs' = [id \in Documents!Ids |-> docs'[id]]
BY DEF DocInv, DocTables, DocsHeld, DocsMove, DocMoves

\* The catalogue gets another version.
LEMMA DocReprice == ASSUME Documents!DocumentsAssumption, DocInv, Documents!Reprice PROVE DocInv'
<1>1. PICK p \in Prices : catalogue' = Append(catalogue, p)
  BY DEF Documents!Reprice
<1>2. Len(catalogue) < MaxVersions
      /\ UNCHANGED <<docs, links, minted, copies, saves, edits, templates, seeds, docFaults>>
  BY DEF Documents!Reprice, Documents!still
<1>3. catalogue \in Seq(Prices) /\ Len(catalogue) \in 1..MaxVersions
  BY DEF DocInv, DocTables
<1>4. DocTables'
  <2>1. Append(catalogue, p) \in Seq(Prices) /\ Len(Append(catalogue, p)) = Len(catalogue) + 1
    BY <1>3
  <2>2. Len(catalogue') \in 1..MaxVersions
    BY <1>1, <1>2, <1>3, <2>1, DocIds
  <2>3. QED
    BY <1>1, <1>2, <2>1, <2>2 DEF DocInv, DocTables
<1>5. DocsMove /\ docs' = [id \in Documents!Ids |-> docs'[id]]
  BY <1>2, DocsRest DEF DocInv, DocTables
<1>6. \A line : TrulyPriced(line, catalogue) => TrulyPriced(line, catalogue')
  BY <1>1, <1>3, PriceStays
<1>7. copies' = [e \in Editors |-> copies'[e]] /\ saves' = [h \in Handlers |-> saves'[h]]
  BY <1>2 DEF DocInv, CopiesHeld, SavesHeld
<1>8. QED
  BY <1>2, <1>4, <1>5, <1>6, <1>7, DocFrame

\* An editor shows another copy.
LEMMA DocShow ==
  ASSUME Documents!DocumentsAssumption, DocInv, NEW e \in Editors, NEW c, CopySound(c),
         copies' = [copies EXCEPT ![e] = c],
         UNCHANGED <<catalogue, docs, links, minted, saves, edits, templates, seeds, docFaults>>
  PROVE  DocInv'
<1>1. DocsMove /\ docs' = [id \in Documents!Ids |-> docs'[id]]
  BY DocsRest DEF DocInv, DocTables
<1>2. DocTables'
  BY DEF DocInv, DocTables
<1>3. CopySound(c)'
  BY <1>1, CopyStays DEF DocInv
<1>4. copies' = [f \in Editors |-> copies'[f]] /\ saves' = [h \in Handlers |-> saves'[h]]
  BY DEF DocInv, CopiesHeld, SavesHeld
<1>5. \A f \in Editors : copies'[f] = copies[f] \/ copies'[f] = c
  BY DEF DocInv, CopiesHeld
<1>6. QED
  BY <1>1, <1>2, <1>3, <1>4, <1>5, DocFrame

\* A record under the id of a document, at its revision and with its edits, is a sound copy.
LEMMA CopyOfStored ==
  ASSUME Documents!DocumentsAssumption, DocInv, NEW id \in Documents!Ids, Documents!Stored(id), NEW body \in DocBody(edits),
         docs[id].edits \subseteq body.edits, docs[id].revision <= Cardinality(body.edits)
  PROVE  CopySound([id |-> id, revision |-> docs[id].revision, body |-> body])
<1>1. DocSound(id)
  BY DEF DocInv, DocsHeld
<1>2. PICK r : r = docs[id].revision
  OBVIOUS
<1>3. PICK c : c = [id |-> id, revision |-> r, body |-> body]
  OBVIOUS
<1>4. c.id = id /\ c.revision = r /\ c.body = body
  BY <1>3
<1>5. Reads(c)
  BY <1>1, <1>2, <1>4 DEF Reads, DocSound
<1>6. QED
  BY <1>2, <1>3, <1>4, <1>5 DEF CopySound

\* A page that is no document yet.
LEMMA CopyOfNone ==
  ASSUME Documents!DocumentsAssumption, DocInv, NEW id \in Cards \cup {0}, NEW body \in DocBody(edits)
  PROVE  CopySound([id |-> id, revision |-> 0, body |-> body])
<1>1. PICK c : c = [id |-> id, revision |-> 0, body |-> body]
  OBVIOUS
<1>2. c.id = id /\ c.revision = 0 /\ c.body = body /\ id \in Documents!Ids \cup {0}
  BY <1>1 DEF Documents!Ids
<1>3. IsFiniteSet(body.edits) /\ Cardinality(body.edits) \in Nat
  <2>1. body.edits \subseteq 1..edits /\ edits \in Int
    BY DEF DocBody, DocInv, DocTables
  <2>2. IsFiniteSet(1..edits)
    BY <2>1, FS_Interval
  <2>3. QED
    BY <2>1, <2>2, FS_Subset, FS_CardinalityType
<1>4. QED
  BY <1>1, <1>2, <1>3 DEF CopySound, Reads

\* A line that is priced is a line, and truly priced when the trusted one is.
LEMMA PricedIsTrue ==
  ASSUME Documents!DocumentsAssumption, DocTables, NEW trusted, TrulyPriced(trusted, catalogue),
         NEW line \in Documents!Lines, NEW priced \in Documents!Priced(trusted, line)
  PROVE  priced \in Documents!Lines /\ TrulyPriced(priced, catalogue)
<1>1. CASE ~Documents!Catalogued(line) \/ line = trusted
  <2>1. priced = line
    BY <1>1 DEF Documents!Priced
  <2>2. QED
    BY <1>1, <2>1 DEF TrulyPriced
<1>2. CASE Documents!Catalogued(line) /\ line # trusted
  <2>1. PICK p : p = catalogue[Len(catalogue)]
    OBVIOUS
  <2>2. priced = [line EXCEPT !.price = p] /\ line.version = Len(catalogue)
    BY <1>2, <2>1 DEF Documents!Priced
  <2>3. p \in Prices /\ Len(catalogue) \in 1..Len(catalogue)
    BY <2>1 DEF DocTables
  <2>4. line \in [of : {"catalogue"}, version : 1..MaxVersions, price : {Documents!Unset} \cup Prices]
    BY <1>2 DEF Documents!Lines, Documents!Catalogued
  <2>5. priced \in Documents!Lines /\ priced.version = Len(catalogue) /\ priced.price = p
    BY <2>2, <2>3, <2>4 DEF Documents!Lines
  <2>6. QED
    BY <2>1, <2>3, <2>5 DEF TrulyPriced
<1>3. QED
  BY <1>1, <1>2

\* A body without a price.
LEMMA BlankBody ==
  /\ Documents!Blank \in DocBody(edits) /\ Documents!NoSource \in DocSources
  /\ Documents!Blank.line \in Documents!Lines /\ TrulyPriced(Documents!Blank.line, catalogue)
BY DEF DocBody, Documents!Blank, DocSources, Documents!Lines, TrulyPriced, Documents!Catalogued

\* The content of a stored document.
LEMMA KeptBody ==
  ASSUME DocInv, NEW id \in Documents!Ids, Documents!Stored(id)
  PROVE  /\ Documents!Kept(docs[id]) \in DocBody(edits) /\ Documents!Kept(docs[id]).edits = docs[id].edits
         /\ docs[id].line \in Documents!Lines /\ TrulyPriced(docs[id].line, catalogue)
         /\ docs[id].edits \subseteq 1..edits /\ docs[id].source \in DocSources
         /\ docs[id].revision \in Nat \ {0} /\ docs[id].revision <= Cardinality(docs[id].edits)
<1>1. DocSound(id)
  BY DEF DocInv, DocsHeld
<1>2. PICK body : body = Documents!Kept(docs[id])
  OBVIOUS
<1>3. /\ body.edits = docs[id].edits /\ body.line = docs[id].line /\ body.source = docs[id].source
  BY <1>2 DEF Documents!Kept
<1>4. body \in DocBody(edits)
  BY <1>1, <1>2 DEF DocSound
<1>5. body.edits \subseteq 1..edits /\ body.line \in Documents!Lines /\ body.source \in DocSources
  BY <1>4 DEF DocBody
<1>6. QED
  BY <1>1, <1>2, <1>3, <1>4, <1>5 DEF DocSound

\* An editor opens a document or a blank one.
LEMMA DocOpen == ASSUME Documents!DocumentsAssumption, DocInv, NEW e \in Editors, Documents!Open(e) PROVE DocInv'
<1>0. UNCHANGED <<catalogue, docs, links, minted, saves, edits, templates, seeds, docFaults>>
  BY DEF Documents!Open, Documents!still
<1>1. ASSUME NEW id \in Documents!Ids, Documents!Stored(id),
             copies' = [copies EXCEPT ![e] =
               [id |-> id, revision |-> docs[id].revision, body |-> Documents!Kept(docs[id])]]
      PROVE  DocInv'
  <2>1. PICK body : body = Documents!Kept(docs[id])
    OBVIOUS
  <2>2. PICK c : c = [id |-> id, revision |-> docs[id].revision, body |-> body]
    OBVIOUS
  <2>3. body \in DocBody(edits) /\ docs[id].edits \subseteq body.edits /\ docs[id].revision <= Cardinality(body.edits)
    BY <1>1, <2>1, KeptBody
  <2>4. CopySound(c)
    BY <1>1, <2>2, <2>3, CopyOfStored
  <2>5. QED
    BY <1>0, <1>1, <2>1, <2>2, <2>4, DocShow
<1>2. ASSUME NEW id \in Cards \cup {0},
             copies' = [copies EXCEPT ![e] = [id |-> id, revision |-> 0, body |-> Documents!Blank]]
      PROVE  DocInv'
  <2>1. PICK body : body = Documents!Blank
    OBVIOUS
  <2>2. PICK c : c = [id |-> id, revision |-> 0, body |-> body]
    OBVIOUS
  <2>3. CopySound(c)
    BY <2>1, <2>2, BlankBody, CopyOfNone
  <2>4. QED
    BY <1>0, <1>2, <2>1, <2>2, <2>3, DocShow
<1>3. QED
  BY <1>1, <1>2 DEF Documents!Open

\* A quotation becomes a new contract in the editor.
LEMMA DocConvert == ASSUME Documents!DocumentsAssumption, DocInv, NEW e \in Editors, Documents!Convert(e) PROVE DocInv'
<1>0. UNCHANGED <<catalogue, docs, links, minted, saves, edits, templates, seeds, docFaults>>
  BY DEF Documents!Convert, Documents!still
<1>1. PICK id \in Documents!Ids, card \in Cards :
        /\ Documents!Stored(id)
        /\ copies' = [copies EXCEPT ![e] = [id |-> card, revision |-> 0,
             body |-> [kind |-> "contract", line |-> docs[id].line, edits |-> docs[id].edits,
                       source |-> [id |-> id, revision |-> docs[id].revision]]]]
  BY DEF Documents!Convert
<1>2. PICK body : body = [kind |-> "contract", line |-> docs[id].line, edits |-> docs[id].edits,
                          source |-> [id |-> id, revision |-> docs[id].revision]]
  OBVIOUS
<1>3. body \in DocBody(edits)
  <2>1. [id |-> id, revision |-> docs[id].revision] \in DocSources
    BY <1>1, KeptBody DEF DocSources
  <2>2. docs[id].line \in Documents!Lines /\ docs[id].edits \in SUBSET (1..edits)
    BY <1>1, KeptBody
  <2>3. QED
    BY <1>2, <2>1, <2>2 DEF DocBody
<1>4. PICK c : c = [id |-> card, revision |-> 0, body |-> body]
  OBVIOUS
<1>5. CopySound(c)
  BY <1>3, <1>4, CopyOfNone
<1>6. QED
  BY <1>0, <1>1, <1>2, <1>4, <1>5, DocShow

\* The agent's draft lands in the editor.
LEMMA DocPropose == ASSUME Documents!DocumentsAssumption, DocInv, NEW e \in Editors, Documents!Propose(e) PROVE DocInv'
<1>0. UNCHANGED <<catalogue, docs, links, minted, saves, edits, templates, seeds, docFaults>>
  BY DEF Documents!Propose, Documents!still
<1>1. PICK id \in Documents!Ids : /\ Documents!Stored(id)
        /\ \E body \in Documents!Commanded(docs[id]) :
             copies' = [copies EXCEPT ![e] = [id |-> id, revision |-> docs[id].revision, body |-> body]]
  BY DEF Documents!Propose
<1>2. PICK body \in Documents!Commanded(docs[id]) :
        copies' = [copies EXCEPT ![e] = [id |-> id, revision |-> docs[id].revision, body |-> body]]
  BY <1>1
<1>3. PICK line \in Documents!Lines : \E priced \in Documents!Priced(docs[id].line, line) :
        body = [Documents!Kept(docs[id]) EXCEPT !.line = priced]
  BY DEF Documents!Commanded, Documents!Proposed
<1>4. PICK priced \in Documents!Priced(docs[id].line, line) : body = [Documents!Kept(docs[id]) EXCEPT !.line = priced]
  BY <1>3
<1>5. PICK kept : kept = Documents!Kept(docs[id])
  OBVIOUS
<1>6. priced \in Documents!Lines
  BY <1>1, KeptBody, PricedIsTrue DEF DocInv
<1>7. kept \in DocBody(edits) /\ kept.edits = docs[id].edits /\ docs[id].revision <= Cardinality(docs[id].edits)
  BY <1>1, <1>5, KeptBody
<1>8. body \in DocBody(edits) /\ body.edits = docs[id].edits
  BY <1>4, <1>5, <1>6, <1>7 DEF DocBody
<1>9. PICK c : c = [id |-> id, revision |-> docs[id].revision, body |-> body]
  OBVIOUS
<1>10. docs[id].edits \subseteq body.edits /\ docs[id].revision <= Cardinality(body.edits)
  BY <1>7, <1>8
<1>11. CopySound(c)
  BY <1>1, <1>8, <1>9, <1>10, CopyOfStored
<1>12. QED
  BY <1>0, <1>2, <1>9, <1>11, DocShow

\* What the handler of a save writes for what an editor sent.
LEMMA NormalizedIs ==
  ASSUME Documents!DocumentsAssumption, DocInv, NEW n \in Nat, edits <= n, NEW previous, NEW sent \in DocBody(n),
         previous # Documents!None => \E id \in Documents!Ids : previous = docs[id],
         NEW body \in Documents!Normalized(previous, sent)
  PROVE  /\ body \in DocBody(n) /\ body.edits = sent.edits /\ TrulyPriced(body.line, catalogue)
         /\ previous # Documents!None => body.source = previous.source
<1>1. PICK trusted : trusted = IF previous # Documents!None THEN previous ELSE Documents!SourceOf(sent)
  OBVIOUS
<1>2. PICK source : source = IF previous # Documents!None THEN previous.source ELSE sent.source
  OBVIOUS
<1>3. PICK line \in Documents!Priced(trusted.line, sent.line) :
        body = [sent EXCEPT !.line = line, !.source = source]
  BY <1>1, <1>2 DEF Documents!Normalized
<1>4. previous = Documents!None => Documents!SourceMatches(sent)
  BY DEF Documents!Normalized
<1>5. sent.source \in DocSources /\ sent.line \in Documents!Lines
  BY DEF DocBody
<1>6. /\ trusted = Documents!Blank \/ \E id \in Documents!Ids : Documents!Stored(id) /\ trusted = docs[id]
      /\ source \in DocSources
  <2>1. CASE previous # Documents!None
    <3>1. PICK id \in Documents!Ids : previous = docs[id] /\ Documents!Stored(id)
      BY <2>1 DEF Documents!Stored
    <3>2. QED
      BY <1>1, <1>2, <2>1, <3>1, KeptBody
  <2>2. CASE previous = Documents!None
    <3>1. CASE sent.source = Documents!NoSource
      BY <1>1, <1>2, <1>5, <2>2, <3>1 DEF Documents!SourceOf
    <3>2. CASE sent.source # Documents!NoSource
      <4>1. sent.source.id \in Documents!Ids
        BY <1>5, <3>2 DEF DocSources
      <4>2. Documents!Stored(sent.source.id)
        BY <1>4, <2>2, <3>2 DEF Documents!SourceMatches
      <4>3. trusted = docs[sent.source.id]
        BY <1>1, <2>2, <3>2 DEF Documents!SourceOf
      <4>4. QED
        BY <1>2, <1>5, <2>2, <4>1, <4>2, <4>3
    <3>3. QED
      BY <3>1, <3>2
  <2>3. QED
    BY <2>1, <2>2
<1>7. TrulyPriced(trusted.line, catalogue)
  <2>1. CASE trusted = Documents!Blank
    BY <2>1, BlankBody
  <2>2. ASSUME NEW id \in Documents!Ids, Documents!Stored(id), trusted = docs[id]
        PROVE  TrulyPriced(trusted.line, catalogue)
    BY <2>2, KeptBody
  <2>3. QED
    BY <1>6, <2>1, <2>2
<1>8. PICK base : base = trusted.line
  OBVIOUS
<1>9. line \in Documents!Lines /\ TrulyPriced(line, catalogue)
  BY <1>3, <1>5, <1>7, <1>8, PricedIsTrue DEF DocInv
<1>10. /\ body \in DocBody(n) /\ body.edits = sent.edits /\ body.line = line /\ body.source = source
  BY <1>3, <1>6, <1>9 DEF DocBody
<1>11. QED
  BY <1>2, <1>9, <1>10

\* A save is sent.
LEMMA DocSubmit ==
  ASSUME Documents!DocumentsAssumption, DocInv, NEW h \in Handlers, NEW e \in Editors, Documents!Submit(h, e)
  PROVE  DocInv'
<1>0. /\ edits < MaxEdits /\ edits' = edits + 1 /\ edits \in Nat /\ copies[e] # Documents!Idle
      /\ UNCHANGED <<catalogue, docs, links, minted, copies, templates, seeds>>
  BY DEF Documents!Submit, Documents!still, DocInv, DocTables
<1>1. PICK c : c = copies[e]
  OBVIOUS
<1>2. CopySound(c)
  BY <1>0, <1>1 DEF DocInv, CopiesHeld
<1>3. PICK line \in {c.body.line} \cup {l \in Documents!Lines : Documents!Catalogued(l) => l.version <= Len(catalogue)},
           failed \in BOOLEAN :
        /\ failed => docFaults < MaxFaults /\ c.id # 0
        /\ docFaults' = docFaults + (IF failed THEN 1 ELSE 0)
        /\ \E body \in Documents!Normalized(IF c.id = 0 \/ failed THEN Documents!None ELSE docs[c.id],
                         [c.body EXCEPT !.line = line, !.edits = @ \cup {edits + 1}]) :
             saves' = [saves EXCEPT ![h] =
               [id |-> c.id, revision |-> c.revision, body |-> body, blind |-> failed, editor |-> e]]
  BY <1>1 DEF Documents!Submit
<1>4. PICK previous : previous = IF c.id = 0 \/ failed THEN Documents!None ELSE docs[c.id]
  OBVIOUS
<1>5. PICK sent : sent = [c.body EXCEPT !.line = line, !.edits = @ \cup {edits + 1}]
  OBVIOUS
<1>6. PICK body \in Documents!Normalized(previous, sent) :
        saves' = [saves EXCEPT ![h] =
          [id |-> c.id, revision |-> c.revision, body |-> body, blind |-> failed, editor |-> e]]
  BY <1>3, <1>4, <1>5
<1>7. c.body \in DocBody(edits) /\ c.id \in Documents!Ids \cup {0} /\ c.revision \in Nat
      /\ c.revision <= Cardinality(c.body.edits)
  BY <1>2 DEF CopySound, Reads
<1>8. /\ sent \in DocBody(edits + 1) /\ sent.edits = c.body.edits \cup {edits + 1}
  <2>1. c.body.line \in Documents!Lines /\ c.body.edits \subseteq 1..edits
    BY <1>7 DEF DocBody
  <2>2. line \in Documents!Lines /\ c.body.edits \cup {edits + 1} \in SUBSET (1..(edits + 1))
    BY <1>0, <1>3, <2>1
  <2>3. QED
    BY <1>5, <1>7, <2>2 DEF DocBody
<1>9. Cardinality(sent.edits) = Cardinality(c.body.edits) + 1 /\ Cardinality(c.body.edits) \in Nat
  <2>1. c.body.edits \subseteq 1..edits /\ IsFiniteSet(1..edits) /\ edits + 1 \notin c.body.edits
    <3>1. c.body.edits \subseteq 1..edits
      BY <1>7 DEF DocBody
    <3>2. IsFiniteSet(1..edits)
      BY <1>0, FS_Interval
    <3>3. QED
      BY <1>0, <3>1, <3>2
  <2>2. IsFiniteSet(c.body.edits)
    BY <2>1, FS_Subset
  <2>3. QED
    BY <1>8, <2>1, <2>2, FS_AddElement, FS_CardinalityType
<1>10. previous # Documents!None => c.id \in Documents!Ids /\ previous = docs[c.id]
  BY <1>4, <1>7
<1>11. /\ body \in DocBody(edits + 1) /\ body.edits = sent.edits /\ TrulyPriced(body.line, catalogue)
       /\ previous # Documents!None => body.source = previous.source
  BY <1>0, <1>6, <1>8, <1>10, NormalizedIs
<1>12. PICK s : s = [id |-> c.id, revision |-> c.revision, body |-> body, blind |-> failed, editor |-> e]
  OBVIOUS
<1>13. s.id = c.id /\ s.revision = c.revision /\ s.body = body /\ s.blind = failed /\ s.editor = e
  BY <1>12
<1>14. DocsMove /\ docs' = [id \in Documents!Ids |-> docs'[id]]
  BY <1>0, DocsRest
<1>15. Reads(c)'
  BY <1>2, <1>14, CopyStays DEF DocInv, CopySound
<1>16. Reads(s)'
  BY <1>0, <1>8, <1>11, <1>13, <1>15 DEF Reads, Given
<1>17. KeepsSource(s)'
  <2>1. ASSUME ~failed, c.revision > 0, Documents!Stored(c.id)
        PROVE  body.source = docs[c.id].source
    <3>1. c.id # 0
      BY <1>2, <2>1, DocIds DEF CopySound, Reads
    <3>2. previous = docs[c.id] /\ previous # Documents!None
      BY <1>4, <2>1, <3>1 DEF Documents!Stored
    <3>3. QED
      BY <1>11, <3>2
  <2>2. QED
    BY <1>0, <1>13, <2>1 DEF KeepsSource, Documents!Stored
<1>18. SaveSound(s)'
  <2>1. s.revision + 1 <= Cardinality(s.body.edits)
    BY <1>7, <1>9, <1>11, <1>13
  <2>2. TrulyPriced(s.body.line, catalogue')
    BY <1>0, <1>11, <1>13
  <2>3. QED
    BY <1>12, <1>13, <1>16, <1>17, <2>1, <2>2 DEF SaveSound
<1>19. DocTables'
  BY <1>0, <1>3, DocIds DEF DocInv, DocTables
<1>20. /\ copies' = [f \in Editors |-> copies'[f]] /\ saves' = [g \in Handlers |-> saves'[g]]
       /\ \A g \in Handlers : saves'[g] = saves[g] \/ saves'[g] = s
  BY <1>0, <1>6, <1>12 DEF DocInv, CopiesHeld, SavesHeld
<1>21. QED
  BY <1>0, <1>14, <1>18, <1>19, <1>20, DocFrame

\* A save that is accepted makes a document under a new id, or replaces the revision it was made for.
LEMMA SaveAccepted ==
  ASSUME Documents!DocumentsAssumption, DocInv, NEW h \in Handlers, Documents!SaveDocument(h),
         NEW s, s = saves[h], Documents!RevisionMatches(s), Documents!OriginFree(s),
         NEW id, id = IF s.id = 0 THEN minted + 1 ELSE s.id,
         NEW new, new = [kind |-> s.body.kind, line |-> s.body.line, source |-> s.body.source,
                         edits |-> s.body.edits, total |-> Documents!Total(s.body.line),
                         revision |-> s.revision + 1]
  PROVE  /\ SaveSound(s) /\ id \in Documents!Ids
         /\ links' = Documents!Linked(id) /\ minted' = IF s.id = 0 THEN id ELSE minted
         /\ \/ ~Documents!Stored(id) /\ ~Given(id) /\ s.revision = 0
            \/ Documents!Stored(id) /\ s.id = id /\ s.revision > 0 /\ docs[id].revision = s.revision
         /\ docs' = [docs EXCEPT ![id] = new]
         /\ copies' = [copies EXCEPT ![s.editor] =
              [id |-> id, revision |-> s.revision + 1, body |-> Documents!Kept(new)]]
<1>1. SaveSound(s) /\ s # Documents!Idle
  BY DEF Documents!SaveDocument, DocInv, SavesHeld
<1>2. /\ s.id \in Documents!Ids \cup {0} /\ s.revision \in Nat /\ (s.revision = 0 => s.id \in Cards \cup {0})
      /\ s.revision > 0 => s.id \in Documents!Ids /\ Given(s.id)
  BY <1>1 DEF SaveSound, Reads
<1>3. minted \in 0..MaxMinted /\ links \subseteq Cards
  BY DEF DocInv, DocTables
<1>4. PICK doc : doc = [kind |-> s.body.kind, line |-> s.body.line, source |-> s.body.source,
                        edits |-> s.body.edits, total |-> Documents!Total(s.body.line),
                        revision |-> IF s.revision = 0 THEN 1 ELSE docs[s.id].revision + 1]
  OBVIOUS
<1>5. /\ id \in Documents!Ids /\ docs' = [docs EXCEPT ![id] = doc]
      /\ minted' = (IF s.id = 0 THEN id ELSE minted) /\ links' = Documents!Linked(id)
      /\ copies' = [copies EXCEPT ![s.editor] = [id |-> id, revision |-> doc.revision, body |-> Documents!Kept(doc)]]
  BY <1>4 DEF Documents!SaveDocument
<1>6. \A x \in Documents!Ids : Documents!Stored(x) => Given(x) /\ docs[x].revision \in Nat \ {0}
  BY DEF DocInv, DocsHeld, DocSound
<1>7. s.revision = 0 => doc.revision = s.revision + 1 /\ doc = new
  BY <1>4
<1>8. CASE s.id = 0
  <2>1. s.revision = 0 /\ id = minted + 1
    BY <1>2, <1>8, DocIds
  <2>2. id \in 1..MaxMinted /\ id \notin Cards
    <3>1. id \in 1..(MaxMinted + 1) /\ id \notin Cards
      BY <1>3, <2>1, DocIds
    <3>2. QED
      BY <1>5, <3>1 DEF Documents!Ids
  <2>3. ~Given(id)
    BY <1>3, <2>1, <2>2 DEF Given
  <2>4. QED
    BY <1>1, <1>5, <1>6, <1>7, <2>1, <2>3
<1>9. CASE s.id # 0 /\ s.revision = 0
  <2>1. id = s.id /\ id \in Cards /\ ~Documents!Stored(id) /\ id \notin links
    BY <1>2, <1>9 DEF Documents!RevisionMatches, Documents!OriginFree
  <2>2. id \notin 1..minted
    BY <1>3, <2>1, DocIds
  <2>3. QED
    BY <1>1, <1>5, <1>9, <1>7, <2>1, <2>2 DEF Given
<1>10. CASE s.id # 0 /\ s.revision # 0
  <2>1. id = s.id /\ docs[id].revision = s.revision /\ s.revision > 0
    BY <1>2, <1>10 DEF Documents!RevisionMatches
  <2>2. Documents!Stored(id)
    BY <2>1 DEF Documents!Stored, Documents!None
  <2>3. doc.revision = s.revision + 1 /\ doc = new
    BY <1>4, <2>1
  <2>4. QED
    BY <1>1, <1>4, <1>5, <2>1, <2>2, <2>3
<1>11. QED
  BY <1>8, <1>9, <1>10

\* A save is decided (SaveBusinessDocument).
LEMMA DocSave ==
  ASSUME Documents!DocumentsAssumption, DocInv, NEW h \in Handlers, Documents!SaveDocument(h)
  PROVE  DocInv'
<1>1. PICK s : s = saves[h]
  OBVIOUS
<1>2. /\ saves' = [saves EXCEPT ![h] = Documents!Idle]
      /\ UNCHANGED <<catalogue, edits, templates, seeds, docFaults>>
  BY DEF Documents!SaveDocument, Documents!still
<1>3. /\ saves' = [g \in Handlers |-> saves'[g]]
      /\ \A g \in Handlers : saves'[g] = saves[g] \/ saves'[g] = Documents!Idle
  BY <1>2 DEF DocInv, SavesHeld
<1>4. CASE ~(Documents!RevisionMatches(s) /\ Documents!OriginFree(s))
  <2>1. UNCHANGED <<docs, minted, links, copies>>
    BY <1>1, <1>4 DEF Documents!SaveDocument
  <2>2. DocsMove /\ docs' = [id \in Documents!Ids |-> docs'[id]]
    BY <1>2, <2>1, DocsRest DEF DocInv, DocTables
  <2>3. DocTables' /\ copies' = [e \in Editors |-> copies'[e]]
    BY <1>2, <2>1 DEF DocInv, DocTables, CopiesHeld
  <2>4. QED
    BY <1>2, <1>3, <2>1, <2>2, <2>3, DocFrame
<1>5. CASE Documents!RevisionMatches(s) /\ Documents!OriginFree(s)
  <2>1. PICK id : id = IF s.id = 0 THEN minted + 1 ELSE s.id
    OBVIOUS
  <2>2. PICK doc : doc = [kind |-> s.body.kind, line |-> s.body.line, source |-> s.body.source,
                           edits |-> s.body.edits, total |-> Documents!Total(s.body.line),
                           revision |-> s.revision + 1]
    OBVIOUS
  <2>3. /\ SaveSound(s) /\ id \in Documents!Ids
        /\ links' = Documents!Linked(id) /\ minted' = IF s.id = 0 THEN id ELSE minted
        /\ \/ ~Documents!Stored(id) /\ ~Given(id) /\ s.revision = 0
           \/ Documents!Stored(id) /\ s.id = id /\ s.revision > 0 /\ docs[id].revision = s.revision
        /\ docs' = [docs EXCEPT ![id] = doc]
        /\ copies' = [copies EXCEPT ![s.editor] =
             [id |-> id, revision |-> s.revision + 1, body |-> Documents!Kept(doc)]]
    BY <1>1, <1>5, <2>1, <2>2, SaveAccepted
  <2>4. minted \in 0..MaxMinted /\ links \subseteq Cards /\ edits \in Nat
    BY DEF DocInv, DocTables
  <2>5. s.id # 0 => s.id = id
    BY <2>1
  <2>6. /\ minted' \in 0..MaxMinted /\ minted <= minted' /\ links \subseteq links' /\ links' \subseteq Cards
        /\ Given(id)'
    <3>1. CASE s.id = 0
      <4>1. id = minted + 1 /\ id \in 1..MaxMinted
        <5>1. id \notin Cards
          BY <2>1, <2>4, <3>1, DocIds DEF Documents!DocumentsAssumption
        <5>2. QED
          BY <2>1, <2>3, <3>1, <5>1 DEF Documents!Ids
      <4>2. QED
        BY <2>3, <2>4, <3>1, <4>1 DEF Given, Documents!Linked
    <3>2. CASE s.id # 0
      <4>1. Given(id) \/ id \in Cards
        BY <2>3, <2>5, <3>2 DEF SaveSound, Reads
      <4>2. QED
        BY <2>3, <2>4, <3>2, <4>1 DEF Given, Documents!Linked
    <3>3. QED
      BY <3>1, <3>2
  <2>7. /\ s.body \in DocBody(edits) /\ s.revision \in Nat /\ s.revision + 1 <= Cardinality(s.body.edits)
        /\ TrulyPriced(s.body.line, catalogue) /\ s.editor \in Editors
    BY <2>3 DEF SaveSound, Reads
  <2>8. PICK body : body = Documents!Kept(doc)
    OBVIOUS
  <2>9. /\ doc.kind = s.body.kind /\ doc.line = s.body.line /\ doc.source = s.body.source /\ doc.edits = s.body.edits
        /\ doc.total = Documents!Total(doc.line) /\ doc.revision = s.revision + 1
        /\ doc = [kind |-> doc.kind, line |-> doc.line, source |-> doc.source, edits |-> doc.edits,
                  total |-> doc.total, revision |-> doc.revision]
    BY <2>2
  <2>10. body = s.body
    BY <2>7, <2>8, <2>9 DEF Documents!Kept, DocBody
  <2>11. docs' = [x \in Documents!Ids |-> docs'[x]] /\ docs'[id] = doc
         /\ \A x \in Documents!Ids : x # id => docs'[x] = docs[x]
    BY <2>3 DEF DocInv, DocsHeld
  <2>12. DocsMove
    <3>1. DocMoves(id)
      BY <2>3, <2>9, <2>11 DEF DocMoves
    <3>2. \A x \in Documents!Ids : DocMoves(x)
      BY <2>11, <3>1 DEF DocMoves
    <3>3. QED
      BY <1>2, <2>4, <2>6, <3>2, DocIds DEF DocsMove
  <2>13. DocSound(id)'
    <3>1. Documents!Kept(doc) \in DocBody(edits') /\ doc.revision \in Nat \ {0} /\ doc.revision <= Cardinality(doc.edits)
      BY <1>2, <2>7, <2>8, <2>9, <2>10
    <3>2. TrulyPriced(doc.line, catalogue')
      BY <1>2, <2>7, <2>9
    <3>3. QED
      BY <2>6, <2>9, <2>11, <3>1, <3>2 DEF DocSound, Documents!Kept, Documents!Total
  <2>14. PICK c : c = [id |-> id, revision |-> s.revision + 1, body |-> body]
    OBVIOUS
  <2>15. c.id = id /\ c.revision = s.revision + 1 /\ c.body = s.body
    BY <2>10, <2>14
  <2>16. CopySound(c)'
    <3>1. Reads(c)'
      BY <1>2, <2>3, <2>6, <2>7, <2>9, <2>11, <2>15 DEF Reads
    <3>2. QED
      BY <2>7, <2>14, <2>15, <3>1 DEF CopySound
  <2>17. /\ copies' = [e \in Editors |-> copies'[e]]
         /\ \A e \in Editors : copies'[e] = copies[e] \/ copies'[e] = c
    BY <2>3, <2>8, <2>14 DEF DocInv, CopiesHeld
  <2>18. DocTables'
    BY <1>2, <2>6 DEF DocInv, DocTables
  <2>19. \A x \in Documents!Ids : docs'[x] = docs[x] \/ DocSound(x)'
    BY <2>11, <2>13
  <2>20. QED
    BY <1>2, <1>3, <2>11, <2>12, <2>16, <2>17, <2>18, <2>19, DocFrame
<1>6. QED
  BY <1>4, <1>5

\* Documents are deleted.
LEMMA DocDelete ==
  ASSUME Documents!DocumentsAssumption, DocInv,
         Documents!DeleteDocuments \/ \E e \in Editors : Documents!DeleteDocumentRevision(e)
  PROVE  DocInv'
<1>1. /\ docs' = [id \in Documents!Ids |-> docs'[id]]
      /\ \A id \in Documents!Ids : docs'[id] = docs[id] \/ docs'[id] = Documents!None
      /\ UNCHANGED <<catalogue, links, minted, copies, saves, edits, templates, seeds, docFaults>>
  <2>1. CASE Documents!DeleteDocuments
    BY <2>1 DEF Documents!DeleteDocuments, Documents!still
  <2>2. ASSUME NEW e \in Editors, Documents!DeleteDocumentRevision(e)
        PROVE  /\ docs' = [id \in Documents!Ids |-> docs'[id]]
               /\ \A id \in Documents!Ids : docs'[id] = docs[id] \/ docs'[id] = Documents!None
               /\ UNCHANGED <<catalogue, links, minted, copies, saves, edits, templates, seeds, docFaults>>
    BY <2>2 DEF Documents!DeleteDocumentRevision, Documents!still, DocInv, DocsHeld
  <2>3. QED
    BY <2>1, <2>2
<1>2. DocsMove
  BY <1>1 DEF DocsMove, DocMoves, DocInv, DocTables
<1>3. DocTables' /\ copies' = [e \in Editors |-> copies'[e]] /\ saves' = [h \in Handlers |-> saves'[h]]
  BY <1>1 DEF DocInv, DocTables, CopiesHeld, SavesHeld
<1>4. QED
  BY <1>1, <1>2, <1>3, DocFrame

\* The built-in templates come and go.
LEMMA DocTemplates ==
  ASSUME Documents!DocumentsAssumption, DocInv,
         \/ Documents!EnsureDefaultDocumentTemplates \/ Documents!SaveDocumentTemplate
         \/ Documents!DeleteDocumentTemplate \/ UNCHANGED Documents!vars
  PROVE  DocInv'
<1>1. UNCHANGED <<catalogue, docs, links, minted, copies, saves, edits, docFaults>> /\ templates' \subseteq seeds'
  BY DEF Documents!EnsureDefaultDocumentTemplates, Documents!SaveDocumentTemplate, Documents!DeleteDocumentTemplate,
         Documents!vars, Documents!still, Documents!Seeded, DocInv, DocTables
<1>2. DocsMove /\ docs' = [id \in Documents!Ids |-> docs'[id]]
  BY <1>1, DocsRest DEF DocInv, DocTables
<1>3. DocTables' /\ copies' = [e \in Editors |-> copies'[e]] /\ saves' = [h \in Handlers |-> saves'[h]]
  BY <1>1 DEF DocInv, DocTables, CopiesHeld, SavesHeld
<1>4. QED
  BY <1>1, <1>2, <1>3, DocFrame

\* The documents' invariant is inductive.
LEMMA DocStep ==
  ASSUME Documents!DocumentsAssumption, DocInv, [Documents!Next]_(Documents!vars)
  PROVE  DocInv'
BY DocReprice, DocOpen, DocConvert, DocPropose, DocSubmit, DocSave, DocDelete, DocTemplates
DEF Documents!Next, Documents!DocumentNext, Documents!TemplateNext

\* The documents' invariant gives their type and their safety.
LEMMA DocSafe ==
  ASSUME Documents!DocumentsAssumption, DocInv
  PROVE  Documents!TypeOK /\ Documents!PricesHaveSource
<1>1. ASSUME NEW id \in Documents!Ids, Documents!Stored(id)
      PROVE  /\ docs[id].revision \in 1..MaxEdits /\ docs[id].kind \in {"quotation", "contract"}
             /\ docs[id].line \in Documents!Lines /\ docs[id].edits \subseteq 1..MaxEdits
             /\ id \in Cards => id \in links
  <2>1. /\ docs[id].line \in Documents!Lines /\ docs[id].edits \subseteq 1..edits
        /\ docs[id].revision \in Nat \ {0} /\ docs[id].revision <= Cardinality(docs[id].edits)
    BY <1>1, KeptBody
  <2>2. edits \in 0..MaxEdits /\ links \subseteq Cards /\ minted \in 0..MaxMinted
    BY DEF DocInv, DocTables
  <2>3. IsFiniteSet(1..edits) /\ Cardinality(1..edits) = edits
    BY <2>2, FS_Interval
  <2>4. Cardinality(docs[id].edits) <= edits /\ Cardinality(docs[id].edits) \in Nat
    BY <2>1, <2>3, FS_Subset, FS_CardinalityType
  <2>5. docs[id].kind \in {"quotation", "contract"}
    <3>1. Documents!Kept(docs[id]).kind = docs[id].kind
      BY DEF Documents!Kept
    <3>2. QED
      BY <1>1, <3>1, KeptBody DEF DocBody
  <2>6. id \in Cards => id \in links
    BY <1>1, <2>2, DocIds DEF DocInv, DocsHeld, DocSound, Given
  <2>7. QED
    BY <2>1, <2>2, <2>4, <2>5, <2>6, DocIds
<1>2. Documents!TypeOK
  BY <1>1 DEF Documents!TypeOK, DocInv, DocTables
<1>3. ASSUME NEW id \in Documents!Ids, Documents!Stored(id)
      PROVE  /\ Documents!Catalogued(docs[id].line) => docs[id].line.price = catalogue[docs[id].line.version]
             /\ docs[id].total = Documents!Total(docs[id].line)
  BY <1>3 DEF DocInv, DocsHeld, DocSound, TrulyPriced
<1>4. QED
  BY <1>2, <1>3 DEF Documents!PricesHaveSource

\* Which documents a step touches: the one a save is accepted for; others only go.
LEMMA DocTouched ==
  ASSUME DocInv, [Documents!Next]_(Documents!vars)
  PROVE  \/ \A id \in Documents!Ids : docs'[id] = docs[id] \/ docs'[id] = Documents!None
         \/ \E h \in Handlers : /\ Documents!SaveDocument(h)
                                /\ Documents!RevisionMatches(saves[h]) /\ Documents!OriginFree(saves[h])
<1>1. CASE Documents!DeleteDocuments
  BY <1>1 DEF Documents!DeleteDocuments
<1>2. ASSUME NEW e \in Editors, Documents!DeleteDocumentRevision(e)
      PROVE  \A id \in Documents!Ids : docs'[id] = docs[id] \/ docs'[id] = Documents!None
  BY <1>2 DEF Documents!DeleteDocumentRevision, DocInv, DocsHeld
<1>3. CASE UNCHANGED docs
  BY <1>3
<1>4. ASSUME NEW h \in Handlers, Documents!SaveDocument(h)
      PROVE  \/ UNCHANGED docs
             \/ Documents!RevisionMatches(saves[h]) /\ Documents!OriginFree(saves[h])
  BY <1>4 DEF Documents!SaveDocument
<1>5. ASSUME NEW e \in Editors, Documents!Open(e) \/ Documents!Convert(e) \/ Documents!Propose(e)
      PROVE  UNCHANGED docs
  BY <1>5 DEF Documents!Open, Documents!Convert, Documents!Propose
<1>6. ASSUME NEW e \in Editors, NEW h \in Handlers, Documents!Submit(h, e)
      PROVE  UNCHANGED docs
  BY <1>6 DEF Documents!Submit
<1>7. Documents!Reprice \/ Documents!EnsureDefaultDocumentTemplates \/ Documents!SaveDocumentTemplate
      \/ Documents!DeleteDocumentTemplate \/ UNCHANGED Documents!vars => UNCHANGED docs
  BY DEF Documents!Reprice, Documents!EnsureDefaultDocumentTemplates, Documents!SaveDocumentTemplate,
         Documents!DeleteDocumentTemplate, Documents!vars
<1>8. QED
  BY <1>1, <1>2, <1>3, <1>4, <1>5, <1>6, <1>7
  DEF Documents!Next, Documents!DocumentNext, Documents!TemplateNext

\* What an accepted save does to each document.
LEMMA SaveTouches ==
  ASSUME Documents!DocumentsAssumption, DocInv, NEW h \in Handlers, Documents!SaveDocument(h),
         Documents!RevisionMatches(saves[h]), Documents!OriginFree(saves[h]), NEW id \in Documents!Ids
  PROVE  \/ docs'[id] = docs[id]
         \/ ~Documents!Stored(id) /\ ~Given(id)
         \/ /\ Documents!Stored(id) /\ saves[h].id = id /\ saves[h] # Documents!Idle
            /\ docs[id].edits \subseteq docs'[id].edits
            /\ docs'[id].source = docs[id].source \/ saves[h].blind
<1>1. PICK s : s = saves[h] /\ Documents!RevisionMatches(s) /\ Documents!OriginFree(s)
  OBVIOUS
<1>2. PICK x : x = IF s.id = 0 THEN minted + 1 ELSE s.id
  OBVIOUS
<1>3. PICK new : new = [kind |-> s.body.kind, line |-> s.body.line, source |-> s.body.source,
                        edits |-> s.body.edits, total |-> Documents!Total(s.body.line),
                        revision |-> s.revision + 1]
  OBVIOUS
<1>4. /\ SaveSound(s) /\ x \in Documents!Ids
      /\ links' = Documents!Linked(x) /\ minted' = IF s.id = 0 THEN x ELSE minted
      /\ \/ ~Documents!Stored(x) /\ ~Given(x) /\ s.revision = 0
         \/ Documents!Stored(x) /\ s.id = x /\ s.revision > 0 /\ docs[x].revision = s.revision
      /\ docs' = [docs EXCEPT ![x] = new]
      /\ copies' = [copies EXCEPT ![s.editor] =
           [id |-> x, revision |-> s.revision + 1, body |-> Documents!Kept(new)]]
  BY <1>1, <1>2, <1>3, SaveAccepted
<1>5. CASE id # x
  BY <1>4, <1>5 DEF DocInv, DocsHeld
<1>6. CASE id = x /\ Documents!Stored(x) /\ s.id = x /\ s.revision > 0 /\ docs[x].revision = s.revision
  <2>1. docs'[id] = new /\ new.edits = s.body.edits /\ new.source = s.body.source
    BY <1>3, <1>4, <1>6 DEF DocInv, DocsHeld
  <2>2. docs[id].edits \subseteq s.body.edits /\ (~s.blind => s.body.source = docs[id].source)
    BY <1>4, <1>6 DEF SaveSound, Reads, KeepsSource
  <2>3. s.blind \in BOOLEAN /\ s # Documents!Idle
    BY <1>1, <1>4 DEF SaveSound, Documents!SaveDocument
  <2>4. QED
    BY <1>1, <1>6, <2>1, <2>2, <2>3
<1>7. QED
  BY <1>4, <1>5, <1>6

\* An accepted save discards nobody's edit.
LEMMA EditsKept ==
  ASSUME Documents!DocumentsAssumption, DocInv, [Documents!Next]_(Documents!vars)
  PROVE  Documents!NoLostEdit
<1> SUFFICES ASSUME NEW id \in Documents!Ids, Documents!Stored(id), Documents!Stored(id)'
             PROVE  /\ docs[id].edits \subseteq docs'[id].edits
                    /\ docs'[id].source = docs[id].source
                         \/ \E h \in Handlers : saves[h] # Documents!Idle /\ saves[h].id = id /\ saves[h].blind
  BY DEF Documents!NoLostEdit
<1>1. CASE \A x \in Documents!Ids : docs'[x] = docs[x] \/ docs'[x] = Documents!None
  BY <1>1 DEF Documents!Stored
<1>2. ASSUME NEW h \in Handlers, Documents!SaveDocument(h),
             Documents!RevisionMatches(saves[h]), Documents!OriginFree(saves[h])
      PROVE  /\ docs[id].edits \subseteq docs'[id].edits
             /\ docs'[id].source = docs[id].source
                  \/ (saves[h] # Documents!Idle /\ saves[h].id = id /\ saves[h].blind)
  BY <1>2, SaveTouches
<1>3. QED
  BY <1>1, <1>2, DocTouched

\* A deleted document, or template, stays deleted.
LEMMA DeletionsStay ==
  ASSUME Documents!DocumentsAssumption, DocInv, [Documents!Next]_(Documents!vars)
  PROVE  Documents!DeletedStaysDeleted
<1>1. ASSUME NEW id \in links, ~Documents!Stored(id)
      PROVE  ~Documents!Stored(id)'
  <2>1. id \in Documents!Ids /\ Given(id)
    BY DEF DocInv, DocTables, Documents!Ids, Given
  <2>2. docs[id] = Documents!None
    BY <1>1 DEF Documents!Stored
  <2>3. ASSUME NEW h \in Handlers, Documents!SaveDocument(h),
               Documents!RevisionMatches(saves[h]), Documents!OriginFree(saves[h])
        PROVE  docs'[id] = docs[id]
    BY <1>1, <2>1, <2>3, SaveTouches
  <2>4. docs'[id] = Documents!None
    BY <2>1, <2>2, <2>3, DocTouched
  <2>5. QED
    BY <2>4 DEF Documents!Stored
<1>2. ASSUME Documents!EnsureDefaultDocumentTemplates
      PROVE  templates' \cap seeds = templates \cap seeds
  BY <1>2 DEF Documents!EnsureDefaultDocumentTemplates, Documents!Seeded
<1>3. QED
  BY <1>1, <1>2 DEF Documents!DeletedStaysDeleted
-----------------------------------------------------------------------------
(* Cards and groups (Contacts) *)

\* What a request or a listing holds of a card.
Contact == [kind : {"person", "placeholder"}, book : Books, groups : SUBSET Groups, starred : BOOLEAN,
            text : 0..MaxRequests]

\* What a handler can be doing.
SavingCard == [op : {"save"}, pc : {"put"}, path : Nat, card : Contact]
DeletingCard == [op : {"delete"}, pc : {"find", "remove"}, path : Contacts!Ids]
MakingGroup == [op : {"create group"}, pc : {"list", "put"}, group : Groups]
ListingGroup == [op : {"regroup"}, pc : {"list"}, group : Groups, to : Groups \cup {Contacts!Drop}]
Importing == [op : {"import"}, pc : {"put"}, left : 1..2, card : Contact]

\* A walk rewrites cards that were listed.
Walking(r) ==
  /\ r = [op |-> "regroup", pc |-> "walk", group |-> r.group, to |-> r.to, listing |-> r.listing, left |-> r.left]
  /\ r.group \in Groups /\ r.to \in Groups \cup {Contacts!Drop}
  /\ r.left \subseteq DOMAIN r.listing /\ \A i \in DOMAIN r.listing : r.listing[i] \in Contact

\* The cards it touches were made.
Reaches(r, n) ==
  /\ r \in SavingCard => r.path \in 0..n
  /\ Walking(r) => DOMAIN r.listing \subseteq 1..n

CardRequest(r) ==
  \/ r = Contacts!Idle \/ r \in SavingCard \/ r \in DeletingCard \/ r \in MakingGroup
  \/ r \in ListingGroup \/ r \in Importing \/ Walking(r)

ContactsTables ==
  /\ cards \in [Contacts!Ids -> Contacts!Card \cup {Contacts!NoCard}]
  /\ made \in 0..MaxCards /\ cardsAsked \in 0..MaxRequests /\ cardFaults \in 0..MaxFaults
  /\ \A i \in Contacts!Ids : cards[i] # Contacts!NoCard => i <= made
ContactsHeld ==
  /\ cardRequests = [h \in Handlers |-> cardRequests[h]]
  /\ \A h \in Handlers : CardRequest(cardRequests[h]) /\ Reaches(cardRequests[h], made)
ContactsInv == ContactsTables /\ ContactsHeld

\* A handler goes on, and cards are only added to those that were made.
LEMMA ContactsHold ==
  ASSUME ContactsHeld, made \in Nat, made' \in Nat, made <= made', NEW h \in Handlers, NEW r, CardRequest(r),
         Reaches(r, made'), cardRequests' = [cardRequests EXCEPT ![h] = r]
  PROVE  ContactsHeld'
<1>1. cardRequests' = [g \in Handlers |-> cardRequests'[g]]
  BY DEF ContactsHeld
<1>2. ASSUME NEW g \in Handlers
      PROVE  CardRequest(cardRequests'[g]) /\ Reaches(cardRequests'[g], made')
  <2>1. PICK old : old = cardRequests[g]
    OBVIOUS
  <2>2. CardRequest(old) /\ Reaches(old, made)
    BY <2>1 DEF ContactsHeld
  <2>3. Reaches(old, made')
    <3>1. 0..made \subseteq 0..made' /\ 1..made \subseteq 1..made'
      OBVIOUS
    <3>2. QED
      BY <2>2, <3>1 DEF Reaches
  <2>4. cardRequests'[g] = r \/ cardRequests'[g] = old
    BY <2>1 DEF ContactsHeld
  <2>5. QED
    BY <2>2, <2>3, <2>4
<1>3. QED
  BY <1>1, <1>2 DEF ContactsHeld

\* The forms of a request are told apart by their operations.
LEMMA CardForms ==
  ASSUME NEW r, CardRequest(r)
  PROVE  /\ r.op = "save" => r \in SavingCard
         /\ r.op = "delete" => r \in DeletingCard
         /\ r.op = "create group" => r \in MakingGroup
         /\ r.op = "regroup" /\ r.pc = "list" => r \in ListingGroup
         /\ r.op = "regroup" /\ r.pc = "walk" => Walking(r)
         /\ r.op = "import" => r \in Importing
         /\ r.op \in {"idle", "save", "delete", "create group", "regroup", "import"}
<1>1. CASE r = Contacts!Idle
  BY <1>1 DEF Contacts!Idle
<1>2. CASE r \in SavingCard \/ r \in DeletingCard \/ r \in MakingGroup \/ r \in ListingGroup \/ r \in Importing
  BY <1>2 DEF SavingCard, DeletingCard, MakingGroup, ListingGroup, Importing
<1>3. CASE Walking(r)
  <2>1. r.op = "regroup" /\ r.pc = "walk"
    BY <1>3 DEF Walking
  <2>2. QED
    BY <1>3, <2>1
<1>4. QED
  BY <1>1, <1>2, <1>3 DEF CardRequest

\* Only a save names a path, and only a walk a listing.
LEMMA ReachesOthers ==
  ASSUME NEW r, NEW n, r = Contacts!Idle \/ r \in DeletingCard \/ r \in MakingGroup \/ r \in ListingGroup \/ r \in Importing
  PROVE  CardRequest(r) /\ Reaches(r, n)
<1>1. r.op # "save" /\ ~(r.op = "regroup" /\ r.pc = "walk")
  <2>1. CASE r = Contacts!Idle
    BY <2>1 DEF Contacts!Idle
  <2>2. CASE r \in DeletingCard \/ r \in MakingGroup
    BY <2>2 DEF DeletingCard, MakingGroup
  <2>3. CASE r \in ListingGroup \/ r \in Importing
    BY <2>3 DEF ListingGroup, Importing
  <2>4. QED
    BY <2>1, <2>2, <2>3
<1>3. r \notin SavingCard /\ ~Walking(r)
  <2>1. ASSUME Walking(r) PROVE r.op = "regroup" /\ r.pc = "walk"
    BY <2>1 DEF Walking
  <2>2. ASSUME r \in SavingCard PROVE r.op = "save"
    BY <2>2 DEF SavingCard
  <2>3. QED
    BY <1>1, <2>1, <2>2
<1>4. QED
  BY <1>3 DEF CardRequest, Reaches

\* The contacts begin with one card of another client.
LEMMA ContactsInit == Contacts!ContactsAssumption /\ Contacts!Init => ContactsInv
<1> SUFFICES ASSUME Contacts!ContactsAssumption, Contacts!Init
             PROVE  ContactsInv
  OBVIOUS
<1>1. PICK gs \in SUBSET Groups, b \in Books :
         cards = [i \in Contacts!Ids |-> IF i = 1 THEN [kind |-> "person", book |-> b, text |-> 0,
                    categories |-> gs \cup {Contacts!Star}, foreign |-> TRUE] ELSE Contacts!NoCard]
  BY DEF Contacts!Init
<1>2. made = 1 /\ cardsAsked = 0 /\ cardFaults = 0 /\ cardRequests = [h \in Handlers |-> Contacts!Idle]
  BY DEF Contacts!Init
<1>3. MaxCards \in Nat \ {0} /\ MaxRequests \in Nat /\ MaxFaults \in Nat
  BY DEF Contacts!ContactsAssumption
<1>4. PICK card : card = [kind |-> "person", book |-> b, text |-> 0, categories |-> gs \cup {Contacts!Star}, foreign |-> TRUE]
  OBVIOUS
<1>5. card \in Contacts!Card
  <2>1. gs \cup {Contacts!Star} \in SUBSET (Groups \cup {Contacts!Star}) /\ 0 \in 0..MaxRequests
    BY <1>3
  <2>2. QED
    BY <1>4, <2>1 DEF Contacts!Card
<1>6. cards = [i \in Contacts!Ids |-> IF i = 1 THEN card ELSE Contacts!NoCard]
  BY <1>1, <1>4
<1>7. ContactsTables
  BY <1>2, <1>3, <1>5, <1>6 DEF ContactsTables
<1>8. ContactsHeld
  BY <1>2, ReachesOthers DEF ContactsHeld
<1>9. QED
  BY <1>7, <1>8 DEF ContactsInv

\* What crosses the wire is a card there, and a contact here.
LEMMA Wire ==
  /\ \A contact \in Contact : Contacts!Encoded(contact) \in Contacts!Card
  /\ \A card \in Contacts!Card : Contacts!Decoded(card) \in Contact
<1>1. ASSUME NEW contact \in Contact
      PROVE  Contacts!Encoded(contact) \in Contacts!Card
  <2>1. contact.groups \cup (IF contact.starred THEN {Contacts!Star} ELSE {}) \in SUBSET (Groups \cup {Contacts!Star})
    BY DEF Contact
  <2>2. QED
    BY <2>1 DEF Contact, Contacts!Encoded, Contacts!Card
<1>2. ASSUME NEW card \in Contacts!Card
      PROVE  Contacts!Decoded(card) \in Contact
  <2>1. card.categories \ {Contacts!Star} \in SUBSET Groups
    BY DEF Contacts!Card
  <2>2. QED
    BY <2>1 DEF Contact, Contacts!Decoded, Contacts!Card
<1>3. QED
  BY <1>1, <1>2

\* The cards that are listed were made, and are decoded.
LEMMA ListedCards ==
  ASSUME ContactsInv, NEW down
  PROVE  /\ DOMAIN Contacts!Listed(down) \subseteq Contacts!Ids /\ DOMAIN Contacts!Listed(down) \subseteq 1..made
         /\ \A i \in DOMAIN Contacts!Listed(down) : Contacts!Listed(down)[i] \in Contact
<1>1. DOMAIN Contacts!Listed(down) = Contacts!Listing(down)
  BY DEF Contacts!Listed
<1>2. \A i \in Contacts!Listing(down) :
        i \in Contacts!Ids /\ i <= made /\ cards[i] \in Contacts!Card /\ Contacts!Listed(down)[i] = Contacts!Decoded(cards[i])
  BY DEF Contacts!Listing, Contacts!Listed, Contacts!Exists, ContactsInv, ContactsTables
<1>3. \A i \in Contacts!Listing(down) : Contacts!Listed(down)[i] \in Contact
  BY <1>2, Wire
<1>4. \A i \in Contacts!Listing(down) : i \in 1..made
  BY <1>2 DEF Contacts!Ids, ContactsInv, ContactsTables
<1>5. QED
  BY <1>1, <1>2, <1>3, <1>4

\* A request is taken.
LEMMA CardAsked ==
  ASSUME Contacts!ContactsAssumption, ContactsInv, NEW h \in Handlers, NEW r, CardRequest(r), Reaches(r, made), Contacts!Take(h, r)
  PROVE  ContactsInv'
<1>0. ContactsHeld /\ made \in Nat /\ made' = made /\ cardRequests' = [cardRequests EXCEPT ![h] = r]
  BY DEF Contacts!Take, ContactsInv, ContactsTables
<1>1. ContactsHeld'
  <2>1. made' \in Nat /\ made <= made' /\ Reaches(r, made')
    BY <1>0
  <2>2. QED
    BY <1>0, <2>1, ContactsHold
<1>2. ContactsTables'
  BY DEF Contacts!Take, ContactsInv, ContactsTables, Contacts!ContactsAssumption
<1>3. QED
  BY <1>1, <1>2 DEF ContactsInv

\* A new card carries the number of its request.
LEMMA NewCards ==
  ASSUME Contacts!ContactsAssumption, ContactsInv, cardsAsked < MaxRequests, NEW gs \in SUBSET Groups, NEW starred \in BOOLEAN
  PROVE  Contacts!NewCard(gs, starred) \in Contact
<1>1. cardsAsked + 1 \in 0..MaxRequests /\ First \in Books
  BY DEF ContactsInv, ContactsTables, Contacts!ContactsAssumption
<1>2. QED
  BY <1>1 DEF Contact, Contacts!NewCard

CardAsks(h) ==
  \/ Contacts!AskCreate(h) \/ Contacts!AskUpdate(h) \/ Contacts!AskDelete(h)
  \/ Contacts!AskCreateGroup(h) \/ Contacts!AskRegroup(h) \/ Contacts!AskImport(h)

\* Every request begins in its form.
LEMMA CardAsksStep ==
  ASSUME Contacts!ContactsAssumption, ContactsInv, NEW h \in Handlers, CardAsks(h)
  PROVE  ContactsInv'
<1>1. ASSUME NEW path \in 0..made, NEW card \in Contact,
             Contacts!Take(h, [op |-> "save", pc |-> "put", path |-> path, card |-> card])
      PROVE  ContactsInv'
  <2>1. PICK r : r = [op |-> "save", pc |-> "put", path |-> path, card |-> card]
    OBVIOUS
  <2>2. made \in Nat
    BY DEF ContactsInv, ContactsTables
  <2>3. r \in SavingCard /\ r.path = path /\ r.op = "save"
    BY <2>1, <2>2 DEF SavingCard
  <2>4. ~Walking(r)
    BY <2>3 DEF Walking
  <2>5. CardRequest(r) /\ Reaches(r, made)
    BY <2>3, <2>4 DEF CardRequest, Reaches
  <2>6. QED
    BY <1>1, <2>1, <2>5, CardAsked
<1>2. CASE Contacts!AskCreate(h)
  <2>1. PICK gs \in SUBSET Groups, starred \in BOOLEAN :
          Contacts!Take(h, [op |-> "save", pc |-> "put", path |-> 0, card |-> Contacts!NewCard(gs, starred)])
    BY <1>2 DEF Contacts!AskCreate
  <2>2. PICK card : card = Contacts!NewCard(gs, starred)
    OBVIOUS
  <2>3. card \in Contact
    BY <2>1, <2>2, NewCards DEF Contacts!Take
  <2>4. 0 \in 0..made
    BY DEF ContactsInv, ContactsTables
  <2>5. QED
    BY <1>1, <2>1, <2>2, <2>3, <2>4
<1>3. CASE Contacts!AskUpdate(h)
  <2>1. PICK i \in Contacts!People(Contacts!Listed({})), gs \in SUBSET Groups :
          Contacts!Take(h, [op |-> "save", pc |-> "put", path |-> i,
             card |-> [Contacts!Decoded(cards[i]) EXCEPT !.groups = gs, !.text = cardsAsked + 1]])
    BY <1>3 DEF Contacts!AskUpdate
  <2>2. i \in 0..made /\ Contacts!Decoded(cards[i]) \in Contact
    <3>1. i \in DOMAIN Contacts!Listed({})
      BY DEF Contacts!People
    <3>2. i \in 1..made /\ Contacts!Listed({})[i] \in Contact
      BY <3>1, ListedCards
    <3>3. Contacts!Listed({})[i] = Contacts!Decoded(cards[i])
      BY <3>1 DEF Contacts!Listed
    <3>4. QED
      BY <3>2, <3>3
  <2>3. PICK seen : seen = Contacts!Decoded(cards[i])
    OBVIOUS
  <2>4. PICK card : card = [seen EXCEPT !.groups = gs, !.text = cardsAsked + 1]
    OBVIOUS
  <2>5. cardsAsked + 1 \in 0..MaxRequests
    BY <2>1 DEF Contacts!Take, ContactsInv, ContactsTables, Contacts!ContactsAssumption
  <2>6. card \in Contact
    BY <2>2, <2>3, <2>4, <2>5 DEF Contact
  <2>7. QED
    BY <1>1, <2>1, <2>2, <2>3, <2>4, <2>6
<1>4. CASE Contacts!AskDelete(h)
  <2>1. PICK i \in Contacts!People(Contacts!Listed({})), pc \in {"find", "remove"} :
          Contacts!Take(h, [op |-> "delete", pc |-> pc, path |-> i])
    BY <1>4 DEF Contacts!AskDelete
  <2>2. i \in Contacts!Ids
    BY ListedCards DEF Contacts!People
  <2>3. PICK r : r = [op |-> "delete", pc |-> pc, path |-> i]
    OBVIOUS
  <2>4. r \in DeletingCard
    BY <2>2, <2>3 DEF DeletingCard
  <2>5. QED
    BY <2>1, <2>3, <2>4, ReachesOthers, CardAsked
<1>5. CASE Contacts!AskCreateGroup(h)
  <2>1. PICK g \in Groups : Contacts!Take(h, [op |-> "create group", pc |-> "list", group |-> g])
    BY <1>5 DEF Contacts!AskCreateGroup
  <2>2. PICK r : r = [op |-> "create group", pc |-> "list", group |-> g]
    OBVIOUS
  <2>3. r \in MakingGroup
    BY <2>2 DEF MakingGroup
  <2>4. QED
    BY <2>1, <2>2, <2>3, ReachesOthers, CardAsked
<1>6. CASE Contacts!AskRegroup(h)
  <2>1. PICK g \in Groups, new \in Groups \cup {Contacts!Drop} :
          Contacts!Take(h, [op |-> "regroup", pc |-> "list", group |-> g, to |-> new])
    BY <1>6 DEF Contacts!AskRegroup
  <2>2. PICK r : r = [op |-> "regroup", pc |-> "list", group |-> g, to |-> new]
    OBVIOUS
  <2>3. r \in ListingGroup
    BY <2>2 DEF ListingGroup
  <2>4. QED
    BY <2>1, <2>2, <2>3, ReachesOthers, CardAsked
<1>7. CASE Contacts!AskImport(h)
  <2>1. PICK n \in 1..2, gs \in SUBSET Groups :
          Contacts!Take(h, [op |-> "import", pc |-> "put", left |-> n, card |-> Contacts!NewCard(gs, FALSE)])
    BY <1>7 DEF Contacts!AskImport
  <2>2. PICK card : card = Contacts!NewCard(gs, FALSE)
    OBVIOUS
  <2>3. card \in Contact
    BY <2>1, <2>2, NewCards DEF Contacts!Take
  <2>4. PICK r : r = [op |-> "import", pc |-> "put", left |-> n, card |-> card]
    OBVIOUS
  <2>5. r \in Importing
    BY <2>3, <2>4 DEF Importing
  <2>6. QED
    BY <2>1, <2>2, <2>4, <2>5, ReachesOthers, CardAsked
<1>8. QED
  BY <1>2, <1>3, <1>4, <1>5, <1>6, <1>7 DEF CardAsks

\* One card is written at a path that is made, or is removed, and the request goes on or ends.
LEMMA CardWritten ==
  ASSUME Contacts!ContactsAssumption, ContactsInv, NEW h \in Handlers, NEW i \in Contacts!Ids,
         NEW card \in Contacts!Card \cup {Contacts!NoCard}, NEW r, CardRequest(r), Reaches(r, made'),
         cards' = [cards EXCEPT ![i] = card], cardRequests' = [cardRequests EXCEPT ![h] = r],
         made' \in 0..MaxCards, made <= made', card # Contacts!NoCard => i <= made',
         cardFaults' \in 0..MaxFaults, cardsAsked' = cardsAsked
  PROVE  ContactsInv'
<1>1. made \in Nat /\ made' \in Nat
  BY DEF ContactsInv, ContactsTables
<1>2. ContactsHeld'
  BY <1>1, ContactsHold DEF ContactsInv
<1>3. \A j \in Contacts!Ids : cards'[j] # Contacts!NoCard => j <= made'
  BY <1>1 DEF ContactsInv, ContactsTables, Contacts!Ids
<1>4. cards' \in [Contacts!Ids -> Contacts!Card \cup {Contacts!NoCard}]
  BY DEF ContactsInv, ContactsTables
<1>5. QED
  BY <1>2, <1>3, <1>4 DEF ContactsInv, ContactsTables

\* No card is touched.
LEMMA CardsRest ==
  ASSUME Contacts!ContactsAssumption, ContactsInv, NEW h \in Handlers, NEW r, CardRequest(r), Reaches(r, made),
         cardRequests' = [cardRequests EXCEPT ![h] = r],
         cardFaults' \in 0..MaxFaults, UNCHANGED <<cards, made, cardsAsked>>
  PROVE  ContactsInv'
<1>0. ContactsHeld /\ made \in Nat /\ made' = made
  BY DEF ContactsInv, ContactsTables
<1>1. ContactsHeld'
  <2>1. made' \in Nat /\ made <= made' /\ Reaches(r, made')
    BY <1>0
  <2>2. QED
    BY <1>0, <2>1, ContactsHold
<1>2. QED
  BY <1>1 DEF ContactsInv, ContactsTables

\* The faults that listings meet stay within their bound.
LEMMA OutageIs ==
  ASSUME Contacts!ContactsAssumption, ContactsInv, NEW down \in Contacts!Outage
  PROVE  cardFaults + Contacts!Cardinality(down) \in 0..MaxFaults
<1>1. Contacts!Cardinality(down) = Cardinality(down) /\ (Contacts!IsFiniteSet(Books) <=> IsFiniteSet(Books))
  BY DEF Cardinality, IsFiniteSet, Contacts!Cardinality, Contacts!IsFiniteSet
<1>2. IsFiniteSet(Books) /\ down \in SUBSET Books
  BY <1>1 DEF Contacts!ContactsAssumption, Contacts!Outage
<1>3. Cardinality(down) \in Nat
  BY <1>2, FS_Subset, FS_CardinalityType
<1>4. cardFaults + Contacts!Cardinality(down) <= MaxFaults
  BY DEF Contacts!Outage
<1>5. QED
  BY <1>1, <1>3, <1>4 DEF ContactsInv, ContactsTables, Contacts!ContactsAssumption

\* A request that goes on or ends keeps to what it holds.
LEMMA CardEnds ==
  ASSUME Contacts!ContactsAssumption, ContactsInv, NEW h \in Handlers, NEW r,
         r = Contacts!Idle \/ r \in DeletingCard \/ r \in MakingGroup,
         cardRequests' = [cardRequests EXCEPT ![h] = r],
         cardFaults' \in 0..MaxFaults, UNCHANGED <<cards, made, cardsAsked>>
  PROVE  ContactsInv'
<1>1. CardRequest(r) /\ Reaches(r, made)
  BY ReachesOthers
<1>2. QED
  BY <1>1, CardsRest

\* A new card is written at a path of its own.
LEMMA CardMade ==
  ASSUME Contacts!ContactsAssumption, ContactsInv, NEW h \in Handlers, NEW card \in Contacts!Card,
         NEW r, r = Contacts!Idle \/ r \in Importing,
         made < MaxCards, made' = made + 1, cards' = [cards EXCEPT ![made + 1] = card],
         cardRequests' = [cardRequests EXCEPT ![h] = r],
         cardFaults' \in 0..MaxFaults, cardsAsked' = cardsAsked
  PROVE  ContactsInv'
<1>1. made \in 0..MaxCards /\ MaxCards \in Nat
  BY DEF ContactsInv, ContactsTables, Contacts!ContactsAssumption
<1>2. made + 1 \in Contacts!Ids /\ made' \in 0..MaxCards /\ made <= made' /\ made + 1 <= made'
  BY <1>1 DEF Contacts!Ids
<1>3. CardRequest(r) /\ Reaches(r, made')
  BY ReachesOthers
<1>4. PICK i \in Contacts!Ids : i = made + 1
  BY <1>2
<1>5. QED
  BY <1>2, <1>3, <1>4, CardWritten

\* The PUT of a card.
LEMMA CardSavePut ==
  ASSUME Contacts!ContactsAssumption, ContactsInv, NEW h \in Handlers, Contacts!SavePut(h)
  PROVE  ContactsInv'
<1>1. PICK r : r = cardRequests[h]
  OBVIOUS
<1>2. CardRequest(r) /\ Reaches(r, made) /\ r.op = "save"
  BY <1>1 DEF Contacts!SavePut, ContactsInv, ContactsHeld
<1>3. r \in SavingCard
  BY <1>2, CardForms
<1>4. r.path \in 0..made /\ r.card \in Contact
  BY <1>2, <1>3 DEF Reaches, SavingCard
<1>5. PICK card : card = Contacts!Encoded(r.card)
  OBVIOUS
<1>6. card \in Contacts!Card
  BY <1>4, <1>5, Wire
<1>7. cardFaults' \in 0..MaxFaults /\ cardsAsked' = cardsAsked
  BY DEF Contacts!SavePut, ContactsInv, ContactsTables
<1>8. cardRequests' = [cardRequests EXCEPT ![h] = Contacts!Idle]
  BY DEF Contacts!SavePut, Contacts!End
<1>9. CASE r.path = 0
  <2>1. made < MaxCards /\ made' = made + 1 /\ cards' = [cards EXCEPT ![made + 1] = card]
    BY <1>1, <1>5, <1>9 DEF Contacts!SavePut, Contacts!PutNew
  <2>2. PICK idle : idle = Contacts!Idle
    OBVIOUS
  <2>3. QED
    BY <1>6, <1>7, <1>8, <2>1, <2>2, CardMade
<1>10. CASE r.path # 0
  <2>1. cards' = [cards EXCEPT ![r.path] = card] /\ made' = made
    BY <1>1, <1>5, <1>10 DEF Contacts!SavePut
  <2>2. made \in 0..MaxCards /\ MaxCards \in Nat
    BY DEF ContactsInv, ContactsTables, Contacts!ContactsAssumption
  <2>3. r.path \in Contacts!Ids /\ r.path <= made' /\ made' \in 0..MaxCards /\ made <= made'
    BY <1>4, <1>10, <2>1, <2>2 DEF Contacts!Ids
  <2>4. PICK i \in Contacts!Ids : i = r.path
    BY <2>3
  <2>5. PICK idle : idle = Contacts!Idle
    OBVIOUS
  <2>6. CardRequest(idle) /\ Reaches(idle, made')
    BY <2>5, ReachesOthers
  <2>7. i <= made' /\ cards' = [cards EXCEPT ![i] = card] /\ cardRequests' = [cardRequests EXCEPT ![h] = idle]
    BY <1>8, <2>1, <2>3, <2>4, <2>5
  <2>8. QED
    BY <1>6, <1>7, <2>3, <2>6, <2>7, CardWritten
<1>11. QED
  BY <1>9, <1>10

\* The search for the card of a deletion.
LEMMA CardDeleteFind ==
  ASSUME Contacts!ContactsAssumption, ContactsInv, NEW h \in Handlers, Contacts!DeleteFind(h)
  PROVE  ContactsInv'
<1>1. PICK r : r = cardRequests[h]
  OBVIOUS
<1>2. CardRequest(r) /\ r.op = "delete"
  BY <1>1 DEF Contacts!DeleteFind, ContactsInv, ContactsHeld
<1>3. r \in DeletingCard
  BY <1>2, CardForms
<1>4. PICK next : next = [r EXCEPT !.pc = "remove"]
  OBVIOUS
<1>5. next \in DeletingCard
  BY <1>3, <1>4 DEF DeletingCard
<1>6. PICK down \in Contacts!Outage : cardFaults' = cardFaults + Contacts!Cardinality(down)
  BY DEF Contacts!DeleteFind
<1>7. cardFaults' \in 0..MaxFaults
  BY <1>6, OutageIs
<1>8. UNCHANGED <<cards, made, cardsAsked>>
  BY DEF Contacts!DeleteFind
<1>9. cardRequests' = [cardRequests EXCEPT ![h] = next] \/ cardRequests' = [cardRequests EXCEPT ![h] = Contacts!Idle]
  <2>1. cardRequests' = [cardRequests EXCEPT ![h].pc = "remove"] \/ cardRequests' = [cardRequests EXCEPT ![h] = Contacts!Idle]
    BY DEF Contacts!DeleteFind, Contacts!End
  <2>2. QED
    BY <1>1, <1>4, <2>1
<1>10. QED
  BY <1>5, <1>7, <1>8, <1>9, CardEnds

\* The DELETE of a card.
LEMMA CardDeleteRemove ==
  ASSUME Contacts!ContactsAssumption, ContactsInv, NEW h \in Handlers, Contacts!DeleteRemove(h)
  PROVE  ContactsInv'
<1>1. PICK r : r = cardRequests[h]
  OBVIOUS
<1>2. CardRequest(r) /\ r.op = "delete"
  BY <1>1 DEF Contacts!DeleteRemove, ContactsInv, ContactsHeld
<1>3. r.path \in Contacts!Ids
  BY <1>2, CardForms DEF DeletingCard
<1>4. PICK i \in Contacts!Ids : i = r.path
  BY <1>3
<1>5. cards' = [cards EXCEPT ![i] = Contacts!NoCard] /\ made' = made /\ cardsAsked' = cardsAsked
  BY <1>1, <1>4 DEF Contacts!DeleteRemove
<1>6. cardFaults' \in 0..MaxFaults /\ made' \in 0..MaxCards /\ made <= made'
  BY <1>5 DEF Contacts!DeleteRemove, ContactsInv, ContactsTables
<1>7. PICK idle : idle = Contacts!Idle
  OBVIOUS
<1>8. CardRequest(idle) /\ Reaches(idle, made') /\ cardRequests' = [cardRequests EXCEPT ![h] = idle]
  BY <1>7, ReachesOthers DEF Contacts!DeleteRemove, Contacts!End
<1>9. PICK none : none = Contacts!NoCard
  OBVIOUS
<1>10. none \in Contacts!Card \cup {Contacts!NoCard} /\ cards' = [cards EXCEPT ![i] = none] /\ (none # Contacts!NoCard => i <= made')
  BY <1>5, <1>9
<1>11. QED
  BY <1>5, <1>6, <1>8, <1>10, CardWritten

\* What an import does at a row: it goes on, and the row is a new card or is skipped.
LEMMA ImportMoves ==
  ASSUME Contacts!ContactsAssumption, ContactsInv, NEW h \in Handlers, Contacts!ImportPut(h),
         NEW r, r = cardRequests[h], NEW next, next = IF r.left = 1 THEN Contacts!Idle ELSE [r EXCEPT !.left = @ - 1]
  PROVE  /\ next = Contacts!Idle \/ next \in Importing
         /\ r \in Importing
         /\ cardRequests' = [cardRequests EXCEPT ![h] = next]
         /\ cardsAsked' = cardsAsked
         /\ \/ /\ made < MaxCards /\ made' = made + 1
               /\ cards' = [cards EXCEPT ![made + 1] = Contacts!Encoded(r.card)]
               /\ cardFaults' = cardFaults
            \/ cardFaults < MaxFaults /\ cardFaults' = cardFaults + 1 /\ UNCHANGED <<cards, made>>
<1>1. CardRequest(r) /\ r.op = "import"
  BY DEF Contacts!ImportPut, ContactsInv, ContactsHeld
<1>2. r \in Importing
  BY <1>1, CardForms
<1>3. next = Contacts!Idle \/ next \in Importing
  BY <1>2 DEF Importing
<1>4. cardRequests' = [cardRequests EXCEPT ![h] = next] /\ cardsAsked' = cardsAsked
  BY DEF Contacts!ImportPut
<1>5. \/ /\ made < MaxCards /\ made' = made + 1
         /\ cards' = [cards EXCEPT ![made + 1] = Contacts!Encoded(r.card)]
         /\ cardFaults' = cardFaults
      \/ cardFaults < MaxFaults /\ cardFaults' = cardFaults + 1 /\ UNCHANGED <<cards, made>>
  BY DEF Contacts!ImportPut, Contacts!ImportPath
<1>6. QED
  BY <1>2, <1>3, <1>4, <1>5

\* One row of an import.
LEMMA CardImportPut ==
  ASSUME Contacts!ContactsAssumption, ContactsInv, NEW h \in Handlers, Contacts!ImportPut(h)
  PROVE  ContactsInv'
<1>1. PICK r : r = cardRequests[h]
  OBVIOUS
<1>2. PICK next : next = IF r.left = 1 THEN Contacts!Idle ELSE [r EXCEPT !.left = @ - 1]
  OBVIOUS
<1>3. /\ next = Contacts!Idle \/ next \in Importing
      /\ r \in Importing
      /\ cardRequests' = [cardRequests EXCEPT ![h] = next]
      /\ cardsAsked' = cardsAsked
      /\ \/ /\ made < MaxCards /\ made' = made + 1
            /\ cards' = [cards EXCEPT ![made + 1] = Contacts!Encoded(r.card)]
            /\ cardFaults' = cardFaults
         \/ cardFaults < MaxFaults /\ cardFaults' = cardFaults + 1 /\ UNCHANGED <<cards, made>>
  BY <1>1, <1>2, ImportMoves
<1>4. cardFaults' \in 0..MaxFaults
  BY <1>3 DEF ContactsInv, ContactsTables, Contacts!ContactsAssumption
<1>5. CASE UNCHANGED <<cards, made>>
  <2>1. CardRequest(next) /\ Reaches(next, made)
    BY <1>3, ReachesOthers
  <2>2. QED
    BY <1>3, <1>4, <1>5, <2>1, CardsRest
<1>6. CASE made < MaxCards /\ made' = made + 1 /\ cards' = [cards EXCEPT ![made + 1] = Contacts!Encoded(r.card)]
  <2>1. PICK card : card = Contacts!Encoded(r.card)
    OBVIOUS
  <2>2. card \in Contacts!Card
    BY <1>3, <2>1, Wire DEF Importing
  <2>3. QED
    BY <1>3, <1>4, <1>6, <2>1, <2>2, CardMade
<1>7. QED
  BY <1>3, <1>5, <1>6

\* The listing before a group is made.
LEMMA CardGroupList ==
  ASSUME Contacts!ContactsAssumption, ContactsInv, NEW h \in Handlers, Contacts!GroupList(h)
  PROVE  ContactsInv'
<1>1. PICK r : r = cardRequests[h]
  OBVIOUS
<1>2. CardRequest(r) /\ r.op = "create group"
  BY <1>1 DEF Contacts!GroupList, ContactsInv, ContactsHeld
<1>3. r \in MakingGroup
  BY <1>2, CardForms
<1>4. PICK next : next = [r EXCEPT !.pc = "put"]
  OBVIOUS
<1>5. next \in MakingGroup
  BY <1>3, <1>4 DEF MakingGroup
<1>6. PICK down \in Contacts!Outage : cardFaults' = cardFaults + Contacts!Cardinality(down)
  BY DEF Contacts!GroupList
<1>7. cardFaults' \in 0..MaxFaults
  BY <1>6, OutageIs
<1>8. UNCHANGED <<cards, made, cardsAsked>>
  BY DEF Contacts!GroupList
<1>9. cardRequests' = [cardRequests EXCEPT ![h] = next] \/ cardRequests' = [cardRequests EXCEPT ![h] = Contacts!Idle]
  <2>1. cardRequests' = [cardRequests EXCEPT ![h].pc = "put"] \/ cardRequests' = [cardRequests EXCEPT ![h] = Contacts!Idle]
    BY DEF Contacts!GroupList, Contacts!End
  <2>2. QED
    BY <1>1, <1>4, <2>1
<1>10. QED
  BY <1>5, <1>7, <1>8, <1>9, CardEnds

\* The placeholder of a new group.
LEMMA CardGroupPut ==
  ASSUME Contacts!ContactsAssumption, ContactsInv, NEW h \in Handlers, Contacts!GroupPut(h)
  PROVE  ContactsInv'
<1>1. PICK r : r = cardRequests[h]
  OBVIOUS
<1>2. CardRequest(r) /\ r.op = "create group"
  BY <1>1 DEF Contacts!GroupPut, ContactsInv, ContactsHeld
<1>3. r.group \in Groups
  BY <1>2, CardForms DEF MakingGroup
<1>4. Contacts!Placeholder(r.group) \in Contact
  <2>1. First \in Books /\ 0 \in 0..MaxRequests
    BY DEF Contacts!ContactsAssumption
  <2>2. QED
    BY <1>3, <2>1 DEF Contact, Contacts!Placeholder
<1>5. PICK card : card = Contacts!Encoded(Contacts!Placeholder(r.group))
  OBVIOUS
<1>6. card \in Contacts!Card
  BY <1>4, <1>5, Wire
<1>7. made < MaxCards /\ made' = made + 1 /\ cards' = [cards EXCEPT ![made + 1] = card]
  BY <1>1, <1>5 DEF Contacts!GroupPut, Contacts!PutNew
<1>8. cardFaults' \in 0..MaxFaults /\ cardsAsked' = cardsAsked
  BY DEF Contacts!GroupPut, ContactsInv, ContactsTables
<1>9. PICK idle : idle = Contacts!Idle
  OBVIOUS
<1>10. cardRequests' = [cardRequests EXCEPT ![h] = idle]
  BY <1>9 DEF Contacts!GroupPut, Contacts!End
<1>11. QED
  BY <1>6, <1>7, <1>8, <1>9, <1>10, CardMade

\* A walk is told by its fields, and what it rewrites was made.
LEMMA WalkIs ==
  ASSUME NEW g \in Groups, NEW to \in Groups \cup {Contacts!Drop}, NEW listing, NEW left, NEW n \in Nat,
         left \subseteq DOMAIN listing, \A i \in DOMAIN listing : listing[i] \in Contact,
         DOMAIN listing \subseteq 1..n,
         NEW r, r = [op |-> "regroup", pc |-> "walk", group |-> g, to |-> to, listing |-> listing, left |-> left]
  PROVE  CardRequest(r) /\ Reaches(r, n)
<1>1. r.op = "regroup" /\ r.group = g /\ r.to = to /\ r.listing = listing /\ r.left = left
  OBVIOUS
<1>2. Walking(r)
  BY <1>1 DEF Walking
<1>3. r \notin SavingCard
  <2>1. ASSUME r \in SavingCard PROVE r.op = "save"
    BY <2>1 DEF SavingCard
  <2>2. QED
    BY <1>1, <2>1
<1>4. DOMAIN r.listing \subseteq 1..n
  BY <1>1
<1>5. QED
  BY <1>2, <1>3, <1>4 DEF CardRequest, Reaches

\* The listing before a group is rewritten.
LEMMA CardRegroupList ==
  ASSUME Contacts!ContactsAssumption, ContactsInv, NEW h \in Handlers, Contacts!RegroupList(h)
  PROVE  ContactsInv'
<1>1. PICK r : r = cardRequests[h]
  OBVIOUS
<1>2. CardRequest(r) /\ r.op = "regroup" /\ r.pc = "list"
  BY <1>1 DEF Contacts!RegroupList, ContactsInv, ContactsHeld
<1>3. r.group \in Groups /\ r.to \in Groups \cup {Contacts!Drop}
  BY <1>2, CardForms DEF ListingGroup
<1>4. PICK down \in Contacts!Outage :
        /\ cardFaults' = cardFaults + Contacts!Cardinality(down)
        /\ IF Contacts!Members(Contacts!Listed(down), cardRequests[h].group) = {} THEN Contacts!End(h)
           ELSE cardRequests' = [cardRequests EXCEPT ![h] =
                  [op |-> "regroup", pc |-> "walk", group |-> cardRequests[h].group,
                   to |-> cardRequests[h].to, listing |-> Contacts!Listed(down),
                   left |-> Contacts!Members(Contacts!Listed(down), cardRequests[h].group)]]
  BY DEF Contacts!RegroupList
<1>5. cardFaults' \in 0..MaxFaults
  BY <1>4, OutageIs
<1>6. UNCHANGED <<cards, made, cardsAsked>>
  BY DEF Contacts!RegroupList
<1>7. CASE cardRequests' = [cardRequests EXCEPT ![h] = Contacts!Idle]
  BY <1>5, <1>6, <1>7, CardEnds
<1>8. CASE ~(cardRequests' = [cardRequests EXCEPT ![h] = Contacts!Idle])
  <2>1. PICK listing : listing = Contacts!Listed(down)
    OBVIOUS
  <2>2. PICK left : left = Contacts!Members(listing, r.group)
    OBVIOUS
  <2>3. PICK next : next = [op |-> "regroup", pc |-> "walk", group |-> r.group, to |-> r.to, listing |-> listing, left |-> left]
    OBVIOUS
  <2>4. cardRequests' = [cardRequests EXCEPT ![h] = next]
    BY <1>1, <1>4, <1>8, <2>1, <2>2, <2>3 DEF Contacts!End
  <2>5. left \subseteq DOMAIN listing
    BY <2>2 DEF Contacts!Members
  <2>6. DOMAIN listing \subseteq 1..made /\ \A i \in DOMAIN listing : listing[i] \in Contact
    BY <2>1, ListedCards
  <2>7. made \in Nat
    BY DEF ContactsInv, ContactsTables
  <2>8. CardRequest(next) /\ Reaches(next, made)
    BY <1>3, <2>3, <2>5, <2>6, <2>7, WalkIs
  <2>9. QED
    BY <1>5, <1>6, <2>4, <2>8, CardsRest
<1>9. QED
  BY <1>7, <1>8

\* A walk goes on to the members that are left, or ends.
LEMMA WalkGoesOn ==
  ASSUME Contacts!ContactsAssumption, ContactsInv, NEW h \in Handlers, NEW r, r = cardRequests[h],
         r.op = "regroup", r.pc = "walk", NEW i \in r.left, Contacts!WalkOn(h, i),
         NEW next, next = IF r.left = {i} THEN Contacts!Idle ELSE [r EXCEPT !.left = @ \ {i}]
  PROVE  /\ cardRequests' = [cardRequests EXCEPT ![h] = next]
         /\ CardRequest(next) /\ Reaches(next, made)
         /\ i \in Contacts!Ids /\ i <= made /\ r.listing[i] \in Contact /\ r.group \in Groups /\ r.to \in Groups \cup {Contacts!Drop}
<1>1. CardRequest(r) /\ Reaches(r, made)
  BY DEF ContactsInv, ContactsHeld
<1>2. Walking(r)
  BY <1>1, CardForms
<1>3. made \in 0..MaxCards /\ MaxCards \in Nat
  BY DEF ContactsInv, ContactsTables, Contacts!ContactsAssumption
<1>4. DOMAIN r.listing \subseteq 1..made
  BY <1>1, <1>2 DEF Reaches
<1>5. i \in DOMAIN r.listing /\ r.listing[i] \in Contact /\ r.group \in Groups /\ r.to \in Groups \cup {Contacts!Drop}
  BY <1>2 DEF Walking
<1>6. i \in Contacts!Ids /\ i <= made
  BY <1>3, <1>4, <1>5 DEF Contacts!Ids
<1>7. cardRequests' = [cardRequests EXCEPT ![h] = next]
  BY DEF Contacts!WalkOn
<1>8. CardRequest(next) /\ Reaches(next, made)
  <2>1. CASE next = Contacts!Idle
    BY <2>1, ReachesOthers
  <2>2. CASE next = [r EXCEPT !.left = @ \ {i}]
    <3>1. PICK left : left = r.left \ {i}
      OBVIOUS
    <3>2. PICK g, to, listing : g = r.group /\ to = r.to /\ listing = r.listing
      OBVIOUS
    <3>3. r = [op |-> "regroup", pc |-> "walk", group |-> g, to |-> to, listing |-> listing, left |-> r.left]
      BY <1>2, <3>2 DEF Walking
    <3>4. next = [op |-> "regroup", pc |-> "walk", group |-> g, to |-> to, listing |-> listing, left |-> left]
      BY <2>2, <3>1, <3>3
    <3>5. left \subseteq DOMAIN listing /\ \A j \in DOMAIN listing : listing[j] \in Contact
      BY <1>2, <3>1, <3>2 DEF Walking
    <3>6. DOMAIN listing \subseteq 1..made /\ g \in Groups /\ to \in Groups \cup {Contacts!Drop} /\ made \in Nat
      BY <1>3, <1>4, <1>5, <3>2
    <3>7. QED
      BY <3>4, <3>5, <3>6, WalkIs
  <2>3. QED
    BY <2>1, <2>2
<1>9. QED
  BY <1>5, <1>6, <1>7, <1>8

\* What a rewrite makes of a card.
LEMMA Regrouped ==
  ASSUME NEW card \in Contact, NEW old \in Groups, NEW new \in Groups \cup {Contacts!Drop}
  PROVE  Contacts!Encoded([card EXCEPT !.groups = Contacts!Renamed(card.groups, old, new)]) \in Contacts!Card
<1>1. Contacts!Renamed(card.groups, old, new) \in SUBSET Groups
  BY DEF Contact, Contacts!Renamed
<1>2. [card EXCEPT !.groups = Contacts!Renamed(card.groups, old, new)] \in Contact
  BY <1>1 DEF Contact
<1>3. QED
  BY <1>2, Wire

\* One card of a group is rewritten (rewriteGroup).
LEMMA CardRegroupPut ==
  ASSUME Contacts!ContactsAssumption, ContactsInv, NEW h \in Handlers, Contacts!RegroupPut(h)
  PROVE  ContactsInv'
<1>1. PICK r : r = cardRequests[h]
  OBVIOUS
<1>2. r.op = "regroup" /\ r.pc = "walk"
  BY <1>1 DEF Contacts!RegroupPut
<1>3. PICK i \in r.left :
        /\ cards' = [cards EXCEPT ![i] =
             IF Contacts!Disposable(r.listing[i], Contacts!Renamed(r.listing[i].groups, r.group, r.to)) THEN Contacts!NoCard
             ELSE Contacts!Encoded([r.listing[i] EXCEPT !.groups = Contacts!Renamed(r.listing[i].groups, r.group, r.to)])]
        /\ Contacts!WalkOn(h, i)
  BY <1>1 DEF Contacts!RegroupPut
<1>4. PICK next : next = IF r.left = {i} THEN Contacts!Idle ELSE [r EXCEPT !.left = @ \ {i}]
  OBVIOUS
<1>5. /\ cardRequests' = [cardRequests EXCEPT ![h] = next]
      /\ CardRequest(next) /\ Reaches(next, made)
      /\ i \in Contacts!Ids /\ i <= made /\ r.listing[i] \in Contact /\ r.group \in Groups /\ r.to \in Groups \cup {Contacts!Drop}
  BY <1>1, <1>2, <1>3, <1>4, WalkGoesOn
<1>6. PICK card : card =
             IF Contacts!Disposable(r.listing[i], Contacts!Renamed(r.listing[i].groups, r.group, r.to)) THEN Contacts!NoCard
             ELSE Contacts!Encoded([r.listing[i] EXCEPT !.groups = Contacts!Renamed(r.listing[i].groups, r.group, r.to)])
  OBVIOUS
<1>7. card \in Contacts!Card \cup {Contacts!NoCard}
  BY <1>5, <1>6, Regrouped
<1>8. made' = made /\ cardsAsked' = cardsAsked /\ cardFaults' \in 0..MaxFaults /\ made \in 0..MaxCards /\ made <= made'
  BY DEF Contacts!RegroupPut, ContactsInv, ContactsTables
<1>9. cards' = [cards EXCEPT ![i] = card] /\ i <= made' /\ made' \in 0..MaxCards /\ Reaches(next, made')
  BY <1>3, <1>5, <1>6, <1>8
<1>10. QED
  BY <1>5, <1>7, <1>8, <1>9, CardWritten

\* A rewrite that fails.
LEMMA CardRegroupFails ==
  ASSUME Contacts!ContactsAssumption, ContactsInv, NEW h \in Handlers, Contacts!RegroupFails(h)
  PROVE  ContactsInv'
<1>1. PICK r : r = cardRequests[h]
  OBVIOUS
<1>2. r.op = "regroup" /\ r.pc = "walk"
  BY <1>1 DEF Contacts!RegroupFails
<1>3. cardFaults' \in 0..MaxFaults /\ UNCHANGED <<cards, made, cardsAsked>>
  BY DEF Contacts!RegroupFails, ContactsInv, ContactsTables, Contacts!ContactsAssumption
<1>4. PICK i \in r.left : Contacts!WalkOn(h, i) \/ Contacts!End(h)
  BY <1>1 DEF Contacts!RegroupFails
<1>5. CASE Contacts!WalkOn(h, i)
  <2>1. PICK next : next = IF r.left = {i} THEN Contacts!Idle ELSE [r EXCEPT !.left = @ \ {i}]
    OBVIOUS
  <2>2. cardRequests' = [cardRequests EXCEPT ![h] = next] /\ CardRequest(next) /\ Reaches(next, made)
    BY <1>1, <1>2, <1>4, <1>5, <2>1, WalkGoesOn
  <2>3. QED
    BY <1>3, <2>2, CardsRest
<1>6. CASE Contacts!End(h)
  BY <1>3, <1>6, CardEnds DEF Contacts!End
<1>7. QED
  BY <1>4, <1>5, <1>6

\* The contacts' invariant is inductive.
LEMMA ContactsStep ==
  ASSUME Contacts!ContactsAssumption, ContactsInv, [Contacts!Next]_(Contacts!vars)
  PROVE  ContactsInv'
<1>0. CASE UNCHANGED Contacts!vars
  BY <1>0 DEF Contacts!vars, ContactsInv, ContactsTables, ContactsHeld
<1> SUFFICES ASSUME Contacts!Next PROVE ContactsInv'
  BY <1>0
<1>1. PICK h \in Handlers : Contacts!Serve(h)
  BY DEF Contacts!Next
<1>2. CASE Contacts!CallFails(h)
  <2>1. cardFaults' \in 0..MaxFaults /\ UNCHANGED <<cards, made, cardsAsked>>
    <3>1. cardFaults < MaxFaults /\ cardFaults' = cardFaults + 1 /\ UNCHANGED <<cards, made, cardsAsked>>
      BY <1>2 DEF Contacts!CallFails
    <3>2. cardFaults \in 0..MaxFaults /\ MaxFaults \in Nat
      BY DEF ContactsInv, ContactsTables, Contacts!ContactsAssumption
    <3>3. QED
      BY <3>1, <3>2
  <2>2. QED
    BY <1>2, <2>1, CardEnds DEF Contacts!CallFails, Contacts!End
<1>3. QED
  BY <1>1, <1>2, CardAsksStep, CardSavePut, CardDeleteFind, CardDeleteRemove, CardImportPut, CardGroupList, CardGroupPut,
     CardRegroupList, CardRegroupPut, CardRegroupFails DEF Contacts!Serve, CardAsks

\* The contacts' invariant gives their type.
LEMMA ContactsSafe ==
  ASSUME Contacts!ContactsAssumption, ContactsInv
  PROVE  Contacts!TypeOK
<1>1. \A h \in Handlers : cardRequests[h].op \in {"idle", "save", "delete", "create group", "regroup", "import"}
  BY CardForms DEF ContactsInv, ContactsHeld
<1>2. QED
  BY <1>1 DEF Contacts!TypeOK, ContactsInv, ContactsTables

\* A step is one handler's.
LEMMA CardStepOfOne ==
  ASSUME ContactsInv, NEW g \in Handlers, Contacts!Serve(g), NEW h \in Handlers, h # g
  PROVE  cardRequests'[h] = cardRequests[h]
<1>1. ASSUME NEW r, Contacts!Take(g, r) PROVE cardRequests'[h] = cardRequests[h]
  BY <1>1 DEF Contacts!Take, ContactsInv, ContactsHeld
<1>2. ASSUME CardAsks(g) PROVE cardRequests'[h] = cardRequests[h]
  <2>1. PICK r : Contacts!Take(g, r)
    BY <1>2 DEF CardAsks, Contacts!AskCreate, Contacts!AskUpdate, Contacts!AskDelete, Contacts!AskCreateGroup,
                Contacts!AskRegroup, Contacts!AskImport
  <2>2. QED
    BY <1>1, <2>1
<1>3. ASSUME Contacts!End(g) PROVE cardRequests'[h] = cardRequests[h]
  BY <1>3 DEF Contacts!End, ContactsInv, ContactsHeld
<1>4. ASSUME NEW i, Contacts!WalkOn(g, i) PROVE cardRequests'[h] = cardRequests[h]
  BY <1>4 DEF Contacts!WalkOn, ContactsInv, ContactsHeld
<1>5. ASSUME Contacts!SavePut(g) \/ Contacts!DeleteRemove(g) \/ Contacts!GroupPut(g) \/ Contacts!CallFails(g)
      PROVE  cardRequests'[h] = cardRequests[h]
  BY <1>3, <1>5 DEF Contacts!SavePut, Contacts!DeleteRemove, Contacts!GroupPut, Contacts!CallFails
<1>6. ASSUME Contacts!DeleteFind(g) \/ Contacts!GroupList(g)
      PROVE  cardRequests'[h] = cardRequests[h]
  BY <1>6 DEF Contacts!DeleteFind, Contacts!GroupList, Contacts!End, ContactsInv, ContactsHeld
<1>7. ASSUME Contacts!RegroupList(g) PROVE cardRequests'[h] = cardRequests[h]
  BY <1>7 DEF Contacts!RegroupList, Contacts!End, ContactsInv, ContactsHeld
<1>8. ASSUME Contacts!RegroupPut(g) \/ Contacts!RegroupFails(g) PROVE cardRequests'[h] = cardRequests[h]
  BY <1>3, <1>4, <1>8 DEF Contacts!RegroupPut, Contacts!RegroupFails
<1>9. ASSUME Contacts!ImportPut(g) PROVE cardRequests'[h] = cardRequests[h]
  BY <1>9 DEF Contacts!ImportPut, ContactsInv, ContactsHeld
<1>10. QED
  BY <1>2, <1>5, <1>6, <1>7, <1>8, <1>9 DEF Contacts!Serve, CardAsks

\* Renaming or deleting a group removes no person, and what nobody touched since the listing keeps its text,
\* its star and its other groups (rewriteGroup).
LEMMA MembersAreKept ==
  ASSUME Contacts!ContactsAssumption, ContactsInv, [Contacts!Next]_(Contacts!vars)
  PROVE  Contacts!MembersSurvive
<1>0. CASE UNCHANGED Contacts!vars
  BY <1>0 DEF Contacts!vars, Contacts!MembersSurvive, Contacts!Rewrites
<1> SUFFICES ASSUME Contacts!Next PROVE Contacts!MembersSurvive
  BY <1>0
<1> SUFFICES ASSUME NEW h \in Handlers, NEW i \in Contacts!Ids, Contacts!Rewrites(h, i)
             PROVE  /\ cardRequests[h].listing[i].kind = "person" => cards'[i] # Contacts!NoCard
                    /\ Contacts!Untouched(h, i) =>
                         /\ cards'[i].text = cards[i].text
                         /\ cards[i].categories \ {cardRequests[h].group} \subseteq cards'[i].categories
  BY DEF Contacts!MembersSurvive
<1>1. PICK r : r = cardRequests[h]
  OBVIOUS
<1>2. r.op = "regroup" /\ r.pc = "walk" /\ cardRequests'[h] # r /\ cards'[i] # cards[i]
  BY <1>1 DEF Contacts!Rewrites
<1>3. Contacts!Serve(h)
  BY <1>1, <1>2, CardStepOfOne DEF Contacts!Next
<1>4. Contacts!RegroupPut(h) \/ Contacts!RegroupFails(h)
  <2>1. ~CardAsks(h)
    <3>1. ASSUME NEW q, Contacts!Take(h, q) PROVE FALSE
      BY <1>1, <1>2, <3>1 DEF Contacts!Take, Contacts!Idle
    <3>2. QED
      BY <3>1 DEF CardAsks, Contacts!AskCreate, Contacts!AskUpdate, Contacts!AskDelete, Contacts!AskCreateGroup,
                Contacts!AskRegroup, Contacts!AskImport
  <2>2. QED
    BY <1>1, <1>2, <1>3, <2>1 DEF Contacts!Serve, CardAsks, Contacts!SavePut, Contacts!DeleteFind, Contacts!DeleteRemove,
       Contacts!ImportPut, Contacts!GroupList, Contacts!GroupPut, Contacts!RegroupList, Contacts!CallFails
<1>5. Contacts!RegroupPut(h)
  BY <1>2, <1>4 DEF Contacts!RegroupFails
<1>6. PICK j \in r.left :
        /\ cards' = [cards EXCEPT ![j] =
             IF Contacts!Disposable(r.listing[j], Contacts!Renamed(r.listing[j].groups, r.group, r.to)) THEN Contacts!NoCard
             ELSE Contacts!Encoded([r.listing[j] EXCEPT !.groups = Contacts!Renamed(r.listing[j].groups, r.group, r.to)])]
        /\ Contacts!WalkOn(h, j)
  BY <1>1, <1>5 DEF Contacts!RegroupPut
<1>7. cards \in [Contacts!Ids -> Contacts!Card \cup {Contacts!NoCard}]
  BY DEF ContactsInv, ContactsTables
<1>8. i = j
  BY <1>2, <1>6, <1>7
<1>9. PICK next : next = IF r.left = {j} THEN Contacts!Idle ELSE [r EXCEPT !.left = @ \ {j}]
  OBVIOUS
<1>10. r.listing[i] \in Contact /\ r.group \in Groups /\ r.to \in Groups \cup {Contacts!Drop}
  <2>1. j \in Contacts!Ids /\ j <= made /\ r.listing[j] \in Contact /\ r.group \in Groups /\ r.to \in Groups \cup {Contacts!Drop}
    BY <1>1, <1>2, <1>6, <1>9, WalkGoesOn
  <2>2. QED
    BY <1>8, <2>1
<1>11. PICK seen \in Contact : seen = r.listing[i]
  BY <1>10
<1>12. PICK gs : gs = Contacts!Renamed(seen.groups, r.group, r.to)
  OBVIOUS
<1>13. cards'[i] = IF Contacts!Disposable(seen, gs) THEN Contacts!NoCard ELSE Contacts!Encoded([seen EXCEPT !.groups = gs])
  BY <1>6, <1>7, <1>8, <1>11, <1>12
<1>14. PICK written : written = Contacts!Encoded([seen EXCEPT !.groups = gs])
  OBVIOUS
<1>15. /\ written.kind = seen.kind /\ written.text = seen.text
       /\ written.categories = gs \cup (IF seen.starred THEN {Contacts!Star} ELSE {})
  BY <1>14 DEF Contacts!Encoded, Contact
<1>16. ASSUME seen.kind = "person" PROVE cards'[i] # Contacts!NoCard
  BY <1>13, <1>14, <1>15, <1>16 DEF Contacts!Disposable, Contacts!NoCard
<1>17. ASSUME Contacts!Untouched(h, i)
       PROVE  /\ cards'[i].text = cards[i].text
              /\ cards[i].categories \ {r.group} \subseteq cards'[i].categories
  <2>1. Contacts!Exists(i) /\ Contacts!Decoded(cards[i]) = seen /\ cards'[i] # Contacts!NoCard
    BY <1>1, <1>11, <1>17 DEF Contacts!Untouched
  <2>2. cards'[i] = written
    BY <1>13, <1>14, <2>1
  <2>3. PICK card : card = cards[i]
    OBVIOUS
  <2>4. seen = Contacts!Decoded(card)
    BY <2>1, <2>3
  <2>5. seen.text = card.text /\ seen.groups = card.categories \ {Contacts!Star} /\ seen.starred = (Contacts!Star \in card.categories)
    BY <2>4 DEF Contacts!Decoded
  <2>6. card.categories \ {r.group} \subseteq written.categories
    BY <1>12, <1>15, <2>5 DEF Contacts!Renamed
  <2>7. QED
    BY <1>15, <2>2, <2>3, <2>5, <2>6
<1>18. QED
  BY <1>1, <1>11, <1>16, <1>17

\* An import only adds cards (handleImportContacts).
LEMMA ImportsKeepCards ==
  ASSUME Contacts!ContactsAssumption, ContactsInv, [Contacts!Next]_(Contacts!vars)
  PROVE  Contacts!ImportsAdd
<1>0. CASE UNCHANGED Contacts!vars
  BY <1>0 DEF Contacts!vars, Contacts!ImportsAdd
<1> SUFFICES ASSUME Contacts!Next PROVE Contacts!ImportsAdd
  BY <1>0
<1> SUFFICES ASSUME NEW h \in Handlers, cardRequests[h].op = "import", cardRequests'[h] # cardRequests[h],
                    NEW i \in Contacts!Ids, Contacts!Exists(i)
             PROVE  cards'[i] = cards[i]
  BY DEF Contacts!ImportsAdd
<1>1. Contacts!Serve(h)
  BY CardStepOfOne DEF Contacts!Next
<1>2. Contacts!ImportPut(h)
  <2>1. ~CardAsks(h)
    <3>1. ASSUME NEW q, Contacts!Take(h, q) PROVE FALSE
      BY <3>1 DEF Contacts!Take, Contacts!Idle
    <3>2. QED
      BY <3>1 DEF CardAsks, Contacts!AskCreate, Contacts!AskUpdate, Contacts!AskDelete, Contacts!AskCreateGroup,
                Contacts!AskRegroup, Contacts!AskImport
  <2>2. QED
    BY <1>1, <2>1 DEF Contacts!Serve, CardAsks, Contacts!SavePut, Contacts!DeleteFind, Contacts!DeleteRemove,
       Contacts!GroupList, Contacts!GroupPut, Contacts!RegroupList, Contacts!RegroupPut, Contacts!RegroupFails, Contacts!CallFails
<1>3. i <= made /\ made \in Nat /\ i \in Nat
  BY DEF Contacts!Exists, Contacts!Ids, ContactsInv, ContactsTables
<1>4. cards' = cards \/ \E card : cards' = [cards EXCEPT ![made + 1] = card]
  BY <1>2 DEF Contacts!ImportPut, Contacts!ImportPath
<1>5. QED
  BY <1>3, <1>4 DEF ContactsInv, ContactsTables
-----------------------------------------------------------------------------
(* The product library (Catalogue) *)

\* A product that is there, a shared dimension, and a dimension as a client sends it.
Product == [version : Nat \ {0}, category : 0..MaxCategories,
            key : {Catalogue!NoKey} \cup {Catalogue!KeyOf(k) : k \in Keys}, options : SUBSET Options, sources : SUBSET Rows]
Dimension == [version : Nat \ {0}, label : Labels, type : {"text", "select"}, options : SUBSET Options]
SentDimension == [key : Keys, label : Labels, type : {"text", "select"}, options : SUBSET Options]

ProductTables ==
  /\ products \in [1..MaxProducts -> Product \cup {Catalogue!NoProduct, Catalogue!Deleted}]
  /\ dimensions \in [Keys -> Dimension \cup {Catalogue!NoDimension}]
  /\ parents \in [Catalogue!CategoryIds -> Catalogue!Gone..MaxCategories]
  /\ tombstones \subseteq Keys /\ migrated \subseteq Rows /\ writes \in 0..MaxWrites
  /\ \A p \in 1..MaxProducts : products[p].version <= writes
  /\ \A k \in Keys : dimensions[k].version <= writes

\* Products are made one after another.
ProductsInOrder == \E n \in 0..MaxProducts : \A p \in 1..MaxProducts : products[p] # Catalogue!NoProduct <=> p <= n

\* A row is the source of one product.
RowsOnce == \A row \in Rows, p, q \in 1..MaxProducts :
  Catalogue!Alive(p) /\ Catalogue!Alive(q) /\ row \in products[p].sources /\ row \in products[q].sources
    => p = q /\ row \in migrated

\* What a request holds between its reads and its transaction.
ProductCall == [step : {"save"}, row : Rows, id : 0..MaxProducts, version : Nat, category : 0..MaxCategories,
                def : {Catalogue!NoKey} \cup SentDimension, options : SUBSET Options, sources : SUBSET Rows]

\* The product that an import read was made then; while it has the version that was read it has the sources that were.
ReadIsKept(call) ==
  /\ call.id = 0 => call.sources = {call.row}
  /\ call.id # 0 => /\ products[call.id] # Catalogue!NoProduct
                    /\ Catalogue!Alive(call.id) => call.version <= products[call.id].version
                    /\ Catalogue!Current(call.id, call.version) => call.sources = products[call.id].sources \cup {call.row}
ImportsHeld ==
  /\ productImports = [i \in Importers |-> productImports[i]]
  /\ \A i \in Importers : productImports[i] = Catalogue!Idle \/ (productImports[i] \in ProductCall /\ ReadIsKept(productImports[i]))

CatalogueInv ==
  /\ ProductTables /\ ProductsInOrder /\ RowsOnce /\ ImportsHeld
  /\ Catalogue!SharedMeaning /\ Catalogue!CategoriesAreTree

\* What is there is told by its version.
LEMMA WhatIsThere ==
  ASSUME ProductTables
  PROVE  /\ \A p \in 1..MaxProducts : Catalogue!Alive(p) => products[p] \in Product
         /\ \A p \in 1..MaxProducts : products[p] \in Product => Catalogue!Alive(p) /\ products[p] # Catalogue!NoProduct
         /\ \A k \in Keys : Catalogue!Known(k) => dimensions[k] \in Dimension
         /\ MaxProducts \in Nat => \A p \in 1..MaxProducts : ~(products[p] # Catalogue!NoProduct) => ~Catalogue!Alive(p)
<1>1. ASSUME NEW p \in 1..MaxProducts, Catalogue!Alive(p)
      PROVE  products[p] \in Product
  BY <1>1 DEF Catalogue!Alive, Catalogue!NoProduct, Catalogue!Deleted, ProductTables
<1>2. ASSUME NEW p \in 1..MaxProducts, products[p] \in Product
      PROVE  Catalogue!Alive(p) /\ products[p] # Catalogue!NoProduct
  BY <1>2 DEF Catalogue!Alive, Catalogue!NoProduct, Product
<1>3. ASSUME NEW k \in Keys, Catalogue!Known(k)
      PROVE  dimensions[k] \in Dimension
  BY <1>3 DEF Catalogue!Known, ProductTables
<1>4. ASSUME NEW p \in 1..MaxProducts, products[p] = Catalogue!NoProduct
      PROVE  ~Catalogue!Alive(p)
  BY <1>4 DEF Catalogue!Alive, Catalogue!NoProduct
<1>5. QED
  BY <1>1, <1>2, <1>3, <1>4

\* The library begins empty.
LEMMA CatalogueInit == Catalogue!CatalogueAssumption /\ Catalogue!Init => CatalogueInv
<1> SUFFICES ASSUME Catalogue!CatalogueAssumption, Catalogue!Init
             PROVE  CatalogueInv
  OBVIOUS
<1>1. MaxProducts \in Nat /\ MaxCategories \in Nat /\ MaxWrites \in Nat
  BY DEF Catalogue!CatalogueAssumption
<1>2. /\ products = [p \in 1..MaxProducts |-> Catalogue!NoProduct] /\ dimensions = [k \in Keys |-> Catalogue!NoDimension]
      /\ parents = [c \in Catalogue!CategoryIds |-> Catalogue!Unmade] /\ tombstones = {} /\ migrated = {} /\ writes = 0
      /\ productImports = [i \in Importers |-> Catalogue!Idle]
  BY DEF Catalogue!Init
<1>3. ProductTables
  BY <1>1, <1>2 DEF ProductTables, Catalogue!NoProduct, Catalogue!NoDimension, Catalogue!Unmade, Catalogue!Gone
<1>4. ProductsInOrder
  BY <1>1, <1>2 DEF ProductsInOrder
<1>5. \A p \in 1..MaxProducts : ~Catalogue!Alive(p)
  BY <1>2 DEF Catalogue!Alive, Catalogue!NoProduct
<1>6. RowsOnce
  BY <1>5 DEF RowsOnce
<1>7. ImportsHeld
  BY <1>2 DEF ImportsHeld
<1>8. Catalogue!SharedMeaning
  BY <1>2, <1>5 DEF Catalogue!SharedMeaning, Catalogue!Known
<1>9. Catalogue!CategoriesAreTree
  BY <1>1, <1>2, <1>5 DEF Catalogue!CategoriesAreTree, Catalogue!Filed, Catalogue!Unmade
<1>10. QED
  BY <1>3, <1>4, <1>6, <1>7, <1>8, <1>9 DEF CatalogueInv

\* The next product to be made is the first that is not.
LEMMA NextProduct ==
  ASSUME Catalogue!CatalogueAssumption, ProductsInOrder
  PROVE  /\ Catalogue!ProductsMade \in 0..MaxProducts
         /\ \A p \in 1..MaxProducts : products[p] # Catalogue!NoProduct <=> p <= Catalogue!ProductsMade
<1>1. PICK n \in 0..MaxProducts : \A p \in 1..MaxProducts : products[p] # Catalogue!NoProduct <=> p <= n
  BY DEF ProductsInOrder
<1>2. MaxProducts \in Nat
  BY DEF Catalogue!CatalogueAssumption
<1>3. {p \in 1..MaxProducts : products[p] # Catalogue!NoProduct} = 1..n
  BY <1>1, <1>2
<1>4. Cardinality(1..n) = n
  BY <1>2, FS_Interval
<1>5. Catalogue!Cardinality(1..n) = Cardinality(1..n)
  BY DEF Cardinality, Catalogue!Cardinality, IsFiniteSet, Catalogue!IsFiniteSet
<1>6. Catalogue!ProductsMade = n
  BY <1>3, <1>4, <1>5 DEF Catalogue!ProductsMade
<1>7. QED
  BY <1>1, <1>6

\* What separates a category from those that are not below it.
LEMMA BelowIs ==
  ASSUME NEW c \in Catalogue!CategoryIds, NEW q \in Catalogue!CategoryIds
  PROVE  q \notin Catalogue!Subtree(c) <=> \E s \in SUBSET Catalogue!CategoryIds : c \in s /\ Catalogue!Closed(s) /\ q \notin s
BY DEF Catalogue!Subtree

\* The tree stays one when a category goes where nothing below it is: what separated two categories still does,
\* or does together with what separates the moved one from its new parent.
LEMMA TreeMoves ==
  ASSUME Catalogue!CatalogueAssumption, ProductTables, NEW moved \in Catalogue!CategoryIds, NEW parent \in 0..MaxCategories,
         parent # 0 => Catalogue!Filed(parent),
         NEW under \in SUBSET Catalogue!CategoryIds, moved \in under, Catalogue!Closed(under), parent \notin under,
         \A c \in Catalogue!CategoryIds : Catalogue!Filed(c) /\ parents[c] # 0
           => Catalogue!Filed(parents[c]) /\ parents[c] \notin Catalogue!Subtree(c),
         parents' = [parents EXCEPT ![moved] = parent],
         NEW c \in Catalogue!CategoryIds, Catalogue!Filed(c)', parents'[c] # 0
  PROVE  Catalogue!Filed(parents[c])' /\ (parents[c] \notin Catalogue!Subtree(c))'
<1>1. MaxCategories \in Nat /\ parents \in [Catalogue!CategoryIds -> Catalogue!Gone..MaxCategories]
  BY DEF Catalogue!CatalogueAssumption, ProductTables
<1>2. PICK up : up = parents'[c]
  OBVIOUS
<1>3. /\ c = moved => up = parent
      /\ c # moved => up = parents[c] /\ Catalogue!Filed(c)
      /\ up >= 0 /\ up # 0
  BY <1>1, <1>2 DEF Catalogue!Filed
<1>4. up \in Catalogue!CategoryIds /\ Catalogue!Filed(up)
  <2>1. up \in -2..MaxCategories
    BY <1>1, <1>2 DEF Catalogue!Gone
  <2>2. Catalogue!Filed(up)
    BY <1>3
  <2>3. QED
    BY <1>3, <2>1, <2>2 DEF Catalogue!CategoryIds
<1>5. Catalogue!Filed(up)'
  <2>1. parents'[up] = parents[up] \/ parents'[up] = parent
    BY <1>1, <1>4
  <2>2. parent >= 0
    BY <1>1
  <2>3. QED
    BY <1>4, <2>1, <2>2 DEF Catalogue!Filed
<1>6. ASSUME NEW s \in SUBSET Catalogue!CategoryIds, parent \in s => moved \in s,
             \A d \in Catalogue!CategoryIds : d # moved /\ Catalogue!Filed(d) /\ parents[d] \in s => d \in s
      PROVE  Catalogue!Closed(s)'
  <2>1. ASSUME NEW d \in Catalogue!CategoryIds, Catalogue!Filed(d)', parents'[d] \in s
        PROVE  d \in s
    BY <1>1, <1>6, <2>1 DEF Catalogue!Filed
  <2>2. QED
    BY <2>1 DEF Catalogue!Closed, Catalogue!Filed, Catalogue!CategoryIds
<1>7. PICK s \in SUBSET Catalogue!CategoryIds : c \in s /\ Catalogue!Closed(s)' /\ up \notin s
  <2>1. CASE c = moved
    BY <1>3, <1>6, <2>1 DEF Catalogue!Closed
  <2>2. CASE c # moved
    <3>1. PICK t \in SUBSET Catalogue!CategoryIds : c \in t /\ Catalogue!Closed(t) /\ up \notin t
      BY <1>3, <1>4, <2>2, BelowIs
    <3>2. CASE up \notin under
      <4>1. PICK s \in SUBSET Catalogue!CategoryIds : s = t \cup under
        OBVIOUS
      <4>2. \A d \in Catalogue!CategoryIds : Catalogue!Filed(d) /\ parents[d] \in s => d \in s
        BY <3>1, <4>1 DEF Catalogue!Closed
      <4>3. moved \in s
        BY <4>1
      <4>4. Catalogue!Closed(s)'
        BY <1>6, <4>2, <4>3
      <4>5. QED
        BY <3>1, <3>2, <4>1, <4>4
    <3>3. CASE up \in under
      <4>1. PICK s \in SUBSET Catalogue!CategoryIds : s = t \cap under
        OBVIOUS
      <4>2. \A d \in Catalogue!CategoryIds : Catalogue!Filed(d) /\ parents[d] \in s => d \in s
        BY <3>1, <4>1 DEF Catalogue!Closed
      <4>3. parent \notin s
        BY <4>1
      <4>4. Catalogue!Closed(s)'
        BY <1>6, <4>2, <4>3
      <4>5. c \in under
        BY <1>3, <2>2, <3>3 DEF Catalogue!Closed
      <4>6. QED
        BY <3>1, <4>1, <4>4, <4>5
    <3>4. QED
      BY <3>2, <3>3
  <2>3. QED
    BY <2>1, <2>2
<1>8. (parents[c] \notin Catalogue!Subtree(c))'
  <2>1. ~(up \in {d \in Catalogue!CategoryIds : \A set \in SUBSET Catalogue!CategoryIds : c \in set /\ Catalogue!Closed(set)' => d \in set})
    BY <1>7
  <2>2. QED
    BY <1>2, <2>1 DEF Catalogue!Subtree, Catalogue!CategoryIds
<1>9. QED
  BY <1>2, <1>5, <1>8

\* The tree when the categories stay as they are.
LEMMA TreeStays ==
  ASSUME Catalogue!CategoriesAreTree, parents' = parents,
         \A p \in 1..MaxProducts : Catalogue!Alive(p)' /\ products'[p].category # 0 => Catalogue!Filed(products'[p].category)
  PROVE  Catalogue!CategoriesAreTree'
<1>1. \A c : Catalogue!Filed(c)' <=> Catalogue!Filed(c)
  BY DEF Catalogue!Filed
<1>2. \A c : Catalogue!Subtree(c)' = Catalogue!Subtree(c)
  BY DEF Catalogue!Subtree, Catalogue!Closed, Catalogue!Filed, Catalogue!CategoryIds
<1>3. \A c \in Catalogue!CategoryIds : Catalogue!Filed(c)' /\ parents'[c] # 0
        => Catalogue!Filed(parents[c])' /\ (parents[c] \notin Catalogue!Subtree(c))'
  BY <1>1, <1>2 DEF Catalogue!CategoriesAreTree, Catalogue!Filed
<1>4. \A p \in 1..MaxProducts : Catalogue!Alive(p)' /\ products'[p].category # 0 => Catalogue!Filed(products[p].category)'
  BY DEF Catalogue!Filed
<1>5. QED
  BY <1>3, <1>4 DEF Catalogue!CategoriesAreTree, Catalogue!CategoryIds

\* How a product may move: it is made once, every change gives it the next version, and a deleted one stays deleted.
ProductMoves(p) ==
  \/ products'[p] = products[p]
  \/ Catalogue!Alive(p) /\ products'[p] = Catalogue!Deleted
  \/ Catalogue!Alive(p) /\ products'[p] \in Product /\ products'[p].version = products[p].version + 1
  \/ products[p] = Catalogue!NoProduct /\ products'[p] \in Product

\* What the options of a product that stays as it is mean stays.
MeaningStays(p) ==
  Catalogue!Alive(p) /\ products'[p] = products[p] /\ products[p].key # Catalogue!NoKey
    => dimensions'[products[p].key.key] = dimensions[products[p].key.key]
ProductsMove == \A p \in 1..MaxProducts : ProductMoves(p) /\ MeaningStays(p)

\* What an import read stays read.
LEMMA ReadStays ==
  ASSUME ProductTables, \A p \in 1..MaxProducts : ProductMoves(p), NEW call \in ProductCall, ReadIsKept(call),
         MaxProducts \in Nat
  PROVE  ReadIsKept(call)'
<1>1. CASE call.id = 0
  BY <1>1 DEF ReadIsKept
<1>2. CASE call.id # 0
  <2>1. PICK p \in 1..MaxProducts : p = call.id
    BY <1>2 DEF ProductCall
  <2>2. /\ products[p] # Catalogue!NoProduct
        /\ Catalogue!Alive(p) => call.version <= products[p].version
        /\ Catalogue!Current(p, call.version) => call.sources = products[p].sources \cup {call.row}
    BY <1>2, <2>1 DEF ReadIsKept
  <2>3. call.version \in Nat
    BY DEF ProductCall
  <2>4. CASE products'[p] = products[p]
    BY <1>2, <2>1, <2>2, <2>4 DEF ReadIsKept, Catalogue!Alive, Catalogue!Current
  <2>5. CASE products'[p] = Catalogue!Deleted
    <3>1. products'[p] # Catalogue!NoProduct /\ ~Catalogue!Alive(p)'
      BY <2>5 DEF Catalogue!Deleted, Catalogue!NoProduct, Catalogue!Alive
    <3>2. QED
      BY <1>2, <2>1, <3>1 DEF ReadIsKept, Catalogue!Current
  <2>6. CASE Catalogue!Alive(p) /\ products'[p] \in Product /\ products'[p].version = products[p].version + 1
    <3>1. products[p] \in Product
      BY <2>6, WhatIsThere
    <3>2. products[p].version \in Nat /\ products'[p].version \in Nat /\ products'[p].version # 0
      BY <2>6, <3>1 DEF Product
    <3>3. products'[p] # Catalogue!NoProduct /\ call.version <= products'[p].version /\ ~Catalogue!Current(p, call.version)'
      BY <2>2, <2>3, <2>6, <3>2 DEF Catalogue!NoProduct, Catalogue!Current
    <3>4. QED
      BY <1>2, <2>1, <3>3 DEF ReadIsKept
  <2>7. QED
    BY <2>2, <2>4, <2>5, <2>6 DEF ProductMoves
<1>3. QED
  BY <1>1, <1>2

\* What the imports read stays read.
LEMMA ImportsStay ==
  ASSUME ProductTables, ImportsHeld, \A p \in 1..MaxProducts : ProductMoves(p), UNCHANGED productImports, MaxProducts \in Nat
  PROVE  ImportsHeld'
<1>1. \A i \in Importers : productImports[i] = Catalogue!Idle \/ (productImports[i] \in ProductCall /\ ReadIsKept(productImports[i])')
  BY ReadStays DEF ImportsHeld
<1>2. QED
  BY <1>1 DEF ImportsHeld, ReadIsKept, ProductCall

\* Rows keep their one product while the sources of the products only shrink.
LEMMA RowsStay ==
  ASSUME RowsOnce, migrated \subseteq migrated',
         \A p \in 1..MaxProducts, row \in Rows : Catalogue!Alive(p)' /\ row \in products'[p].sources
           => Catalogue!Alive(p) /\ row \in products[p].sources
  PROVE  RowsOnce'
BY DEF RowsOnce, Catalogue!Alive

\* No product is made.
LEMMA OrderStays ==
  ASSUME ProductsInOrder, \A p \in 1..MaxProducts : products'[p] # Catalogue!NoProduct <=> products[p] # Catalogue!NoProduct
  PROVE  ProductsInOrder'
BY DEF ProductsInOrder

\* The dictionary as a save leaves it: what is known keeps its definition, and what is new is a dimension that
\* was not removed and whose identity nothing has.
LEMMA EnsuredIs ==
  ASSUME ProductTables, NEW d \in SentDimension, Catalogue!Accepted(d)
  PROVE  /\ Catalogue!Resolved(d) \in Keys
         /\ Catalogue!Ensured(d) \in [Keys -> Dimension \cup {Catalogue!NoDimension}]
         /\ Catalogue!Ensured(d)[Catalogue!Resolved(d)] \in Dimension
         /\ \/ Catalogue!Ensured(d) = dimensions
            \/ /\ ~Catalogue!Known(d.key) /\ d.key \notin tombstones /\ \A j \in Keys : ~Catalogue!SameIdentity(j, d)
               /\ Catalogue!Ensured(d) = [dimensions EXCEPT ![d.key] =
                    [version |-> 1, label |-> d.label, type |-> d.type, options |-> d.options]]
<1>1. d.key \in Keys
  BY DEF SentDimension
<1>2. dimensions \in [Keys -> Dimension \cup {Catalogue!NoDimension}]
  BY DEF ProductTables
<1>3. CASE Catalogue!Known(d.key)
  <2>1. Catalogue!Resolved(d) = d.key /\ Catalogue!Ensured(d) = dimensions
    BY <1>3 DEF Catalogue!Resolved, Catalogue!Ensured
  <2>2. QED
    BY <1>1, <1>2, <1>3, <2>1, WhatIsThere
<1>4. CASE ~Catalogue!Known(d.key) /\ \E k \in Keys : Catalogue!SameIdentity(k, d)
  <2>1. Catalogue!Resolved(d) = CHOOSE k \in Keys : Catalogue!SameIdentity(k, d)
    BY <1>4 DEF Catalogue!Resolved
  <2>2. Catalogue!Resolved(d) \in Keys /\ Catalogue!SameIdentity(Catalogue!Resolved(d), d)
    BY <1>4, <2>1
  <2>3. Catalogue!Known(Catalogue!Resolved(d))
    BY <2>2 DEF Catalogue!SameIdentity
  <2>4. Catalogue!Ensured(d) = dimensions
    BY <2>3 DEF Catalogue!Ensured
  <2>5. QED
    BY <1>2, <2>2, <2>3, <2>4, WhatIsThere
<1>5. CASE ~Catalogue!Known(d.key) /\ ~\E k \in Keys : Catalogue!SameIdentity(k, d)
  <2>1. Catalogue!Resolved(d) = d.key
    BY <1>5 DEF Catalogue!Resolved
  <2>2. PICK new : new = [version |-> 1, label |-> d.label, type |-> d.type, options |-> d.options]
    OBVIOUS
  <2>3. new \in Dimension
    BY <2>2 DEF Dimension, SentDimension
  <2>4. Catalogue!Ensured(d) = [dimensions EXCEPT ![d.key] = new]
    BY <1>5, <2>1, <2>2 DEF Catalogue!Ensured
  <2>5. d.key \notin tombstones
    BY <1>5 DEF Catalogue!Accepted
  <2>6. QED
    BY <1>1, <1>2, <1>5, <2>1, <2>2, <2>3, <2>4, <2>5
<1>6. QED
  BY <1>3, <1>4, <1>5

\* The dictionary keeps its meaning when a save adds to it.
LEMMA MeaningGrows ==
  ASSUME Catalogue!SharedMeaning, ProductTables, NEW d \in SentDimension, Catalogue!Accepted(d),
         NEW new, new = Catalogue!Ensured(d), new # dimensions
  PROVE  /\ \A k \in Keys : Catalogue!Known(k) => new[k] = dimensions[k]
         /\ \A k \in tombstones : new[k] = Catalogue!NoDimension
         /\ \A j, k \in Keys : j # k /\ new[j] # Catalogue!NoDimension /\ new[k] # Catalogue!NoDimension
              => ~(new[k].label = new[j].label /\ new[k].type = new[j].type)
<1>1. dimensions \in [Keys -> Dimension \cup {Catalogue!NoDimension}] /\ tombstones \subseteq Keys
  BY DEF ProductTables
<1>2. d.key \in Keys
  BY DEF SentDimension
<1>3. /\ ~Catalogue!Known(d.key) /\ d.key \notin tombstones /\ \A j \in Keys : ~Catalogue!SameIdentity(j, d)
      /\ new = [dimensions EXCEPT ![d.key] = [version |-> 1, label |-> d.label, type |-> d.type, options |-> d.options]]
  BY EnsuredIs
<1>4. /\ new[d.key].label = d.label /\ new[d.key].type = d.type
      /\ \A k \in Keys : k # d.key => new[k] = dimensions[k]
  BY <1>1, <1>2, <1>3
<1>5. \A k \in tombstones : new[k] = Catalogue!NoDimension
  BY <1>1, <1>3, <1>4 DEF Catalogue!SharedMeaning, Catalogue!Known
<1>6. ASSUME NEW j \in Keys, NEW k \in Keys, j # k, new[j] # Catalogue!NoDimension, new[k] # Catalogue!NoDimension
      PROVE  ~(new[k].label = new[j].label /\ new[k].type = new[j].type)
  <2>1. CASE j # d.key /\ k # d.key
    BY <1>4, <1>6, <2>1 DEF Catalogue!SharedMeaning, Catalogue!SameIdentity, Catalogue!Known
  <2>2. CASE j = d.key
    BY <1>3, <1>4, <1>6, <2>2 DEF Catalogue!SameIdentity, Catalogue!Known
  <2>3. CASE k = d.key
    BY <1>3, <1>4, <1>6, <2>3 DEF Catalogue!SameIdentity, Catalogue!Known
  <2>4. QED
    BY <2>1, <2>2, <2>3
<1>7. QED
  BY <1>3, <1>4, <1>5, <1>6 DEF Catalogue!Known

\* A product is saved: under the next version, or as the next product.
LEMMA SavedProduct ==
  ASSUME Catalogue!CatalogueAssumption, CatalogueInv, writes < MaxWrites, writes' = writes + 1, NEW call,
         call.id \in 0..MaxProducts, call.category \in 0..MaxCategories, call.def \in {Catalogue!NoKey} \cup SentDimension,
         call.options \in SUBSET Options, call.sources \in SUBSET Rows, Catalogue!MaySave(call), Catalogue!Saved(call),
         UNCHANGED <<tombstones, parents>>, migrated' \subseteq Rows
  PROVE  /\ ProductTables' /\ ProductsInOrder' /\ Catalogue!SharedMeaning' /\ Catalogue!CategoriesAreTree' /\ ProductsMove
         /\ \E p \in 1..MaxProducts :
              /\ call.id # 0 => p = call.id /\ Catalogue!Current(p, call.version)
              /\ call.id = 0 => ~Catalogue!Alive(p)
              /\ Catalogue!Alive(p)' /\ products'[p].sources = call.sources
              /\ \A q \in 1..MaxProducts : q # p => products'[q] = products[q]
<1>1. MaxProducts \in Nat /\ MaxCategories \in Nat /\ MaxWrites \in Nat
  BY DEF Catalogue!CatalogueAssumption
<1>2. /\ products \in [1..MaxProducts -> Product \cup {Catalogue!NoProduct, Catalogue!Deleted}]
      /\ dimensions \in [Keys -> Dimension \cup {Catalogue!NoDimension}]
      /\ writes \in 0..MaxWrites /\ ProductTables
  BY DEF CatalogueInv, ProductTables
<1>3. /\ Catalogue!ProductsMade \in 0..MaxProducts
      /\ \A p \in 1..MaxProducts : products[p] # Catalogue!NoProduct <=> p <= Catalogue!ProductsMade
  BY NextProduct DEF CatalogueInv
<1>4. PICK p : p = IF call.id # 0 THEN call.id ELSE Catalogue!ProductsMade + 1
  OBVIOUS
<1>5. /\ p \in 1..MaxProducts
      /\ call.id # 0 => p = call.id /\ Catalogue!Current(p, call.version) /\ Catalogue!Alive(p)
      /\ call.id = 0 => products[p] = Catalogue!NoProduct /\ p = Catalogue!ProductsMade + 1
  <2>1. CASE call.id # 0
    BY <1>1, <1>4, <2>1 DEF Catalogue!MaySave, Catalogue!Current
  <2>2. CASE call.id = 0
    <3>1. p = Catalogue!ProductsMade + 1 /\ Catalogue!ProductsMade < MaxProducts
      BY <1>4, <2>2 DEF Catalogue!MaySave
    <3>2. p \in 1..MaxProducts
      BY <1>1, <1>3, <3>1
    <3>3. QED
      BY <1>1, <1>3, <2>2, <3>1, <3>2
  <2>3. QED
    BY <2>1, <2>2
<1>6. PICK key : key = IF call.def = Catalogue!NoKey THEN Catalogue!NoKey ELSE Catalogue!KeyOf(Catalogue!Resolved(call.def))
  OBVIOUS
<1>7. PICK version : version = IF call.id = 0 THEN 1 ELSE products[p].version + 1
  OBVIOUS
<1>8. PICK new : new = [version |-> version, category |-> call.category, key |-> key, options |-> call.options, sources |-> call.sources]
  OBVIOUS
<1>9. products' = [products EXCEPT ![p] = new] /\ dimensions' = IF call.def = Catalogue!NoKey THEN dimensions ELSE Catalogue!Ensured(call.def)
  BY <1>4, <1>6, <1>7, <1>8 DEF Catalogue!Saved
<1>10. call.def # Catalogue!NoKey =>
         /\ call.def \in SentDimension /\ Catalogue!Accepted(call.def)
         /\ call.options \subseteq Catalogue!Ensured(call.def)[Catalogue!Resolved(call.def)].options
  BY DEF Catalogue!MaySave
<1>11. key \in {Catalogue!NoKey} \cup {Catalogue!KeyOf(k) : k \in Keys}
  BY <1>6, <1>10, <1>2, EnsuredIs
<1>12. version \in Nat \ {0} /\ version <= writes'
  <2>1. CASE call.id = 0
    BY <1>2, <1>7, <2>1
  <2>2. CASE call.id # 0
    <3>1. products[p] \in Product /\ products[p].version <= writes
      BY <1>2, <1>5, <2>2, WhatIsThere DEF ProductTables
    <3>2. products[p].version \in Nat
      BY <3>1 DEF Product
    <3>3. QED
      BY <1>2, <1>7, <2>2, <3>1, <3>2
  <2>3. QED
    BY <2>1, <2>2
<1>13. new \in Product
  BY <1>8, <1>11, <1>12 DEF Product
<1>14. /\ dimensions' \in [Keys -> Dimension \cup {Catalogue!NoDimension}]
       /\ \A k \in Keys : Catalogue!Known(k) => dimensions'[k] = dimensions[k]
       /\ \A k \in tombstones : dimensions'[k] = Catalogue!NoDimension
       /\ \A j, k \in Keys : j # k /\ dimensions'[j] # Catalogue!NoDimension /\ dimensions'[k] # Catalogue!NoDimension
            => ~(dimensions'[k].label = dimensions'[j].label /\ dimensions'[k].type = dimensions'[j].type)
  <2>1. CASE dimensions' = dimensions
    BY <1>2, <2>1 DEF CatalogueInv, Catalogue!SharedMeaning, Catalogue!Known, Catalogue!SameIdentity
  <2>2. CASE dimensions' # dimensions
    <3>1. call.def # Catalogue!NoKey /\ dimensions' = Catalogue!Ensured(call.def)
      BY <1>9, <2>2
    <3>2. call.def \in SentDimension /\ Catalogue!Accepted(call.def)
      BY <1>10, <3>1
    <3>3. Catalogue!SharedMeaning
      BY DEF CatalogueInv
    <3>4. PICK dims : dims = dimensions'
      OBVIOUS
    <3>5. dims = Catalogue!Ensured(call.def) /\ dims # dimensions
      BY <2>2, <3>1, <3>4
    <3>6. /\ \A k \in Keys : Catalogue!Known(k) => dims[k] = dimensions[k]
          /\ \A k \in tombstones : dims[k] = Catalogue!NoDimension
          /\ \A j, k \in Keys : j # k /\ dims[j] # Catalogue!NoDimension /\ dims[k] # Catalogue!NoDimension
               => ~(dims[k].label = dims[j].label /\ dims[k].type = dims[j].type)
      BY <1>2, <3>2, <3>3, <3>5, MeaningGrows
    <3>7. dims \in [Keys -> Dimension \cup {Catalogue!NoDimension}]
      BY <1>2, <3>2, <3>5, EnsuredIs
    <3>8. QED
      BY <3>4, <3>6, <3>7
  <2>3. QED
    BY <2>1, <2>2
<1>15. \A k \in Keys : dimensions'[k].version <= writes'
  <2>1. \A k \in Keys : dimensions[k].version <= writes /\ dimensions[k].version \in Nat
    BY <1>2 DEF ProductTables, Dimension, Catalogue!NoDimension
  <2>2. CASE dimensions' = dimensions
    BY <1>2, <2>1, <2>2
  <2>3. CASE dimensions' # dimensions
    <3>1. dimensions' = [dimensions EXCEPT ![call.def.key] =
             [version |-> 1, label |-> call.def.label, type |-> call.def.type, options |-> call.def.options]]
      BY <1>2, <1>9, <1>10, <2>3, EnsuredIs
    <3>2. \A k \in Keys : dimensions'[k] = dimensions[k] \/ dimensions'[k].version = 1
      BY <1>2, <3>1
    <3>3. QED
      BY <1>2, <2>1, <3>2
  <2>4. QED
    BY <2>2, <2>3
<1>16. \A q \in 1..MaxProducts : q # p => products'[q] = products[q]
  BY <1>2, <1>9
<1>17. products'[p] = new /\ products' \in [1..MaxProducts -> Product \cup {Catalogue!NoProduct, Catalogue!Deleted}]
  BY <1>2, <1>5, <1>9, <1>13
<1>18. ProductTables'
  <2>1. \A q \in 1..MaxProducts : products'[q].version <= writes'
    <3>1. \A q \in 1..MaxProducts : products[q].version \in Int /\ products[q].version <= writes
      BY <1>2 DEF ProductTables, Product, Catalogue!NoProduct, Catalogue!Deleted
    <3>2. new.version = version
      BY <1>8
    <3>3. QED
      BY <1>2, <1>12, <1>16, <1>17, <3>1, <3>2
  <2>2. /\ parents' \in [Catalogue!CategoryIds -> Catalogue!Gone..MaxCategories] /\ tombstones' \subseteq Keys
        /\ writes' \in 0..MaxWrites
    BY <1>1, <1>2 DEF ProductTables
  <2>3. QED
    BY <1>14, <1>15, <1>17, <2>1, <2>2 DEF ProductTables, Catalogue!CategoryIds
<1>19. Catalogue!Alive(p)' /\ new.version = version /\ new.sources = call.sources /\ new.options = call.options /\ new.key = key
       /\ new.category = call.category
  BY <1>8, <1>12, <1>17 DEF Catalogue!Alive
<1>20. ProductsMove
  <2>1. ASSUME NEW q \in 1..MaxProducts PROVE ProductMoves(q)
    BY <1>5, <1>7, <1>13, <1>16, <1>17, <1>19 DEF ProductMoves
  <2>2. ASSUME NEW q \in 1..MaxProducts PROVE MeaningStays(q)
    <3>1. ASSUME Catalogue!Alive(q), products[q].key # Catalogue!NoKey
          PROVE  products[q].key.key \in Keys /\ Catalogue!Known(products[q].key.key)
      <4>1. products[q] \in Product
        BY <1>2, <3>1, WhatIsThere
      <4>2. products[q].key.key \in Keys
        BY <3>1, <4>1 DEF Product, Catalogue!KeyOf
      <4>3. QED
        BY <3>1, <4>2 DEF CatalogueInv, Catalogue!SharedMeaning
    <3>2. QED
      BY <1>14, <3>1 DEF MeaningStays
  <2>3. QED
    BY <2>1, <2>2 DEF ProductsMove
<1>21. Catalogue!SharedMeaning'
  <2>1. ASSUME NEW q \in 1..MaxProducts, Catalogue!Alive(q)', products'[q].key # Catalogue!NoKey
        PROVE  Catalogue!Known(products[q].key.key)' /\ products'[q].options \subseteq dimensions'[products'[q].key.key].options
    <3>1. CASE q # p
      <4>1. products'[q] = products[q] /\ Catalogue!Alive(q) /\ products[q].key # Catalogue!NoKey
        BY <1>16, <2>1, <3>1 DEF Catalogue!Alive
      <4>2. products[q] \in Product
        BY <1>2, <4>1, WhatIsThere
      <4>3. products[q].key.key \in Keys
        BY <4>1, <4>2 DEF Product, Catalogue!KeyOf
      <4>4. Catalogue!Known(products[q].key.key) /\ products[q].options \subseteq dimensions[products[q].key.key].options
        BY <4>1 DEF CatalogueInv, Catalogue!SharedMeaning
      <4>5. QED
        BY <1>14, <4>1, <4>3, <4>4 DEF Catalogue!Known
    <3>2. CASE q = p
      <4>1. products'[q].key = key /\ key # Catalogue!NoKey /\ products'[q].options = call.options
        BY <1>17, <1>19, <2>1, <3>2
      <4>2. call.def # Catalogue!NoKey
        BY <1>6, <4>1
      <4>3. key.key = Catalogue!Resolved(call.def) /\ dimensions' = Catalogue!Ensured(call.def)
        BY <1>6, <1>9, <4>2 DEF Catalogue!KeyOf
      <4>4. Catalogue!Ensured(call.def)[Catalogue!Resolved(call.def)] \in Dimension
        BY <1>2, <1>10, <4>2, EnsuredIs
      <4>5. dimensions'[key.key] # Catalogue!NoDimension
        BY <4>3, <4>4 DEF Dimension, Catalogue!NoDimension
      <4>6. QED
        BY <1>10, <4>1, <4>2, <4>3, <4>5 DEF Catalogue!Known
    <3>3. QED
      BY <3>1, <3>2
  <2>2. \A k \in tombstones' : ~Catalogue!Known(k)'
    BY <1>14 DEF Catalogue!Known
  <2>3. \A j, k \in Keys : j # k /\ Catalogue!Known(j)' => ~(Catalogue!Known(k)' /\ dimensions'[k].label = dimensions'[j].label
                                                             /\ dimensions'[k].type = dimensions'[j].type)
    BY <1>14 DEF Catalogue!Known
  <2>4. QED
    BY <2>1, <2>2, <2>3 DEF Catalogue!SharedMeaning, Catalogue!Known, Catalogue!SameIdentity
<1>22. Catalogue!CategoriesAreTree'
  <2>1. ASSUME NEW q \in 1..MaxProducts, Catalogue!Alive(q)', products'[q].category # 0
        PROVE  Catalogue!Filed(products'[q].category)
    <3>1. CASE q = p
      BY <1>17, <1>19, <2>1, <3>1 DEF Catalogue!MaySave
    <3>2. CASE q # p
      BY <1>16, <2>1, <3>2 DEF CatalogueInv, Catalogue!CategoriesAreTree, Catalogue!Alive
    <3>3. QED
      BY <3>1, <3>2
  <2>2. Catalogue!CategoriesAreTree
    BY DEF CatalogueInv
  <2>3. QED
    BY <2>1, <2>2, TreeStays
<1>23. ProductsInOrder'
  <2>1. new # Catalogue!NoProduct
    BY <1>12, <1>19 DEF Catalogue!NoProduct
  <2>2. CASE call.id # 0
    <3>1. products[p] # Catalogue!NoProduct
      BY <1>2, <1>5, <2>2, WhatIsThere
    <3>2. QED
      BY <1>16, <1>17, <2>1, <3>1, OrderStays DEF CatalogueInv
  <2>3. CASE call.id = 0
    <3>1. p \in 0..MaxProducts /\ p = Catalogue!ProductsMade + 1
      BY <1>1, <1>5, <2>3
    <3>2. \A q \in 1..MaxProducts : products'[q] # Catalogue!NoProduct <=> q <= p
      <4>1. ASSUME NEW q \in 1..MaxProducts PROVE products'[q] # Catalogue!NoProduct <=> q <= p
        <5>1. CASE q = p
          BY <1>17, <2>1, <5>1, <3>1
        <5>2. CASE q # p
          BY <1>1, <1>3, <1>16, <3>1, <5>2
        <5>3. QED
          BY <5>1, <5>2
      <4>2. QED
        BY <4>1
    <3>3. QED
      BY <3>1, <3>2 DEF ProductsInOrder
  <2>4. QED
    BY <2>2, <2>3
<1>24. call.id = 0 => ~Catalogue!Alive(p)
  BY <1>5 DEF Catalogue!Alive, Catalogue!NoProduct
<1>25. products'[p].sources = call.sources
  BY <1>17, <1>19
<1>26. QED
  BY <1>5, <1>16, <1>18, <1>19, <1>20, <1>21, <1>22, <1>23, <1>24, <1>25

\* Every definition that can be sent has the form of one.
LEMMA DefinitionsAreSent == Catalogue!Definitions \subseteq SentDimension
BY DEF Catalogue!Definitions, SentDimension

\* SaveProduct: the sources of a product only shrink.
LEMMA CatSaveProduct ==
  ASSUME Catalogue!CatalogueAssumption, CatalogueInv, Catalogue!SaveProduct
  PROVE  CatalogueInv' /\ ProductsMove
<1>1. PICK id \in 0..MaxProducts, version \in 1..MaxWrites, category \in 0..MaxCategories,
           def \in {Catalogue!NoKey} \cup Catalogue!Definitions :
        \E options \in IF def = Catalogue!NoKey THEN {{}} ELSE SUBSET Options \ {{}},
           sources \in SUBSET (IF id # 0 /\ Catalogue!Alive(id) THEN products[id].sources ELSE {}) :
          LET call == [id |-> id, version |-> version, category |-> category, def |-> def,
                       options |-> options, sources |-> sources] IN
          Catalogue!MaySave(call) /\ Catalogue!Saved(call)
  BY DEF Catalogue!SaveProduct
<1>2. PICK options, sources :
        /\ options \in IF def = Catalogue!NoKey THEN {{}} ELSE SUBSET Options \ {{}}
        /\ sources \in SUBSET (IF id # 0 /\ Catalogue!Alive(id) THEN products[id].sources ELSE {})
        /\ LET call == [id |-> id, version |-> version, category |-> category, def |-> def,
                       options |-> options, sources |-> sources] IN
           Catalogue!MaySave(call) /\ Catalogue!Saved(call)
  BY <1>1
<1>3. PICK call : call = [id |-> id, version |-> version, category |-> category, def |-> def, options |-> options, sources |-> sources]
  OBVIOUS
<1>4. Catalogue!MaySave(call) /\ Catalogue!Saved(call)
  BY <1>2, <1>3
<1>5. writes < MaxWrites /\ writes' = writes + 1 /\ UNCHANGED <<tombstones, parents, migrated, productImports>>
  BY DEF Catalogue!SaveProduct, Catalogue!Write
<1>6. MaxProducts \in Nat /\ ProductTables
  BY DEF CatalogueInv, Catalogue!CatalogueAssumption
<1>7. call.id = id /\ call.version = version /\ call.category = category /\ call.def = def /\ call.options = options /\ call.sources = sources
  BY <1>3
<1>8. sources \subseteq Rows
  <2>1. CASE id # 0 /\ Catalogue!Alive(id)
    <3>1. products[id] \in Product
      BY <1>6, <2>1, WhatIsThere
    <3>2. QED
      BY <1>2, <2>1, <3>1 DEF Product
  <2>2. QED
    BY <1>2, <2>1
<1>9. options \in SUBSET Options
  BY <1>2
<1>10. /\ call.id \in 0..MaxProducts /\ call.category \in 0..MaxCategories /\ call.def \in {Catalogue!NoKey} \cup SentDimension
       /\ call.options \in SUBSET Options /\ call.sources \in SUBSET Rows /\ migrated' \subseteq Rows
  BY <1>5, <1>6, <1>7, <1>8, <1>9, DefinitionsAreSent DEF ProductTables
<1>11. /\ ProductTables' /\ ProductsInOrder' /\ Catalogue!SharedMeaning' /\ Catalogue!CategoriesAreTree' /\ ProductsMove
       /\ \E p \in 1..MaxProducts :
              /\ call.id # 0 => p = call.id /\ Catalogue!Current(p, call.version)
              /\ call.id = 0 => ~Catalogue!Alive(p)
              /\ Catalogue!Alive(p)' /\ products'[p].sources = call.sources
              /\ \A q \in 1..MaxProducts : q # p => products'[q] = products[q]
  BY <1>4, <1>5, <1>10, SavedProduct
<1>12. PICK p \in 1..MaxProducts :
              /\ call.id # 0 => p = call.id /\ Catalogue!Current(p, call.version)
              /\ products'[p].sources = call.sources
              /\ \A q \in 1..MaxProducts : q # p => products'[q] = products[q]
  BY <1>11
<1>13. \A q \in 1..MaxProducts, row \in Rows : Catalogue!Alive(q)' /\ row \in products'[q].sources
         => Catalogue!Alive(q) /\ row \in products[q].sources
  <2>1. ASSUME NEW q \in 1..MaxProducts, NEW row \in Rows, Catalogue!Alive(q)', row \in products'[q].sources
        PROVE  Catalogue!Alive(q) /\ row \in products[q].sources
    <3>1. CASE q # p
      BY <1>12, <2>1, <3>1 DEF Catalogue!Alive
    <3>2. CASE q = p
      BY <1>2, <1>7, <1>12, <2>1, <3>2 DEF Catalogue!Current
    <3>3. QED
      BY <3>1, <3>2
  <2>2. QED
    BY <2>1
<1>14. RowsOnce'
  BY <1>5, <1>13, RowsStay DEF CatalogueInv
<1>15. ImportsHeld'
  BY <1>5, <1>6, <1>11, ImportsStay DEF CatalogueInv, ProductsMove
<1>16. QED
  BY <1>11, <1>14, <1>15 DEF CatalogueInv

\* Products that are there go on under their next version, with the sources they have or fewer, or are deleted.
ProductsGoOn == \A p \in 1..MaxProducts :
  \/ products'[p] = products[p]
  \/ Catalogue!Alive(p) /\ products'[p] = Catalogue!Deleted
  \/ /\ Catalogue!Alive(p) /\ products'[p] \in Product /\ products'[p].version = products[p].version + 1
     /\ products'[p].sources \subseteq products[p].sources

\* What such a step keeps.
LEMMA GoingOn ==
  ASSUME Catalogue!CatalogueAssumption, CatalogueInv, ProductsGoOn, writes < MaxWrites, writes' = writes + 1,
         products' = [p \in 1..MaxProducts |-> products'[p]], UNCHANGED <<migrated, productImports>>
  PROVE  /\ products' \in [1..MaxProducts -> Product \cup {Catalogue!NoProduct, Catalogue!Deleted}]
         /\ \A p \in 1..MaxProducts : ProductMoves(p) /\ products'[p].version <= writes'
         /\ ProductsInOrder' /\ RowsOnce' /\ ImportsHeld' /\ writes' \in 0..MaxWrites
<1>1. MaxProducts \in Nat /\ ProductTables /\ writes \in 0..MaxWrites /\ MaxWrites \in Nat
  BY DEF CatalogueInv, ProductTables, Catalogue!CatalogueAssumption
<1>2. \A p \in 1..MaxProducts : products[p] \in Product \cup {Catalogue!NoProduct, Catalogue!Deleted} /\ products[p].version <= writes
  BY <1>1 DEF ProductTables
<1>3. \A p \in 1..MaxProducts : ProductMoves(p)
  BY DEF ProductsGoOn, ProductMoves
<1>4. ASSUME NEW p \in 1..MaxProducts
      PROVE  products'[p] \in Product \cup {Catalogue!NoProduct, Catalogue!Deleted} /\ products'[p].version <= writes'
  <2>1. CASE products'[p] = products[p]
    <3>1. products[p].version \in Int
      BY <1>2 DEF Product, Catalogue!NoProduct, Catalogue!Deleted
    <3>2. QED
      BY <1>1, <1>2, <2>1, <3>1
  <2>2. CASE products'[p] = Catalogue!Deleted
    BY <1>1, <2>2 DEF Catalogue!Deleted
  <2>3. CASE Catalogue!Alive(p) /\ products'[p] \in Product /\ products'[p].version = products[p].version + 1
    <3>1. products[p].version \in Nat
      BY <1>1, <2>3, WhatIsThere DEF Product
    <3>2. QED
      BY <1>1, <1>2, <2>3, <3>1
  <2>4. QED
    BY <2>1, <2>2, <2>3 DEF ProductsGoOn
<1>5. \A p \in 1..MaxProducts : products'[p] # Catalogue!NoProduct <=> products[p] # Catalogue!NoProduct
  <2>1. ASSUME NEW p \in 1..MaxProducts, products'[p] # products[p]
        PROVE  products'[p] # Catalogue!NoProduct /\ products[p] # Catalogue!NoProduct
    <3>1. Catalogue!Alive(p) /\ (products'[p] = Catalogue!Deleted \/ products'[p] \in Product)
      BY <2>1 DEF ProductsGoOn
    <3>2. products[p] # Catalogue!NoProduct
      BY <3>1 DEF Catalogue!Alive, Catalogue!NoProduct
    <3>3. products'[p] # Catalogue!NoProduct
      BY <3>1 DEF Catalogue!Deleted, Catalogue!NoProduct, Product
    <3>4. QED
      BY <3>2, <3>3
  <2>2. QED
    BY <2>1
<1>6. \A p \in 1..MaxProducts, row \in Rows : Catalogue!Alive(p)' /\ row \in products'[p].sources
        => Catalogue!Alive(p) /\ row \in products[p].sources
  <2>1. ASSUME NEW p \in 1..MaxProducts, NEW row \in Rows, Catalogue!Alive(p)', row \in products'[p].sources
        PROVE  Catalogue!Alive(p) /\ row \in products[p].sources
    <3>1. CASE products'[p] = products[p]
      BY <2>1, <3>1 DEF Catalogue!Alive
    <3>2. CASE products'[p] = Catalogue!Deleted
      BY <2>1, <3>2 DEF Catalogue!Alive, Catalogue!Deleted
    <3>3. QED
      BY <2>1, <3>1, <3>2 DEF ProductsGoOn
  <2>2. QED
    BY <2>1
<1>7. ProductsInOrder' /\ RowsOnce'
  BY <1>5, <1>6, OrderStays, RowsStay DEF CatalogueInv
<1>8. ImportsHeld'
  BY <1>1, <1>3, ImportsStay DEF CatalogueInv
<1>9. writes' \in 0..MaxWrites
  BY <1>1
<1>10. products' \in [1..MaxProducts -> Product \cup {Catalogue!NoProduct, Catalogue!Deleted}]
  BY <1>4
<1>11. QED
  BY <1>3, <1>4, <1>7, <1>8, <1>9, <1>10

\* DeleteProduct.
LEMMA CatDeleteProduct ==
  ASSUME Catalogue!CatalogueAssumption, CatalogueInv, Catalogue!DeleteProduct
  PROVE  CatalogueInv' /\ ProductsMove
<1>1. PICK p \in 1..MaxProducts : Catalogue!Alive(p) /\ products' = [products EXCEPT ![p] = Catalogue!Deleted]
  BY DEF Catalogue!DeleteProduct, Catalogue!Current
<1>2. writes < MaxWrites /\ writes' = writes + 1 /\ UNCHANGED <<dimensions, tombstones, parents, migrated, productImports>>
  BY DEF Catalogue!DeleteProduct, Catalogue!Write
<1>3. ProductTables /\ MaxWrites \in Nat
  BY DEF CatalogueInv, Catalogue!CatalogueAssumption
<1>4. /\ products' = [q \in 1..MaxProducts |-> products'[q]] /\ \A q \in 1..MaxProducts : q # p => products'[q] = products[q]
      /\ products'[p] = Catalogue!Deleted
  BY <1>1, <1>3 DEF ProductTables
<1>5. ProductsGoOn
  BY <1>1, <1>4 DEF ProductsGoOn
<1>6. /\ products' \in [1..MaxProducts -> Product \cup {Catalogue!NoProduct, Catalogue!Deleted}]
      /\ \A q \in 1..MaxProducts : ProductMoves(q) /\ products'[q].version <= writes'
      /\ ProductsInOrder' /\ RowsOnce' /\ ImportsHeld' /\ writes' \in 0..MaxWrites
  BY <1>2, <1>4, <1>5, GoingOn
<1>7. ProductsMove
  BY <1>2, <1>6 DEF ProductsMove, MeaningStays
<1>8. \A k \in Keys : dimensions'[k].version <= writes'
  <2>1. \A k \in Keys : dimensions[k].version \in Int /\ dimensions[k].version <= writes
    BY <1>3 DEF ProductTables, Dimension, Catalogue!NoDimension
  <2>2. writes \in Nat
    BY <1>3 DEF ProductTables
  <2>3. QED
    BY <1>2, <2>1, <2>2
<1>9. ProductTables'
  BY <1>2, <1>3, <1>6, <1>8 DEF ProductTables, Catalogue!CategoryIds
<1>10. \A q \in 1..MaxProducts : Catalogue!Alive(q)' => products'[q] = products[q] /\ Catalogue!Alive(q)
  BY <1>4 DEF Catalogue!Alive, Catalogue!Deleted
<1>11. Catalogue!SharedMeaning'
  BY <1>2, <1>10 DEF CatalogueInv, Catalogue!SharedMeaning, Catalogue!Known, Catalogue!SameIdentity
<1>12. Catalogue!CategoriesAreTree'
  BY <1>2, <1>10, TreeStays DEF CatalogueInv, Catalogue!CategoriesAreTree
<1>13. QED
  BY <1>6, <1>7, <1>9, <1>11, <1>12 DEF CatalogueInv

\* The key of a product names a dimension that is known.
LEMMA KeyIs ==
  ASSUME CatalogueInv, NEW p \in 1..MaxProducts, Catalogue!Alive(p), products[p].key # Catalogue!NoKey
  PROVE  /\ products[p].key.key \in Keys /\ products[p].key = Catalogue!KeyOf(products[p].key.key)
         /\ Catalogue!Known(products[p].key.key) /\ products[p].options \subseteq dimensions[products[p].key.key].options
         /\ p \in Catalogue!Users(products[p].key.key)
<1>1. products[p] \in Product
  BY WhatIsThere DEF CatalogueInv
<1>2. products[p].key.key \in Keys /\ products[p].key = Catalogue!KeyOf(products[p].key.key)
  <2>1. PICK k \in Keys : products[p].key = Catalogue!KeyOf(k)
    BY <1>1 DEF Product
  <2>2. Catalogue!KeyOf(k).key = k
    BY DEF Catalogue!KeyOf
  <2>3. QED
    BY <2>1, <2>2
<1>3. QED
  BY <1>2 DEF CatalogueInv, Catalogue!SharedMeaning, Catalogue!Users

\* A product whose text changes gets its next version, and is what it was otherwise.
LEMMA BumpIs ==
  ASSUME ProductTables, NEW p \in 1..MaxProducts, Catalogue!Alive(p), NEW new, new = [products[p] EXCEPT !.version = @ + 1]
  PROVE  /\ new \in Product /\ new.version = products[p].version + 1 /\ new.category = products[p].category
         /\ new.key = products[p].key /\ new.options = products[p].options /\ new.sources = products[p].sources
<1>1. products[p] \in Product
  BY WhatIsThere
<1>2. PICK old \in Product : old = products[p]
  BY <1>1
<1>3. new = [old EXCEPT !.version = @ + 1]
  BY <1>2
<1>4. QED
  BY <1>2, <1>3 DEF Product

\* The dictionary keeps to its form when one dimension is written or removed.
LEMMA OneDimension ==
  ASSUME ProductTables, NEW k \in Keys, NEW new, new \in Dimension \cup {Catalogue!NoDimension}, new.version <= writes + 1,
         dimensions' = [dimensions EXCEPT ![k] = new], writes' = writes + 1
  PROVE  /\ dimensions' \in [Keys -> Dimension \cup {Catalogue!NoDimension}]
         /\ \A j \in Keys : dimensions'[j].version <= writes'
         /\ dimensions'[k] = new /\ \A j \in Keys : j # k => dimensions'[j] = dimensions[j]
<1>1. dimensions \in [Keys -> Dimension \cup {Catalogue!NoDimension}] /\ writes \in Nat
  BY DEF ProductTables
<1>2. dimensions'[k] = new /\ \A j \in Keys : j # k => dimensions'[j] = dimensions[j]
  BY <1>1
<1>3. \A j \in Keys : dimensions[j].version \in Int /\ dimensions[j].version <= writes
  BY <1>1 DEF ProductTables, Dimension, Catalogue!NoDimension
<1>4. \A j \in Keys : dimensions'[j].version <= writes'
  BY <1>1, <1>2, <1>3
<1>5. QED
  BY <1>1, <1>2, <1>4

\* SaveProductDimension: every product that uses the dimension gets its next version, and its options stay in it.
LEMMA CatSaveDimension ==
  ASSUME Catalogue!CatalogueAssumption, CatalogueInv, Catalogue!SaveProductDimension
  PROVE  CatalogueInv' /\ ProductsMove
<1>1. PICK d \in Catalogue!Definitions :
        /\ ~\E other \in Keys \ {d.key} : Catalogue!SameIdentity(other, d)
        /\ \/ ~Catalogue!Known(d.key) /\ d.key \notin tombstones /\ products' = products
           \/ Catalogue!Known(d.key) /\ Catalogue!OptionsKept(d.key, d) /\ products' = Catalogue!Bump(Catalogue!Users(d.key))
        /\ dimensions' = [dimensions EXCEPT ![d.key] =
            [version |-> dimensions[d.key].version + 1, label |-> d.label, type |-> d.type, options |-> d.options]]
  BY DEF Catalogue!SaveProductDimension
<1>2. writes < MaxWrites /\ writes' = writes + 1 /\ UNCHANGED <<tombstones, parents, migrated, productImports>>
  BY DEF Catalogue!SaveProductDimension, Catalogue!Write
<1>3. ProductTables /\ MaxWrites \in Nat
  BY DEF CatalogueInv, Catalogue!CatalogueAssumption
<1>4. PICK k \in Keys : k = d.key
  BY DefinitionsAreSent DEF SentDimension
<1>5. PICK new : new = [version |-> dimensions[k].version + 1, label |-> d.label, type |-> d.type, options |-> d.options]
  OBVIOUS
<1>6. dimensions[k].version \in Nat /\ dimensions[k].version <= writes /\ writes \in Nat
  BY <1>3 DEF ProductTables, Dimension, Catalogue!NoDimension
<1>7. new \in Dimension /\ new.version = dimensions[k].version + 1 /\ new.label = d.label /\ new.type = d.type /\ new.options = d.options
  BY <1>5, <1>6, DefinitionsAreSent DEF Dimension, SentDimension
<1>8. new.version <= writes + 1 /\ dimensions' = [dimensions EXCEPT ![k] = new]
  BY <1>1, <1>4, <1>5, <1>6, <1>7
<1>9. /\ dimensions' \in [Keys -> Dimension \cup {Catalogue!NoDimension}]
      /\ \A j \in Keys : dimensions'[j].version <= writes'
      /\ dimensions'[k] = new /\ \A j \in Keys : j # k => dimensions'[j] = dimensions[j]
  BY <1>2, <1>3, <1>7, <1>8, OneDimension
<1>10. new # Catalogue!NoDimension
  BY <1>6, <1>7 DEF Catalogue!NoDimension
<1>11. \A p \in 1..MaxProducts :
         \/ products'[p] = products[p] /\ (Catalogue!Known(k) => p \notin Catalogue!Users(k))
         \/ /\ Catalogue!Alive(p) /\ products'[p] \in Product /\ products'[p].version = products[p].version + 1
            /\ products'[p].category = products[p].category
            /\ products'[p].key = products[p].key /\ products'[p].options = products[p].options /\ products'[p].sources = products[p].sources
  <2>1. CASE ~Catalogue!Known(k)
    BY <1>1, <1>4, <2>1
  <2>2. CASE Catalogue!Known(k)
    <3>1. products' = Catalogue!Bump(Catalogue!Users(k))
      BY <1>1, <1>4, <2>2
    <3>2. ASSUME NEW p \in 1..MaxProducts, p \in Catalogue!Users(k)
          PROVE  /\ Catalogue!Alive(p) /\ products'[p] \in Product /\ products'[p].version = products[p].version + 1
                 /\ products'[p].category = products[p].category /\ products'[p].key = products[p].key
                 /\ products'[p].options = products[p].options /\ products'[p].sources = products[p].sources
      <4>1. Catalogue!Alive(p)
        BY <3>2 DEF Catalogue!Users
      <4>2. PICK bumped : bumped = [products[p] EXCEPT !.version = @ + 1]
        OBVIOUS
      <4>3. products'[p] = bumped
        BY <3>1, <3>2, <4>2 DEF Catalogue!Bump
      <4>4. QED
        BY <1>3, <4>1, <4>2, <4>3, BumpIs
    <3>3. ASSUME NEW p \in 1..MaxProducts, p \notin Catalogue!Users(k)
          PROVE  products'[p] = products[p]
      BY <3>1, <3>3 DEF Catalogue!Bump
    <3>4. QED
      BY <3>2, <3>3
  <2>3. QED
    BY <2>1, <2>2
<1>12. products' = [q \in 1..MaxProducts |-> products'[q]]
  BY <1>1, <1>3 DEF ProductTables, Catalogue!Bump
<1>13. ProductsGoOn
  BY <1>11 DEF ProductsGoOn
<1>14. /\ products' \in [1..MaxProducts -> Product \cup {Catalogue!NoProduct, Catalogue!Deleted}]
       /\ \A q \in 1..MaxProducts : ProductMoves(q) /\ products'[q].version <= writes'
       /\ ProductsInOrder' /\ RowsOnce' /\ ImportsHeld' /\ writes' \in 0..MaxWrites
  BY <1>2, <1>12, <1>13, GoingOn
<1>15. ProductTables'
  BY <1>2, <1>3, <1>9, <1>14 DEF ProductTables, Catalogue!CategoryIds
<1>16. \A p \in 1..MaxProducts : Catalogue!Alive(p)' => Catalogue!Alive(p)
  BY <1>11 DEF Catalogue!Alive
<1>17. ASSUME NEW p \in 1..MaxProducts PROVE MeaningStays(p)
  <2>1. SUFFICES ASSUME Catalogue!Alive(p), products'[p] = products[p], products[p].key # Catalogue!NoKey
                 PROVE  dimensions'[products[p].key.key] = dimensions[products[p].key.key]
    BY DEF MeaningStays
  <2>2. products[p].key.key \in Keys /\ Catalogue!Known(products[p].key.key) /\ p \in Catalogue!Users(products[p].key.key)
    BY <2>1, KeyIs
  <2>3. products[p].version \in Nat
    BY <1>3, <2>1, WhatIsThere DEF Product
  <2>4. products'[p].version # products[p].version + 1
    BY <2>1, <2>3
  <2>5. products[p].key.key # k
    BY <1>11, <2>2, <2>4
  <2>6. QED
    BY <1>9, <2>2, <2>5
<1>18. ProductsMove
  BY <1>14, <1>17 DEF ProductsMove
<1>19. ASSUME NEW p \in 1..MaxProducts, Catalogue!Alive(p)', products'[p].key # Catalogue!NoKey
       PROVE  Catalogue!Known(products[p].key.key)' /\ products'[p].options \subseteq dimensions'[products'[p].key.key].options
  <2>1. Catalogue!Alive(p) /\ products'[p].key = products[p].key /\ products'[p].options = products[p].options
    BY <1>11, <1>16, <1>19
  <2>2. PICK j \in Keys : j = products[p].key.key
    BY <1>19, <2>1, KeyIs
  <2>3. Catalogue!Known(j) /\ p \in Catalogue!Users(j) /\ products[p].options \subseteq dimensions[j].options
    BY <1>19, <2>1, <2>2, KeyIs
  <2>4. CASE j # k
    BY <1>9, <2>1, <2>2, <2>3, <2>4 DEF Catalogue!Known
  <2>5. CASE j = k
    <3>1. Catalogue!OptionsKept(k, d) /\ Catalogue!Users(k) # {}
      BY <1>1, <1>4, <2>3, <2>5
    <3>2. d.type = "select" => products[p].options \subseteq d.options
      BY <2>3, <2>5, <3>1 DEF Catalogue!OptionsKept
    <3>3. d.type # "select" => d.options = Options
      BY DEF Catalogue!Definitions
    <3>4. products[p].options \subseteq Options
      BY <1>3, <2>1, WhatIsThere DEF Product
    <3>5. products[p].options \subseteq new.options
      BY <1>7, <3>2, <3>3, <3>4
    <3>6. QED
      BY <1>9, <1>10, <2>1, <2>2, <2>5, <3>5 DEF Catalogue!Known
  <2>6. QED
    BY <2>4, <2>5
<1>20. \A j \in tombstones' : ~Catalogue!Known(j)'
  <2>1. k \notin tombstones
    BY <1>1, <1>4 DEF CatalogueInv, Catalogue!SharedMeaning
  <2>2. tombstones \subseteq Keys
    BY <1>3 DEF ProductTables
  <2>3. QED
    BY <1>2, <1>9, <2>1, <2>2 DEF CatalogueInv, Catalogue!SharedMeaning, Catalogue!Known
<1>21. \A i, j \in Keys : i # j /\ Catalogue!Known(i)' => ~(Catalogue!Known(j)' /\ dimensions'[j].label = dimensions'[i].label
                                                             /\ dimensions'[j].type = dimensions'[i].type)
  <2>1. ASSUME NEW i \in Keys, NEW j \in Keys, i # j, Catalogue!Known(i)', Catalogue!Known(j)',
               dimensions'[j].label = dimensions'[i].label, dimensions'[j].type = dimensions'[i].type
        PROVE  FALSE
    <3>1. CASE i # k /\ j # k
      BY <1>9, <2>1, <3>1 DEF CatalogueInv, Catalogue!SharedMeaning, Catalogue!Known, Catalogue!SameIdentity
    <3>2. CASE i = k
      BY <1>1, <1>4, <1>7, <1>9, <2>1, <3>2 DEF Catalogue!Known, Catalogue!SameIdentity
    <3>3. CASE j = k
      BY <1>1, <1>4, <1>7, <1>9, <2>1, <3>3 DEF Catalogue!Known, Catalogue!SameIdentity
    <3>4. QED
      BY <3>1, <3>2, <3>3
  <2>2. QED
    BY <2>1
<1>22. Catalogue!SharedMeaning'
  BY <1>19, <1>20, <1>21 DEF Catalogue!SharedMeaning, Catalogue!Known, Catalogue!SameIdentity
<1>23. \A p \in 1..MaxProducts : Catalogue!Alive(p)' /\ products'[p].category # 0 => Catalogue!Filed(products'[p].category)
  BY <1>11, <1>16 DEF CatalogueInv, Catalogue!CategoriesAreTree
<1>24. Catalogue!CategoriesAreTree'
  BY <1>2, <1>23, TreeStays DEF CatalogueInv
<1>25. QED
  BY <1>14, <1>15, <1>18, <1>22, <1>24 DEF CatalogueInv

\* DeleteProductDimension: only one that no product uses.
LEMMA CatDeleteDimension ==
  ASSUME Catalogue!CatalogueAssumption, CatalogueInv, Catalogue!DeleteProductDimension
  PROVE  CatalogueInv' /\ ProductsMove
<1>1. PICK k \in Keys :
        /\ Catalogue!Known(k) /\ Catalogue!Users(k) = {}
        /\ dimensions' = [dimensions EXCEPT ![k] = Catalogue!NoDimension] /\ tombstones' = tombstones \cup {k}
  BY DEF Catalogue!DeleteProductDimension, Catalogue!Unused
<1>2. writes < MaxWrites /\ writes' = writes + 1 /\ UNCHANGED <<products, parents, migrated, productImports>>
  BY DEF Catalogue!DeleteProductDimension, Catalogue!Write
<1>3. ProductTables /\ MaxWrites \in Nat /\ writes \in Nat
  BY DEF CatalogueInv, ProductTables, Catalogue!CatalogueAssumption
<1>4. PICK none : none = Catalogue!NoDimension
  OBVIOUS
<1>5. none \in Dimension \cup {Catalogue!NoDimension} /\ none.version <= writes + 1 /\ dimensions' = [dimensions EXCEPT ![k] = none]
  BY <1>1, <1>3, <1>4 DEF Catalogue!NoDimension
<1>6. /\ dimensions' \in [Keys -> Dimension \cup {Catalogue!NoDimension}]
      /\ \A j \in Keys : dimensions'[j].version <= writes'
      /\ dimensions'[k] = none /\ \A j \in Keys : j # k => dimensions'[j] = dimensions[j]
  BY <1>2, <1>3, <1>5, OneDimension
<1>7. ProductsGoOn /\ products' = [p \in 1..MaxProducts |-> products'[p]]
  BY <1>2, <1>3 DEF ProductsGoOn, ProductTables
<1>8. /\ products' \in [1..MaxProducts -> Product \cup {Catalogue!NoProduct, Catalogue!Deleted}]
      /\ \A q \in 1..MaxProducts : ProductMoves(q) /\ products'[q].version <= writes'
      /\ ProductsInOrder' /\ RowsOnce' /\ ImportsHeld' /\ writes' \in 0..MaxWrites
  BY <1>2, <1>7, GoingOn
<1>9. ProductTables'
  BY <1>1, <1>2, <1>3, <1>6, <1>8 DEF ProductTables, Catalogue!CategoryIds
<1>10. ASSUME NEW p \in 1..MaxProducts, Catalogue!Alive(p), products[p].key # Catalogue!NoKey
       PROVE  /\ products[p].key.key \in Keys /\ products[p].key.key # k /\ Catalogue!Known(products[p].key.key)
              /\ products[p].options \subseteq dimensions[products[p].key.key].options
  BY <1>1, <1>10, KeyIs
<1>11. ProductsMove
  BY <1>6, <1>8, <1>10 DEF ProductsMove, MeaningStays
<1>12. Catalogue!SharedMeaning'
  <2>1. \A p \in 1..MaxProducts : Catalogue!Alive(p)' /\ products'[p].key # Catalogue!NoKey
          => Catalogue!Known(products[p].key.key)' /\ products'[p].options \subseteq dimensions'[products'[p].key.key].options
    BY <1>2, <1>6, <1>10 DEF Catalogue!Alive, Catalogue!Known
  <2>2. \A j \in tombstones' : ~Catalogue!Known(j)'
    BY <1>1, <1>3, <1>4, <1>6 DEF CatalogueInv, Catalogue!SharedMeaning, Catalogue!Known, ProductTables
  <2>3. \A i, j \in Keys : i # j /\ Catalogue!Known(i)' => ~(Catalogue!Known(j)' /\ dimensions'[j].label = dimensions'[i].label
                                                             /\ dimensions'[j].type = dimensions'[i].type)
    BY <1>4, <1>6 DEF CatalogueInv, Catalogue!SharedMeaning, Catalogue!Known, Catalogue!SameIdentity
  <2>4. QED
    BY <2>1, <2>2, <2>3 DEF Catalogue!SharedMeaning, Catalogue!Known, Catalogue!SameIdentity
<1>13. Catalogue!CategoriesAreTree'
  BY <1>2, TreeStays DEF CatalogueInv, Catalogue!CategoriesAreTree, Catalogue!Alive
<1>14. QED
  BY <1>8, <1>9, <1>11, <1>12, <1>13 DEF CatalogueInv

\* SaveProductCategory: a new category, or one that moves.
LEMMA CatSaveCategory ==
  ASSUME Catalogue!CatalogueAssumption, CatalogueInv, Catalogue!SaveProductCategory
  PROVE  CatalogueInv' /\ ProductsMove
<1>1. PICK parent \in 0..MaxCategories, c \in Catalogue!CategoryIds :
        /\ \/ Catalogue!Filed(c) /\ Catalogue!MayMove(c, parent)
           \/ parents[c] = Catalogue!Unmade /\ (parent # 0 => Catalogue!Filed(parent))
        /\ parents' = [parents EXCEPT ![c] = parent]
  BY DEF Catalogue!SaveProductCategory
<1>2. writes < MaxWrites /\ writes' = writes + 1 /\ UNCHANGED <<products, dimensions, tombstones, migrated, productImports>>
  BY DEF Catalogue!SaveProductCategory, Catalogue!Write
<1>3. ProductTables /\ MaxWrites \in Nat /\ writes \in Nat /\ MaxCategories \in Nat
  BY DEF CatalogueInv, ProductTables, Catalogue!CatalogueAssumption
<1>4. parents \in [Catalogue!CategoryIds -> Catalogue!Gone..MaxCategories]
  BY <1>3 DEF ProductTables
<1>5. parent # 0 => parent \in Catalogue!CategoryIds /\ Catalogue!Filed(parent)
  BY <1>1, <1>3 DEF Catalogue!MayMove, Catalogue!CategoryIds
<1>6. \A d \in Catalogue!CategoryIds : Catalogue!Filed(d) /\ parents[d] # 0
        => Catalogue!Filed(parents[d]) /\ parents[d] \notin Catalogue!Subtree(d)
  BY DEF CatalogueInv, Catalogue!CategoriesAreTree
<1>7. \E under \in SUBSET Catalogue!CategoryIds : c \in under /\ Catalogue!Closed(under) /\ parent \notin under
  <2>1. CASE Catalogue!Filed(c) /\ Catalogue!MayMove(c, parent) /\ parent # 0
    BY <1>5, <2>1, BelowIs DEF Catalogue!MayMove
  <2>2. CASE parent = 0
    <3>1. PICK all : all = Catalogue!CategoryIds
      OBVIOUS
    <3>2. Catalogue!Closed(all) /\ 0 \notin all
      BY <3>1 DEF Catalogue!Closed, Catalogue!CategoryIds
    <3>3. QED
      BY <2>2, <3>1, <3>2
  <2>3. CASE parents[c] = Catalogue!Unmade /\ parent # 0
    <3>1. ~Catalogue!Filed(c)
      BY <2>3 DEF Catalogue!Filed, Catalogue!Unmade
    <3>2. \A d \in Catalogue!CategoryIds : Catalogue!Filed(d) => parents[d] # c
      BY <1>6, <3>1 DEF Catalogue!CategoryIds
    <3>3. Catalogue!Closed({c})
      BY <3>2 DEF Catalogue!Closed
    <3>4. parent # c
      BY <1>5, <2>3, <3>1
    <3>5. QED
      BY <3>3, <3>4
  <2>4. QED
    BY <1>1, <2>1, <2>2, <2>3
<1>8. PICK under \in SUBSET Catalogue!CategoryIds : c \in under /\ Catalogue!Closed(under) /\ parent \notin under
  BY <1>7
<1>9. ASSUME NEW d \in Catalogue!CategoryIds, Catalogue!Filed(d)', parents'[d] # 0
      PROVE  Catalogue!Filed(parents[d])' /\ (parents[d] \notin Catalogue!Subtree(d))'
  BY <1>1, <1>3, <1>5, <1>6, <1>8, <1>9, TreeMoves
<1>10. \A e : Catalogue!Filed(e) /\ e \in Catalogue!CategoryIds => Catalogue!Filed(e)'
  BY <1>1, <1>4 DEF Catalogue!Filed
<1>11. \A p \in 1..MaxProducts : Catalogue!Alive(p)' /\ products'[p].category # 0 => Catalogue!Filed(products[p].category)'
  <2>1. ASSUME NEW p \in 1..MaxProducts, Catalogue!Alive(p)', products'[p].category # 0
        PROVE  Catalogue!Filed(products[p].category)'
    <3>1. Catalogue!Alive(p) /\ products[p].category # 0
      BY <1>2, <2>1 DEF Catalogue!Alive
    <3>2. products[p].category \in 0..MaxCategories
      BY <1>3, <3>1, WhatIsThere DEF Product
    <3>3. products[p].category \in Catalogue!CategoryIds
      BY <1>3, <3>1, <3>2 DEF Catalogue!CategoryIds
    <3>4. PICK e \in Catalogue!CategoryIds : e = products[p].category
      BY <3>3
    <3>5. Catalogue!Filed(e)'
      BY <1>10, <3>1, <3>4 DEF CatalogueInv, Catalogue!CategoriesAreTree
    <3>6. QED
      BY <1>2, <3>4, <3>5 DEF Catalogue!Filed
  <2>2. QED
    BY <2>1
<1>12. Catalogue!CategoriesAreTree'
  BY <1>9, <1>11 DEF Catalogue!CategoriesAreTree, Catalogue!CategoryIds
<1>13. ProductsGoOn /\ products' = [p \in 1..MaxProducts |-> products'[p]]
  BY <1>2, <1>3 DEF ProductsGoOn, ProductTables
<1>14. /\ products' \in [1..MaxProducts -> Product \cup {Catalogue!NoProduct, Catalogue!Deleted}]
       /\ \A q \in 1..MaxProducts : ProductMoves(q) /\ products'[q].version <= writes'
       /\ ProductsInOrder' /\ RowsOnce' /\ ImportsHeld' /\ writes' \in 0..MaxWrites
  BY <1>2, <1>13, GoingOn
<1>15. \A k \in Keys : dimensions'[k].version <= writes'
  <2>1. \A k \in Keys : dimensions[k].version \in Int /\ dimensions[k].version <= writes
    BY <1>3 DEF ProductTables, Dimension, Catalogue!NoDimension
  <2>2. QED
    BY <1>2, <1>3, <2>1
<1>16. parents' \in [Catalogue!CategoryIds -> Catalogue!Gone..MaxCategories]
  <2>1. parent \in Catalogue!Gone..MaxCategories
    BY <1>3 DEF Catalogue!Gone
  <2>2. QED
    BY <1>1, <1>4, <2>1
<1>17. ProductTables'
  BY <1>2, <1>3, <1>14, <1>15, <1>16 DEF ProductTables, Catalogue!CategoryIds
<1>18. Catalogue!SharedMeaning'
  BY <1>2 DEF CatalogueInv, Catalogue!SharedMeaning, Catalogue!Alive, Catalogue!Known, Catalogue!SameIdentity
<1>19. ProductsMove
  BY <1>2, <1>14 DEF ProductsMove, MeaningStays
<1>20. QED
  BY <1>12, <1>14, <1>17, <1>18, <1>19 DEF CatalogueInv

\* DeleteProductCategory: its products are filed nowhere.
LEMMA CatDeleteCategory ==
  ASSUME Catalogue!CatalogueAssumption, CatalogueInv, Catalogue!DeleteProductCategory
  PROVE  CatalogueInv' /\ ProductsMove
<1>1. PICK c \in Catalogue!CategoryIds :
        /\ Catalogue!Filed(c) /\ ~\E d \in Catalogue!CategoryIds : parents[d] = c
        /\ parents' = [parents EXCEPT ![c] = Catalogue!Gone]
        /\ products' = [p \in 1..MaxProducts |->
             IF p \in Catalogue!Filing(c) THEN [Catalogue!Bump({p})[p] EXCEPT !.category = 0] ELSE products[p]]
  BY DEF Catalogue!DeleteProductCategory
<1>2. writes < MaxWrites /\ writes' = writes + 1 /\ UNCHANGED <<dimensions, tombstones, migrated, productImports>>
  BY DEF Catalogue!DeleteProductCategory, Catalogue!Write
<1>3. ProductTables /\ MaxWrites \in Nat /\ writes \in Nat /\ MaxCategories \in Nat
  BY DEF CatalogueInv, ProductTables, Catalogue!CatalogueAssumption
<1>4. parents \in [Catalogue!CategoryIds -> Catalogue!Gone..MaxCategories]
  BY <1>3 DEF ProductTables
<1>5. \A p \in 1..MaxProducts :
         \/ products'[p] = products[p] /\ p \notin Catalogue!Filing(c)
         \/ /\ Catalogue!Alive(p) /\ products'[p] \in Product /\ products'[p].version = products[p].version + 1
            /\ products'[p].category = 0
            /\ products'[p].key = products[p].key /\ products'[p].options = products[p].options /\ products'[p].sources = products[p].sources
  <2>1. ASSUME NEW p \in 1..MaxProducts, p \in Catalogue!Filing(c)
        PROVE  /\ Catalogue!Alive(p) /\ products'[p] \in Product /\ products'[p].version = products[p].version + 1
               /\ products'[p].category = 0
               /\ products'[p].key = products[p].key /\ products'[p].options = products[p].options /\ products'[p].sources = products[p].sources
    <3>1. Catalogue!Alive(p)
      BY <2>1 DEF Catalogue!Filing
    <3>2. PICK bumped : bumped = [products[p] EXCEPT !.version = @ + 1]
      OBVIOUS
    <3>3. Catalogue!Bump({p})[p] = bumped
      BY <3>2 DEF Catalogue!Bump
    <3>4. /\ bumped \in Product /\ bumped.version = products[p].version + 1
          /\ bumped.key = products[p].key /\ bumped.options = products[p].options /\ bumped.sources = products[p].sources
      BY <1>3, <3>1, <3>2, BumpIs
    <3>5. products'[p] = [bumped EXCEPT !.category = 0]
      BY <1>1, <2>1, <3>3
    <3>6. 0 \in 0..MaxCategories
      BY <1>3
    <3>7. PICK new : new = [bumped EXCEPT !.category = 0]
      OBVIOUS
    <3>8. /\ new \in Product /\ new.version = bumped.version /\ new.category = 0 /\ new.key = bumped.key
          /\ new.options = bumped.options /\ new.sources = bumped.sources
      BY <3>4, <3>6, <3>7 DEF Product
    <3>9. QED
      BY <3>1, <3>4, <3>5, <3>7, <3>8
  <2>2. ASSUME NEW p \in 1..MaxProducts, p \notin Catalogue!Filing(c) PROVE products'[p] = products[p]
    BY <1>1, <2>2
  <2>3. QED
    BY <2>1, <2>2
<1>6. ProductsGoOn /\ products' = [p \in 1..MaxProducts |-> products'[p]]
  BY <1>1, <1>5 DEF ProductsGoOn
<1>7. /\ products' \in [1..MaxProducts -> Product \cup {Catalogue!NoProduct, Catalogue!Deleted}]
      /\ \A q \in 1..MaxProducts : ProductMoves(q) /\ products'[q].version <= writes'
      /\ ProductsInOrder' /\ RowsOnce' /\ ImportsHeld' /\ writes' \in 0..MaxWrites
  BY <1>2, <1>6, GoingOn
<1>8. \A k \in Keys : dimensions'[k].version <= writes'
  <2>1. \A k \in Keys : dimensions[k].version \in Int /\ dimensions[k].version <= writes
    BY <1>3 DEF ProductTables, Dimension, Catalogue!NoDimension
  <2>2. QED
    BY <1>2, <1>3, <2>1
<1>9. parents' \in [Catalogue!CategoryIds -> Catalogue!Gone..MaxCategories]
  <2>1. Catalogue!Gone \in Catalogue!Gone..MaxCategories
    BY <1>3 DEF Catalogue!Gone
  <2>2. QED
    BY <1>1, <1>4, <2>1
<1>10. ProductTables'
  BY <1>2, <1>3, <1>7, <1>8, <1>9 DEF ProductTables, Catalogue!CategoryIds
<1>11. ProductsMove
  BY <1>2, <1>7 DEF ProductsMove, MeaningStays
<1>12. \A p \in 1..MaxProducts : Catalogue!Alive(p)' => Catalogue!Alive(p)
  BY <1>5 DEF Catalogue!Alive
<1>13. Catalogue!SharedMeaning'
  <2>1. ASSUME NEW p \in 1..MaxProducts, Catalogue!Alive(p)', products'[p].key # Catalogue!NoKey
        PROVE  Catalogue!Known(products[p].key.key)' /\ products'[p].options \subseteq dimensions'[products'[p].key.key].options
    <3>1. Catalogue!Alive(p) /\ products'[p].key = products[p].key /\ products'[p].options = products[p].options
      BY <1>5, <1>12, <2>1
    <3>2. Catalogue!Known(products[p].key.key) /\ products[p].options \subseteq dimensions[products[p].key.key].options
      BY <2>1, <3>1 DEF CatalogueInv, Catalogue!SharedMeaning
    <3>3. QED
      BY <1>2, <3>1, <3>2 DEF Catalogue!Known
  <2>2. /\ \A j \in tombstones' : ~Catalogue!Known(j)'
        /\ \A i, j \in Keys : i # j /\ Catalogue!Known(i)' => ~(Catalogue!Known(j)' /\ dimensions'[j].label = dimensions'[i].label
                                                             /\ dimensions'[j].type = dimensions'[i].type)
    BY <1>2 DEF CatalogueInv, Catalogue!SharedMeaning, Catalogue!Known, Catalogue!SameIdentity
  <2>3. QED
    BY <2>1, <2>2 DEF Catalogue!SharedMeaning, Catalogue!Known, Catalogue!SameIdentity
<1>14. ASSUME NEW e \in Catalogue!CategoryIds, e # c, Catalogue!Filed(e)
       PROVE  Catalogue!Filed(e)' /\ parents'[e] = parents[e]
  BY <1>1, <1>4, <1>14 DEF Catalogue!Filed
<1>15. ~Catalogue!Filed(c)'
  BY <1>1, <1>4 DEF Catalogue!Filed, Catalogue!Gone
<1>16. ASSUME NEW s \in SUBSET Catalogue!CategoryIds, Catalogue!Closed(s) PROVE Catalogue!Closed(s)'
  <2>1. ASSUME NEW d \in Catalogue!CategoryIds, Catalogue!Filed(d)', parents'[d] \in s
        PROVE  d \in s
    <3>1. d # c /\ Catalogue!Filed(d) /\ parents[d] \in s
      BY <1>1, <1>4, <1>15, <2>1 DEF Catalogue!Filed
    <3>2. QED
      BY <1>16, <3>1 DEF Catalogue!Closed
  <2>2. QED
    BY <2>1 DEF Catalogue!Closed, Catalogue!Filed, Catalogue!CategoryIds
<1>17. ASSUME NEW d \in Catalogue!CategoryIds, Catalogue!Filed(d)', parents'[d] # 0
       PROVE  Catalogue!Filed(parents[d])' /\ (parents[d] \notin Catalogue!Subtree(d))'
  <2>1. d # c /\ Catalogue!Filed(d) /\ parents'[d] = parents[d]
    BY <1>1, <1>4, <1>15, <1>17 DEF Catalogue!Filed
  <2>2. PICK up : up = parents[d]
    OBVIOUS
  <2>3. Catalogue!Filed(up) /\ up \notin Catalogue!Subtree(d) /\ up # 0 /\ up >= 0
    BY <1>17, <2>1, <2>2 DEF CatalogueInv, Catalogue!CategoriesAreTree, Catalogue!Filed
  <2>4. up \in Catalogue!CategoryIds
    <3>1. up \in -2..MaxCategories
      BY <1>4, <2>2 DEF Catalogue!Gone
    <3>2. QED
      BY <2>3, <3>1 DEF Catalogue!CategoryIds
  <2>5. up # c
    BY <1>1, <2>2
  <2>6. Catalogue!Filed(up)'
    BY <1>14, <2>3, <2>4, <2>5
  <2>7. PICK s \in SUBSET Catalogue!CategoryIds : d \in s /\ Catalogue!Closed(s) /\ up \notin s
    BY <2>3, <2>4, BelowIs
  <2>8. ~(up \in {e \in Catalogue!CategoryIds : \A set \in SUBSET Catalogue!CategoryIds : d \in set /\ Catalogue!Closed(set)' => e \in set})
    BY <1>16, <2>7
  <2>9. QED
    BY <2>1, <2>2, <2>6, <2>8 DEF Catalogue!Subtree, Catalogue!CategoryIds, Catalogue!Filed
<1>18. \A p \in 1..MaxProducts : Catalogue!Alive(p)' /\ products'[p].category # 0 => Catalogue!Filed(products[p].category)'
  <2>1. ASSUME NEW p \in 1..MaxProducts, Catalogue!Alive(p)', products'[p].category # 0
        PROVE  Catalogue!Filed(products[p].category)'
    <3>1. products'[p] = products[p] /\ p \notin Catalogue!Filing(c) /\ Catalogue!Alive(p)
      BY <1>5, <1>12, <2>1
    <3>2. products[p].category \in 0..MaxCategories /\ products[p].category # c /\ products[p].category # 0
      BY <1>3, <2>1, <3>1, WhatIsThere DEF Product, Catalogue!Filing
    <3>3. PICK e \in Catalogue!CategoryIds : e = products[p].category
      BY <1>3, <3>2 DEF Catalogue!CategoryIds
    <3>4. Catalogue!Filed(e)
      BY <3>1, <3>2, <3>3 DEF CatalogueInv, Catalogue!CategoriesAreTree
    <3>5. Catalogue!Filed(e)'
      BY <1>14, <3>2, <3>3, <3>4
    <3>6. QED
      BY <3>1, <3>3, <3>5 DEF Catalogue!Filed
  <2>2. QED
    BY <2>1
<1>19. Catalogue!CategoriesAreTree'
  BY <1>17, <1>18 DEF Catalogue!CategoriesAreTree, Catalogue!CategoryIds
<1>20. QED
  BY <1>7, <1>10, <1>11, <1>13, <1>19 DEF CatalogueInv

\* What a column stands for has the form of a definition.
LEMMA ColumnsAreSent ==
  ASSUME CatalogueInv, NEW p, NEW label \in Labels, NEW key \in Keys, NEW option \in Options,
         NEW def \in Catalogue!ColumnMeans(p, label, key, option)
  PROVE  def \in SentDimension
<1>1. \A k \in Keys : Catalogue!Known(k) => Catalogue!Definition(k) \in SentDimension
  <2>1. ASSUME NEW k \in Keys, Catalogue!Known(k) PROVE Catalogue!Definition(k) \in SentDimension
    <3>1. dimensions[k] \in Dimension
      BY <2>1, WhatIsThere DEF CatalogueInv
    <3>2. QED
      BY <3>1 DEF Catalogue!Definition, SentDimension, Dimension
  <2>2. QED
    BY <2>1
<1>2. CASE def \in {Catalogue!Definition(k) : k \in {k \in Catalogue!Named(label) : products[p].key = Catalogue!KeyOf(k)}}
  BY <1>1, <1>2 DEF Catalogue!Named
<1>3. CASE def \in {Catalogue!Definition(k) : k \in {k \in Catalogue!Named(label) : option \in dimensions[k].options}}
  BY <1>1, <1>3 DEF Catalogue!Named
<1>4. CASE def = [key |-> key, label |-> label, type |-> "text", options |-> Options]
  BY <1>4 DEF SentDimension
<1>5. QED
  BY <1>2, <1>3, <1>4 DEF Catalogue!ColumnMeans

\* What an import reads of a product is what it holds.
LEMMA ReadCall ==
  ASSUME Catalogue!CatalogueAssumption, CatalogueInv, NEW row \in Rows, NEW id \in 0..MaxProducts, id # 0 => Catalogue!Alive(id),
         NEW p, p = IF id = 0 THEN [version |-> 0, category |-> 0, options |-> {}, sources |-> {}] ELSE products[id],
         NEW def \in {Catalogue!NoKey} \cup SentDimension, NEW options, options = {} \/ \E option \in Options : options = p.options \cup {option},
         NEW call, call = [step |-> "save", row |-> row, id |-> id, version |-> p.version,
                category |-> p.category, def |-> def, options |-> options, sources |-> p.sources \cup {row}]
  PROVE  call \in ProductCall /\ ReadIsKept(call)
<1>1. MaxCategories \in Nat /\ MaxProducts \in Nat
  BY DEF Catalogue!CatalogueAssumption
<1>2. CASE id = 0
  <2>1. p.version = 0 /\ p.category = 0 /\ p.options = {} /\ p.sources = {}
    BY <1>2
  <2>2. options \in SUBSET Options
    BY <2>1
  <2>3. call \in ProductCall
    BY <1>1, <2>1, <2>2 DEF ProductCall
  <2>4. ReadIsKept(call)
    BY <1>2, <2>1 DEF ReadIsKept
  <2>5. QED
    BY <2>3, <2>4
<1>3. CASE id # 0
  <2>1. id \in 1..MaxProducts /\ Catalogue!Alive(id) /\ p = products[id]
    BY <1>1, <1>3
  <2>2. products[id] \in Product /\ products[id] # Catalogue!NoProduct
    BY <2>1, WhatIsThere DEF CatalogueInv
  <2>3. p.version \in Nat /\ p.category \in 0..MaxCategories /\ p.options \in SUBSET Options /\ p.sources \in SUBSET Rows
    BY <2>1, <2>2 DEF Product
  <2>4. options \in SUBSET Options /\ p.sources \cup {row} \in SUBSET Rows
    BY <2>3
  <2>5. call \in ProductCall
    BY <2>3, <2>4 DEF ProductCall
  <2>6. call.id = id /\ call.version = products[id].version /\ call.sources = products[id].sources \cup {row} /\ call.row = row
    BY <2>1
  <2>7. ReadIsKept(call)
    BY <1>3, <2>1, <2>2, <2>3, <2>6 DEF ReadIsKept
  <2>8. QED
    BY <2>5, <2>7
<1>4. QED
  BY <1>2, <1>3

\* ImportProductPrice reads the row, the product and the dictionary.
LEMMA CatReadRow ==
  ASSUME Catalogue!CatalogueAssumption, CatalogueInv, NEW i \in Importers, Catalogue!ReadRow(i)
  PROVE  CatalogueInv' /\ ProductsMove
<1>1. PICK row \in Rows, id \in 0..MaxProducts :
   /\ id # 0 => Catalogue!Alive(id)
   /\ LET p == IF id = 0 THEN [version |-> 0, category |-> 0, options |-> {}, sources |-> {}] ELSE products[id]
          call(def, options) == [step |-> "save", row |-> row, id |-> id, version |-> p.version,
                category |-> p.category, def |-> def, options |-> options, sources |-> p.sources \cup {row}]
      IN  \/ productImports' = [productImports EXCEPT ![i] = call(Catalogue!NoKey, {})]
          \/ \E label \in Labels, key \in Keys, option \in Options :
               \E def \in Catalogue!ColumnMeans(id, label, key, option) :
                 productImports' = [productImports EXCEPT ![i] = call(def, p.options \cup {option})]
  BY DEF Catalogue!ReadRow
<1>2. PICK p : p = IF id = 0 THEN [version |-> 0, category |-> 0, options |-> {}, sources |-> {}] ELSE products[id]
  OBVIOUS
<1>3. PICK call : /\ productImports' = [productImports EXCEPT ![i] = call]
                  /\ call \in ProductCall /\ ReadIsKept(call)
  <2>1. CASE productImports' = [productImports EXCEPT ![i] = [step |-> "save", row |-> row, id |-> id, version |-> p.version,
                category |-> p.category, def |-> Catalogue!NoKey, options |-> {}, sources |-> p.sources \cup {row}]]
    <3>1. PICK call : call = [step |-> "save", row |-> row, id |-> id, version |-> p.version,
                category |-> p.category, def |-> Catalogue!NoKey, options |-> {}, sources |-> p.sources \cup {row}]
      OBVIOUS
    <3>2. call \in ProductCall /\ ReadIsKept(call)
      BY <1>1, <1>2, <3>1, ReadCall
    <3>3. QED
      BY <2>1, <3>1, <3>2
  <2>2. ASSUME NEW label \in Labels, NEW key \in Keys, NEW option \in Options, NEW def \in Catalogue!ColumnMeans(id, label, key, option),
               productImports' = [productImports EXCEPT ![i] = [step |-> "save", row |-> row, id |-> id, version |-> p.version,
                category |-> p.category, def |-> def, options |-> p.options \cup {option}, sources |-> p.sources \cup {row}]]
        PROVE  \E call : /\ productImports' = [productImports EXCEPT ![i] = call]
                         /\ call \in ProductCall /\ ReadIsKept(call)
    <3>1. def \in {Catalogue!NoKey} \cup SentDimension
      BY ColumnsAreSent
    <3>2. PICK options : options = p.options \cup {option}
      OBVIOUS
    <3>3. PICK call : call = [step |-> "save", row |-> row, id |-> id, version |-> p.version,
                category |-> p.category, def |-> def, options |-> options, sources |-> p.sources \cup {row}]
      OBVIOUS
    <3>4. call \in ProductCall /\ ReadIsKept(call)
      BY <1>1, <1>2, <3>1, <3>2, <3>3, ReadCall
    <3>5. QED
      BY <2>2, <3>2, <3>3, <3>4
  <2>3. QED
    BY <1>1, <1>2, <2>1, <2>2
<1>4. UNCHANGED <<products, dimensions, tombstones, parents, migrated, writes>>
  BY DEF Catalogue!ReadRow
<1>5. ImportsHeld'
  <2>1. productImports' = [j \in Importers |-> productImports'[j]]
    BY <1>3 DEF CatalogueInv, ImportsHeld
  <2>2. \A j \in Importers : productImports'[j] = productImports[j] \/ productImports'[j] = call
    BY <1>3 DEF CatalogueInv, ImportsHeld
  <2>3. \A c : ReadIsKept(c)' <=> ReadIsKept(c)
    BY <1>4 DEF ReadIsKept, Catalogue!Alive, Catalogue!Current
  <2>4. \A j \in Importers : productImports'[j] = Catalogue!Idle \/ (productImports'[j] \in ProductCall /\ ReadIsKept(productImports'[j]))
    BY <1>3, <2>2 DEF CatalogueInv, ImportsHeld
  <2>5. \A j \in Importers : productImports'[j] = Catalogue!Idle \/ (productImports'[j] \in ProductCall /\ ReadIsKept(productImports[j])')
    BY <1>4, <2>4 DEF ReadIsKept, Catalogue!Alive, Catalogue!Current
  <2>6. QED
    BY <2>1, <2>5 DEF ImportsHeld, ProductCall
<1>6. ProductTables' /\ ProductsInOrder' /\ RowsOnce'
  BY <1>4 DEF CatalogueInv, ProductTables, ProductsInOrder, RowsOnce, Catalogue!Alive, Catalogue!CategoryIds
<1>7. Catalogue!SharedMeaning'
  BY <1>4 DEF CatalogueInv, Catalogue!SharedMeaning, Catalogue!Alive, Catalogue!Known, Catalogue!SameIdentity
<1>8. Catalogue!CategoriesAreTree'
  BY <1>4, TreeStays DEF CatalogueInv, Catalogue!CategoriesAreTree, Catalogue!Alive
<1>9. ProductsMove
  BY <1>4 DEF ProductsMove, ProductMoves, MeaningStays
<1>10. QED
  BY <1>5, <1>6, <1>7, <1>8, <1>9 DEF CatalogueInv

\* The request of an import is answered, and the products moved.
LEMMA ImportEnds ==
  ASSUME Catalogue!CatalogueAssumption, CatalogueInv, NEW i \in Importers, \A p \in 1..MaxProducts : ProductMoves(p),
         productImports' = [productImports EXCEPT ![i] = Catalogue!Idle]
  PROVE  ImportsHeld'
<1>1. productImports' = [j \in Importers |-> productImports'[j]]
  BY DEF CatalogueInv, ImportsHeld
<1>2. ASSUME NEW j \in Importers
      PROVE  productImports'[j] = Catalogue!Idle \/ (productImports'[j] \in ProductCall /\ ReadIsKept(productImports[j])')
  <2>1. PICK call : call = productImports[j]
    OBVIOUS
  <2>2. productImports'[j] = Catalogue!Idle \/ productImports'[j] = call
    BY <2>1 DEF CatalogueInv, ImportsHeld
  <2>3. CASE productImports'[j] = call /\ call # Catalogue!Idle
    <3>1. call \in ProductCall /\ ReadIsKept(call)
      BY <2>1, <2>3 DEF CatalogueInv, ImportsHeld
    <3>2. ReadIsKept(call)'
      BY <3>1, ReadStays DEF CatalogueInv, Catalogue!CatalogueAssumption
    <3>3. QED
      BY <2>3, <3>1, <3>2 DEF ReadIsKept, Catalogue!Alive, Catalogue!Current
  <2>4. QED
    BY <2>2, <2>3
<1>3. QED
  BY <1>1, <1>2 DEF ImportsHeld, ProductCall

\* ImportProductPrice saves: the product it read has the sources it had, for it has its version.
LEMMA CatSaveRow ==
  ASSUME Catalogue!CatalogueAssumption, CatalogueInv, NEW i \in Importers, Catalogue!SaveRow(i)
  PROVE  CatalogueInv' /\ ProductsMove
<1>1. PICK call : call = productImports[i]
  OBVIOUS
<1>2. /\ call # Catalogue!Idle /\ productImports' = [productImports EXCEPT ![i] = Catalogue!Idle]
      /\ UNCHANGED <<tombstones, parents>>
      /\ \/ /\ Catalogue!MaySave(call) /\ call.row \notin migrated /\ writes < MaxWrites /\ writes' = writes + 1
            /\ Catalogue!Saved(call) /\ migrated' = migrated \cup {call.row}
         \/ UNCHANGED <<products, dimensions, migrated, writes>>
  BY <1>1 DEF Catalogue!SaveRow, Catalogue!Unmarked, Catalogue!Write
<1>3. call \in ProductCall /\ ReadIsKept(call)
  BY <1>1, <1>2 DEF CatalogueInv, ImportsHeld
<1>4. CASE UNCHANGED <<products, dimensions, migrated, writes>>
  <2>1. \A p \in 1..MaxProducts : ProductMoves(p)
    BY <1>4 DEF ProductMoves
  <2>2. ImportsHeld'
    BY <1>2, <2>1, ImportEnds
  <2>3. ProductTables' /\ ProductsInOrder' /\ RowsOnce'
    BY <1>2, <1>4 DEF CatalogueInv, ProductTables, ProductsInOrder, RowsOnce, Catalogue!Alive, Catalogue!CategoryIds
  <2>4. Catalogue!SharedMeaning'
    BY <1>2, <1>4 DEF CatalogueInv, Catalogue!SharedMeaning, Catalogue!Alive, Catalogue!Known, Catalogue!SameIdentity
  <2>5. Catalogue!CategoriesAreTree'
    BY <1>2, <1>4, TreeStays DEF CatalogueInv, Catalogue!CategoriesAreTree, Catalogue!Alive
  <2>6. ProductsMove
    BY <1>4, <2>1 DEF ProductsMove, MeaningStays
  <2>7. QED
    BY <2>2, <2>3, <2>4, <2>5, <2>6 DEF CatalogueInv
<1>5. CASE /\ Catalogue!MaySave(call) /\ call.row \notin migrated /\ writes < MaxWrites /\ writes' = writes + 1
           /\ Catalogue!Saved(call) /\ migrated' = migrated \cup {call.row}
  <2>1. /\ call.id \in 0..MaxProducts /\ call.category \in 0..MaxCategories /\ call.def \in {Catalogue!NoKey} \cup SentDimension
        /\ call.options \in SUBSET Options /\ call.sources \in SUBSET Rows /\ call.row \in Rows
    BY <1>3 DEF ProductCall
  <2>2. migrated' \subseteq Rows
    BY <1>5, <2>1 DEF CatalogueInv, ProductTables
  <2>3. /\ ProductTables' /\ ProductsInOrder' /\ Catalogue!SharedMeaning' /\ Catalogue!CategoriesAreTree' /\ ProductsMove
        /\ \E p \in 1..MaxProducts :
              /\ call.id # 0 => p = call.id /\ Catalogue!Current(p, call.version)
              /\ call.id = 0 => ~Catalogue!Alive(p)
              /\ Catalogue!Alive(p)' /\ products'[p].sources = call.sources
              /\ \A q \in 1..MaxProducts : q # p => products'[q] = products[q]
    BY <1>2, <1>5, <2>1, <2>2, SavedProduct
  <2>4. PICK p \in 1..MaxProducts :
              /\ call.id # 0 => p = call.id /\ Catalogue!Current(p, call.version)
              /\ call.id = 0 => ~Catalogue!Alive(p)
              /\ Catalogue!Alive(p)' /\ products'[p].sources = call.sources
              /\ \A q \in 1..MaxProducts : q # p => products'[q] = products[q]
    BY <2>3
  <2>5. \A q \in 1..MaxProducts : q # p => (Catalogue!Alive(q)' <=> Catalogue!Alive(q))
    BY <2>4 DEF Catalogue!Alive
  <2>6. \/ call.id # 0 /\ Catalogue!Alive(p) /\ call.sources = products[p].sources \cup {call.row}
        \/ call.id = 0 /\ call.sources = {call.row}
    BY <1>3, <2>4 DEF ReadIsKept, Catalogue!Current
  <2>7. \A q \in 1..MaxProducts : Catalogue!Alive(q) => call.row \notin products[q].sources
    BY <1>5, <2>1 DEF CatalogueInv, RowsOnce
  <2>8. ASSUME NEW row \in Rows, NEW q \in 1..MaxProducts, Catalogue!Alive(q)', row \in products'[q].sources
        PROVE  (row = call.row /\ q = p) \/ (row # call.row /\ Catalogue!Alive(q) /\ row \in products[q].sources)
    <3>1. CASE q = p
      BY <2>4, <2>6, <2>7, <2>8, <3>1
    <3>2. CASE q # p
      BY <2>4, <2>5, <2>7, <2>8, <3>2
    <3>3. QED
      BY <3>1, <3>2
  <2>9. RowsOnce'
    <3>1. ASSUME NEW row \in Rows, NEW q \in 1..MaxProducts, NEW r \in 1..MaxProducts, Catalogue!Alive(q)', Catalogue!Alive(r)',
                 row \in products'[q].sources, row \in products'[r].sources
          PROVE  q = r /\ row \in migrated'
      <4>1. (row = call.row /\ q = p) \/ (row # call.row /\ Catalogue!Alive(q) /\ row \in products[q].sources)
        BY <2>8, <3>1
      <4>2. (row = call.row /\ r = p) \/ (row # call.row /\ Catalogue!Alive(r) /\ row \in products[r].sources)
        BY <2>8, <3>1
      <4>3. QED
        BY <1>5, <4>1, <4>2 DEF CatalogueInv, RowsOnce
    <3>2. QED
      BY <3>1 DEF RowsOnce, Catalogue!Alive
  <2>10. ImportsHeld'
    BY <1>2, <2>3, ImportEnds DEF ProductsMove
  <2>11. QED
    BY <2>3, <2>9, <2>10 DEF CatalogueInv
<1>6. QED
  BY <1>2, <1>4, <1>5

\* The library's invariant is inductive, and its products move as they may.
LEMMA CatalogueStep ==
  ASSUME Catalogue!CatalogueAssumption, CatalogueInv, [Catalogue!Next]_(Catalogue!vars)
  PROVE  CatalogueInv' /\ ProductsMove
<1>1. CASE UNCHANGED Catalogue!vars
  <2>1. UNCHANGED <<products, dimensions, tombstones, parents, migrated, productImports, writes>>
    BY <1>1 DEF Catalogue!vars
  <2>2. ProductsMove
    BY <2>1 DEF ProductsMove, ProductMoves, MeaningStays
  <2>3. ImportsHeld'
    BY <2>1, <2>2, ImportsStay DEF ProductsMove, CatalogueInv, Catalogue!CatalogueAssumption
  <2>4. ProductTables' /\ ProductsInOrder' /\ RowsOnce'
    BY <2>1 DEF CatalogueInv, ProductTables, ProductsInOrder, RowsOnce, Catalogue!Alive, Catalogue!CategoryIds
  <2>5. Catalogue!SharedMeaning'
    BY <2>1 DEF CatalogueInv, Catalogue!SharedMeaning, Catalogue!Alive, Catalogue!Known, Catalogue!SameIdentity
  <2>6. Catalogue!CategoriesAreTree'
    BY <2>1, TreeStays DEF CatalogueInv, Catalogue!CategoriesAreTree, Catalogue!Alive
  <2>7. QED
    BY <2>2, <2>3, <2>4, <2>5, <2>6 DEF CatalogueInv
<1>2. CASE Catalogue!Next
  BY <1>2, CatSaveProduct, CatDeleteProduct, CatSaveDimension, CatDeleteDimension, CatSaveCategory, CatDeleteCategory, CatReadRow, CatSaveRow
     DEF Catalogue!Next
<1>3. QED
  BY <1>1, <1>2

\* The library's invariant gives its type and its safety.
LEMMA CatalogueSafe ==
  ASSUME Catalogue!CatalogueAssumption, CatalogueInv
  PROVE  Catalogue!TypeOK /\ Catalogue!SharedMeaning /\ Catalogue!CategoriesAreTree /\ Catalogue!ImportedOnce
<1>1. MaxProducts \in Nat /\ MaxWrites \in Nat /\ ProductTables
  BY DEF Catalogue!CatalogueAssumption, CatalogueInv
<1>2. Catalogue!TypeOK
  <2>1. ASSUME NEW p \in 1..MaxProducts, Catalogue!Alive(p)
        PROVE  products[p].version \in 1..MaxWrites /\ products[p].category \in 0..MaxCategories /\ products[p].sources \subseteq Rows
    <3>1. products[p] \in Product /\ products[p].version <= writes /\ writes \in 0..MaxWrites
      BY <1>1, <2>1, WhatIsThere DEF ProductTables
    <3>2. QED
      BY <1>1, <3>1 DEF Product
  <2>2. ASSUME NEW k \in Keys, Catalogue!Known(k)
        PROVE  dimensions[k].version \in 1..MaxWrites /\ dimensions[k].label \in Labels
    <3>1. dimensions[k] \in Dimension /\ dimensions[k].version <= writes /\ writes \in 0..MaxWrites
      BY <1>1, <2>2, WhatIsThere DEF ProductTables
    <3>2. QED
      BY <1>1, <3>1 DEF Dimension
  <2>3. QED
    BY <1>1, <2>1, <2>2 DEF Catalogue!TypeOK, ProductTables
<1>3. Catalogue!ImportedOnce
  <2>1. ASSUME NEW row \in Rows, NEW carriers, carriers = {p \in 1..MaxProducts : Catalogue!Alive(p) /\ row \in products[p].sources}
        PROVE  Cardinality(carriers) <= 1 /\ (carriers # {} => row \in migrated)
    <3>1. \A p, q \in carriers : p = q /\ row \in migrated
      BY <2>1 DEF CatalogueInv, RowsOnce
    <3>2. CASE carriers = {}
      BY <3>2, FS_EmptySet
    <3>3. CASE carriers # {}
      <4>1. PICK p : carriers = {p}
        BY <3>1, <3>3
      <4>2. Cardinality(carriers) = 1
        BY <4>1, FS_Singleton
      <4>3. QED
        BY <3>1, <3>3, <4>2
    <3>4. QED
      BY <3>2, <3>3
  <2>2. \A s : Catalogue!Cardinality(s) = Cardinality(s)
    BY DEF Cardinality, Catalogue!Cardinality, IsFiniteSet, Catalogue!IsFiniteSet
  <2>3. QED
    BY <2>1, <2>2 DEF Catalogue!ImportedOnce
<1>4. QED
  BY <1>2, <1>3 DEF CatalogueInv

\* A version of a product names what was offered under it (ResolveProductPrice).
LEMMA OffersStay ==
  ASSUME Catalogue!CatalogueAssumption, CatalogueInv, ProductsMove
  PROVE  Catalogue!VersionNamesOffer
<1> SUFFICES ASSUME NEW p \in 1..MaxProducts, Catalogue!Alive(p), Catalogue!Alive(p)', products'[p].version = products[p].version
             PROVE  Catalogue!Offer(p)' = Catalogue!Offer(p)
  BY DEF Catalogue!VersionNamesOffer
<1>1. products[p] \in Product
  BY WhatIsThere DEF CatalogueInv
<1>2. products'[p] = products[p]
  <2>1. products[p].version \in Nat
    BY <1>1 DEF Product
  <2>2. products'[p] # Catalogue!Deleted /\ products[p] # Catalogue!NoProduct
    BY DEF Catalogue!Alive, Catalogue!Deleted, Catalogue!NoProduct
  <2>3. QED
    BY <2>1, <2>2 DEF ProductsMove, ProductMoves
<1>3. CASE products[p].key = Catalogue!NoKey
  BY <1>2, <1>3 DEF Catalogue!Offer
<1>4. CASE products[p].key # Catalogue!NoKey
  <2>1. PICK k : k = products[p].key.key
    OBVIOUS
  <2>2. dimensions'[k] = dimensions[k]
    BY <1>2, <1>4, <2>1 DEF ProductsMove, MeaningStays
  <2>3. Catalogue!Definition(k)' = Catalogue!Definition(k)
    BY <2>2 DEF Catalogue!Definition
  <2>4. Catalogue!Definition(products[p].key.key)' = Catalogue!Definition(k)
    BY <1>2, <2>1, <2>2 DEF Catalogue!Definition
  <2>5. QED
    BY <1>2, <1>4, <2>1, <2>4 DEF Catalogue!Offer
<1>5. QED
  BY <1>3, <1>4
-----------------------------------------------------------------------------
(* The components together *)

\* What a step of the whole is for each component.
LEMMA StepOfOne ==
  ASSUME [Next]_vars
  PROVE  /\ [Catalogue!Next]_(Catalogue!vars)
         /\ [PriceLists!Next]_(PriceLists!vars)
         /\ [Documents!Next]_(Documents!vars)
         /\ [Calendar!Next]_(Calendar!vars)
         /\ [Contacts!Next]_(Contacts!vars)
         /\ UNCHANGED working
<1>1. /\ Catalogue!Next \/ UNCHANGED catalogueVars
      /\ PriceLists!Next \/ UNCHANGED listVars
      /\ Documents!Next \/ UNCHANGED documentVars
      /\ Calendar!Next \/ UNCHANGED calendarVars
      /\ Contacts!Next \/ UNCHANGED contactVars
      /\ UNCHANGED working
  BY DEF Next, vars, Documents!Next
<1>2. UNCHANGED catalogueVars => UNCHANGED Catalogue!vars
  BY DEF catalogueVars, Catalogue!vars
<1>3. UNCHANGED listVars => UNCHANGED PriceLists!vars
  BY DEF listVars, PriceLists!vars
<1>4. UNCHANGED documentVars => UNCHANGED Documents!vars
  BY DEF documentVars, Documents!vars
<1>5. UNCHANGED calendarVars => UNCHANGED Calendar!vars
  BY DEF calendarVars, Calendar!vars
<1>6. UNCHANGED contactVars => UNCHANGED Contacts!vars
  BY DEF contactVars, Contacts!vars
<1>7. QED
  BY <1>1, <1>2, <1>3, <1>4, <1>5, <1>6

\* The invariants of the components.
OfficeInv ==
  /\ working \in {"catalogue", "lists", "documents", "templates", "calendar", "contacts"}
  /\ CatalogueInv /\ ListInv /\ DocInv /\ CalendarInv /\ ContactsInv

\* The invariants of the components hold together.
LEMMA OfficeInvariant == Spec => []OfficeInv
<1>1. Init => OfficeInv
  BY OfficeAssumption, CatalogueInit, ListInit, DocInit, CalendarInit, ContactsInit DEF Init, OfficeAssumption, OfficeInv
<1>2. OfficeInv /\ [Next]_vars => OfficeInv'
  <2> SUFFICES ASSUME OfficeInv, [Next]_vars
               PROVE  OfficeInv'
    OBVIOUS
  <2>1. CatalogueInv'
    BY OfficeAssumption, CatalogueStep, StepOfOne DEF OfficeAssumption, OfficeInv
  <2>2. ListInv'
    BY OfficeAssumption, ListStep, StepOfOne DEF OfficeAssumption, OfficeInv
  <2>3. DocInv'
    BY OfficeAssumption, DocStep, StepOfOne DEF OfficeAssumption, OfficeInv
  <2>4. CalendarInv'
    BY OfficeAssumption, CalendarStep, StepOfOne DEF OfficeAssumption, OfficeInv
  <2>5. ContactsInv'
    BY OfficeAssumption, ContactsStep, StepOfOne DEF OfficeAssumption, OfficeInv
  <2>6. QED
    BY <2>1, <2>2, <2>3, <2>4, <2>5, StepOfOne DEF OfficeInv
<1>3. QED
  BY <1>1, <1>2, PTL DEF Spec

\* The variables of every component keep to their values.
THEOREM OfficeTypes == Spec => []OfficeTypeOK
<1>1. OfficeInv => OfficeTypeOK
  <2> SUFFICES ASSUME OfficeInv PROVE OfficeTypeOK
    OBVIOUS
  <2>1. Catalogue!TypeOK /\ PriceLists!TypeOK
    BY OfficeAssumption, CatalogueSafe, ListSafe DEF OfficeAssumption, OfficeInv
  <2>2. Documents!TypeOK /\ Calendar!TypeOK /\ Contacts!TypeOK
    BY OfficeAssumption, DocSafe, CalendarSafe, ContactsSafe DEF OfficeAssumption, OfficeInv
  <2>3. QED
    BY <2>1, <2>2 DEF OfficeInv, OfficeTypeOK
<1>2. QED
  BY <1>1, OfficeInvariant, PTL

\* What the options of a product mean is what the shared dictionary says, no removed dimension comes back,
\* no category is below itself and no product is filed under one that is gone, and a row of the old price
\* lists is the price of at most one product (product_dimensions.go, product_navigation.go, product_catalog.go).
THEOREM CatalogueStaysSound == Spec => []CatalogueIsSound
<1>1. OfficeInv => CatalogueIsSound
  BY OfficeAssumption, CatalogueSafe DEF OfficeAssumption, OfficeInv, CatalogueIsSound
<1>2. QED
  BY <1>1, OfficeInvariant, PTL

\* A row never holds text in a column that its price list does not show, and is found by the text that it
\* shows (price_list.go).
THEOREM RowsAreVisible == Spec => []NothingInvisible
<1>1. OfficeInv => NothingInvisible
  BY OfficeAssumption, ListSafe DEF OfficeAssumption, OfficeInv, NothingInvisible
<1>2. QED
  BY <1>1, OfficeInvariant, PTL

\* A price that a stored document shows is one that the catalogue had (documents.go).
THEOREM PricesAreReal == Spec => []PricesHaveSource
<1>1. OfficeInv => PricesHaveSource
  BY OfficeAssumption, DocSafe DEF OfficeAssumption, OfficeInv, PricesHaveSource
<1>2. QED
  BY <1>1, OfficeInvariant, PTL

\* A guest is invited only to a meeting that was stored, and an answer that is shown was told to the
\* organizer (calendar.go).
THEOREM GuestsAreTold == Spec => []MeetingsAgree
<1>1. OfficeInv => MeetingsAgree
  BY CalendarSafe DEF OfficeInv, MeetingsAgree
<1>2. QED
  BY <1>1, OfficeInvariant, PTL

\* What was offered under a version of a product stays what it was, an accepted save of a document discards
\* nobody's edit, and what was deleted stays deleted (product_catalog.go, documents.go).
THEOREM OffersStayOffered == Spec => OffersAreKept
<1>1. OfficeInv /\ [Next]_vars =>
        [/\ working = "catalogue" => Catalogue!VersionNamesOffer
         /\ working = "documents" => Documents!NoLostEdit
         /\ working \in {"documents", "templates"} => Documents!DeletedStaysDeleted]_vars
  <2> SUFFICES ASSUME OfficeInv, [Next]_vars
               PROVE  Catalogue!VersionNamesOffer /\ Documents!NoLostEdit /\ Documents!DeletedStaysDeleted
    OBVIOUS
  <2>1. Catalogue!VersionNamesOffer
    BY OfficeAssumption, CatalogueStep, OffersStay, StepOfOne DEF OfficeAssumption, OfficeInv
  <2>2. Documents!NoLostEdit /\ Documents!DeletedStaysDeleted
    BY OfficeAssumption, EditsKept, DeletionsStay, StepOfOne DEF OfficeAssumption, OfficeInv
  <2>3. QED
    BY <2>1, <2>2
<1>2. QED
  BY <1>1, OfficeInvariant, PTL DEF Spec, OffersAreKept

\* An edit of a meeting reaches that meeting and makes no second copy, a group that is renamed or deleted
\* loses no person, and an import overwrites no card (calendar.go, contacts_groups.go, contacts_ie.go).
THEOREM GroupwareStays == Spec => GroupwareIsKept
<1>1. OfficeInv /\ [Next]_vars =>
        [/\ working = "calendar" => Calendar!EditsNeverFork
         /\ working = "contacts" => Contacts!MembersSurvive /\ Contacts!ImportsAdd]_vars
  <2> SUFFICES ASSUME OfficeInv, [Next]_vars
               PROVE  Calendar!EditsNeverFork /\ Contacts!MembersSurvive /\ Contacts!ImportsAdd
    OBVIOUS
  <2>1. Calendar!EditsNeverFork
    BY OfficeAssumption, EditsReach, StepOfOne DEF OfficeAssumption, OfficeInv
  <2>2. Contacts!MembersSurvive /\ Contacts!ImportsAdd
    BY OfficeAssumption, MembersAreKept, ImportsKeepCards, StepOfOne DEF OfficeAssumption, OfficeInv
  <2>3. QED
    BY <2>1, <2>2
<1>2. QED
  BY <1>1, OfficeInvariant, PTL DEF Spec, GroupwareIsKept
=============================================================================
