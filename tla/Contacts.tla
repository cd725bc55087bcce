------------------------------- MODULE Contacts -------------------------------
(* One account's CardDAV address books as the JSON API edits them (handlers/  *)
(* jsonapi/contacts*.go over handlers/api/contacts_dav.go).  A group has no   *)
(* record of its own: it exists while some card carries it, and a new group   *)
(* is a hidden placeholder card.  Renaming or deleting a group lists every    *)
(* card and rewrites the members one PUT at a time, without preconditions,    *)
(* while other requests edit the same cards.                                  *)
EXTENDS Naturals, FiniteSets

CONSTANTS Groups,        \* names of groups
          Books,         \* the account's address books
          First,         \* the book that new cards go to
          Handlers,      \* requests served at the same time
          MaxCards,      \* bound on cards ever made
          MaxRequests,   \* bound on requests
          MaxFaults      \* bound on failing calls to the server

ContactsAssumption ==
    /\ First \in Books /\ IsFiniteSet(Books) /\ IsFiniteSet(Groups)
    /\ {MaxRequests, MaxFaults} \subseteq Nat /\ MaxCards \in Nat \ {0}

VARIABLES cards,    \* path -> card, or NoCard
          req,      \* what each handler is doing
          made,     \* paths used so far: the server never gives one twice
          asked, faults

vars == <<cards, req, made, asked, faults>>

Ids == 1 .. MaxCards
NoCard == [kind |-> "none"]
Drop == "drop"     \* no new name: the group is deleted
Idle == [op |-> "idle"]

\* text stands for all the fields the program knows; foreign tells whether the card also has
\* properties it does not know; text 0 is the text of a placeholder.
Star == "__vulos-starred__"   \* the reserved category of a favourite
Card == [kind : {"person", "placeholder"}, book : Books, categories : SUBSET (Groups \cup {Star}),
         text : 0 .. MaxRequests, foreign : BOOLEAN]
Exists(i) == cards[i] # NoCard

TypeOK ==
    /\ cards \in [Ids -> Card \cup {NoCard}]
    /\ \A h \in Handlers : req[h].op \in {"idle", "save", "delete", "create group", "regroup", "import"}
    /\ made \in 0 .. MaxCards /\ asked \in 0 .. MaxRequests /\ faults \in 0 .. MaxFaults

\* The first card comes from another client, with properties this program does not know.
Init ==
    /\ \E gs \in SUBSET Groups, b \in Books :
         cards = [i \in Ids |-> IF i = 1 THEN [kind |-> "person", book |-> b, text |-> 0,
                                               categories |-> gs \cup {Star}, foreign |-> TRUE]
                                ELSE NoCard]
    /\ req = [h \in Handlers |-> Idle]
    /\ made = 1 /\ asked = 0 /\ faults = 0

-----------------------------------------------------------------------------
(* What crosses the wire.                                                     *)

\* contactFromCard: the star is a category that no group can be.
Decoded(card) == [kind |-> card.kind, book |-> card.book, text |-> card.text,
                  groups |-> card.categories \ {Star}, starred |-> Star \in card.categories]

\* cardFromContact: the card is built from the fields that the program knows, and no others.
EncodedUnstarred(contact) == [kind |-> contact.kind, book |-> contact.book, text |-> contact.text,
                              categories |-> contact.groups, foreign |-> FALSE]   \* a mutated form
Encoded(contact) == [kind |-> contact.kind, book |-> contact.book, text |-> contact.text,
                     categories |-> contact.groups \cup (IF contact.starred THEN {Star} ELSE {}),
                     foreign |-> FALSE]

\* listContacts: an address book whose query fails is passed over.
Listing(down) == {i \in Ids : Exists(i) /\ cards[i].book \notin down}
Listed(down) == [i \in Listing(down) |-> Decoded(cards[i])]

\* The books that do not answer one listing.
Outage == {down \in SUBSET Books : faults + Cardinality(down) <= MaxFaults}

People(listing) == {i \in DOMAIN listing : listing[i].kind = "person"}

-----------------------------------------------------------------------------
(* Requests.                                                                  *)

Take(h, r) ==
    /\ req[h] = Idle /\ asked < MaxRequests
    /\ asked' = asked + 1
    /\ req' = [req EXCEPT ![h] = r]
    /\ UNCHANGED <<cards, made, faults>>

\* handleCreateContact mints the uid and the path whatever the body says.
NewCard(gs, starred) == [kind |-> "person", book |-> First, groups |-> gs, starred |-> starred,
                         text |-> asked + 1]
AskCreate(h) == \E gs \in SUBSET Groups, starred \in BOOLEAN :
    Take(h, [op |-> "save", pc |-> "put", path |-> 0, card |-> NewCard(gs, starred)])

\* handleUpdateContact: the whole card, as the client saw it and changed it.
AskUpdate(h) == \E i \in People(Listed({})), gs \in SUBSET Groups :
    Take(h, [op |-> "save", pc |-> "put", path |-> i,
             card |-> [Decoded(cards[i]) EXCEPT !.groups = gs, !.text = asked + 1]])

\* handleDeleteContact, with the path of the card or, without it, a search for its uid.
AskDelete(h) == \E i \in People(Listed({})), pc \in {"find", "remove"} :
    Take(h, [op |-> "delete", pc |-> pc, path |-> i])

AskCreateGroup(h) == \E g \in Groups :
    Take(h, [op |-> "create group", pc |-> "list", group |-> g])

\* handleRenameGroup and handleDeleteGroup.
AskRegroup(h) == \E g \in Groups, new \in Groups \cup {Drop} :
    Take(h, [op |-> "regroup", pc |-> "list", group |-> g, to |-> new])

\* handleImportContacts: the rows of the file that can be read and have a name or an address.
AskImport(h) == \E n \in 1 .. 2, gs \in SUBSET Groups :
    Take(h, [op |-> "import", pc |-> "put", left |-> n, card |-> NewCard(gs, FALSE)])

-----------------------------------------------------------------------------
(* The steps of a request.                                                    *)

End(h) == req' = [req EXCEPT ![h] = Idle]

\* A new card gets a path nothing ever had.
PutNew(card) ==
    /\ made < MaxCards
    /\ made' = made + 1
    /\ cards' = [cards EXCEPT ![made + 1] = Encoded(card)]

\* putContact: the object at the path is replaced; one that was deleted is made again.
SavePut(h) ==
    /\ req[h].op = "save" /\ req[h].pc = "put"
    /\ IF req[h].path = 0 THEN PutNew(req[h].card)
       ELSE /\ cards' = [cards EXCEPT ![req[h].path] = Encoded(req[h].card)]
            /\ made' = made
    /\ End(h)
    /\ UNCHANGED <<asked, faults>>

\* findContactPath passes over the books that fail: without the card it is an error.
DeleteFind(h) == \E down \in Outage :
    /\ req[h].op = "delete" /\ req[h].pc = "find"
    /\ faults' = faults + Cardinality(down)
    /\ IF req[h].path \in Listing(down) THEN req' = [req EXCEPT ![h].pc = "remove"] ELSE End(h)
    /\ UNCHANGED <<cards, made, asked>>

\* deleteContact: whatever lies at the path is removed.
DeleteRemove(h) ==
    /\ req[h].op = "delete" /\ req[h].pc = "remove"
    /\ cards' = [cards EXCEPT ![req[h].path] = NoCard]
    /\ End(h)
    /\ UNCHANGED <<made, asked, faults>>

\* Where an imported card goes: a fresh object, never one the file names.
ImportPathAny == {made + 1, 1}   \* a mutated form
ImportPath == {made + 1}

\* A row that the server refuses is counted as skipped.
ImportPut(h) ==
    LET left == IF req[h].left = 1 THEN Idle ELSE [req[h] EXCEPT !.left = @ - 1]
    IN  /\ req[h].op = "import"
        /\ req' = [req EXCEPT ![h] = left]
        /\ \/ /\ made < MaxCards
              /\ \E i \in ImportPath :
                   /\ made' = IF i = made + 1 THEN i ELSE made
                   /\ cards' = [cards EXCEPT ![i] = Encoded(req[h].card)]
              /\ faults' = faults
           \/ faults < MaxFaults /\ faults' = faults + 1 /\ UNCHANGED <<cards, made>>
        /\ asked' = asked

\* handleCreateGroup: a group that some card of the listing carries is refused.
GroupList(h) == \E down \in Outage :
    /\ req[h].op = "create group" /\ req[h].pc = "list"
    /\ faults' = faults + Cardinality(down)
    /\ IF \E i \in Listing(down) : req[h].group \in cards[i].categories THEN End(h)
       ELSE req' = [req EXCEPT ![h].pc = "put"]
    /\ UNCHANGED <<cards, made, asked>>

Placeholder(g) == [kind |-> "placeholder", book |-> First, groups |-> {g}, starred |-> FALSE,
                   text |-> 0]

GroupPut(h) ==
    /\ req[h].op = "create group" /\ req[h].pc = "put"
    /\ PutNew(Placeholder(req[h].group))
    /\ End(h)
    /\ UNCHANGED <<asked, faults>>

\* rewriteGroup: the members among the cards listed now are what is rewritten from here on.
Members(listing, g) == {i \in DOMAIN listing : g \in listing[i].groups}

RegroupList(h) == \E down \in Outage :
    LET listing == Listed(down)
    IN  /\ req[h].op = "regroup" /\ req[h].pc = "list"
        /\ faults' = faults + Cardinality(down)
        /\ IF Members(listing, req[h].group) = {} THEN End(h)
           ELSE req' = [req EXCEPT ![h] = [op |-> "regroup", pc |-> "walk", group |-> req[h].group,
                                           to |-> req[h].to, listing |-> listing,
                                           left |-> Members(listing, req[h].group)]]
        /\ UNCHANGED <<cards, made, asked>>

\* The groups of a member afterwards.
RenamedAll(gs, old, new) == IF new = Drop THEN {} ELSE {new}   \* a mutated form
Renamed(gs, old, new) == (gs \ {old}) \cup (IF new = Drop THEN {} ELSE {new})

\* A placeholder that stands for no group any more goes; a person stays, without groups.
DisposableAny(card, gs) == gs = {}   \* a mutated form
Disposable(card, gs) == card.kind = "placeholder" /\ gs = {}

WalkOn(h, i) ==
    req' = [req EXCEPT ![h] = IF req[h].left = {i} THEN Idle ELSE [req[h] EXCEPT !.left = @ \ {i}]]

\* The card is written back as it was listed, but for its groups.
RegroupPut(h) == 
    /\ req[h].op = "regroup" /\ req[h].pc = "walk"
    /\ \E i \in req[h].left :
         LET card == req[h].listing[i]
             gs == Renamed(card.groups, req[h].group, req[h].to)
         IN  /\ cards' = [cards EXCEPT ![i] = IF Disposable(card, gs) THEN NoCard
                                              ELSE Encoded([card EXCEPT !.groups = gs])]
             /\ WalkOn(h, i)
    /\ UNCHANGED <<made, asked, faults>>

\* The DELETE of a placeholder may fail unnoticed; a failed PUT ends the walk with an error.
RegroupFails(h) ==
    /\ req[h].op = "regroup" /\ req[h].pc = "walk"
    /\ faults < MaxFaults
    /\ faults' = faults + 1
    /\ \E i \in req[h].left :
         LET card == req[h].listing[i]
         IN  IF Disposable(card, Renamed(card.groups, req[h].group, req[h].to)) THEN WalkOn(h, i)
             ELSE End(h)
    /\ UNCHANGED <<cards, made, asked>>

\* Any other call that fails ends its request with an error and nothing changed.
CallFails(h) ==
    /\ req[h].op \in {"save", "delete", "create group"}
    /\ faults < MaxFaults
    /\ faults' = faults + 1
    /\ End(h)
    /\ UNCHANGED <<cards, made, asked>>

Serve(h) ==
    \/ AskCreate(h) \/ AskUpdate(h) \/ AskDelete(h) \/ AskCreateGroup(h) \/ AskRegroup(h) \/ AskImport(h)
    \/ SavePut(h) \/ DeleteFind(h) \/ DeleteRemove(h) \/ ImportPut(h) \/ GroupList(h) \/ GroupPut(h)
    \/ RegroupList(h) \/ RegroupPut(h) \/ RegroupFails(h) \/ CallFails(h)

Next == \E h \in Handlers : Serve(h)

Spec == Init /\ [][Next]_vars

-----------------------------------------------------------------------------
\* The step is handler h's rewrite of card i, which is still as it was listed.
Rewrites(h, i) ==
    /\ req[h].op = "regroup" /\ req[h].pc = "walk" /\ req'[h] # req[h] /\ i \in req[h].left
    /\ cards'[i] # cards[i]

Untouched(h, i) ==
    /\ IF Exists(i) THEN Decoded(cards[i]) = req[h].listing[i] ELSE FALSE
    /\ cards'[i] # NoCard

\* Renaming or deleting a group never removes a person, whatever other requests did since the
\* cards were listed, and a card nobody touched meanwhile keeps its star, its text and its other
\* groups (rewriteGroup).
MembersSurvive ==
    \A h \in Handlers, i \in Ids : Rewrites(h, i) =>
       /\ req[h].listing[i].kind = "person" => cards'[i] # NoCard
       /\ Untouched(h, i) => /\ cards'[i].text = cards[i].text
                             /\ cards[i].categories \ {req[h].group} \subseteq cards'[i].categories

\* An import only adds cards: those there were stay as they are (handleImportContacts).
ImportsAdd ==
    \A h \in Handlers : (req[h].op = "import" /\ req'[h] # req[h]) =>
       \A i \in Ids : Exists(i) => cards'[i] = cards[i]

\* What the comment on handleDeleteGroup promises (contacts_groups.go:165-166): only the membership
\* is dropped.  A card of another client also loses the properties this program does not know.
OnlyMembershipDropped ==
    [][\A h \in Handlers, i \in Ids : Rewrites(h, i) /\ Untouched(h, i) =>
          cards'[i].foreign = cards[i].foreign]_vars
=============================================================================
