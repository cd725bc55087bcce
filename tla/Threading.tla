------------------------------ MODULE Threading ------------------------------
(* Conversation threads of a folder (handlers/api/threading.go) over the      *)
(* durable header cache (handlers/api/threadstore.go), as the folder listing  *)
(* of handlers/web/email.go asks for them.  A request keeps the headers of    *)
(* the page it read, adds every header kept earlier for that folder, and      *)
(* links the union one message at a time, newest page first, the cached rest  *)
(* in the order a Go map happens to give.                                     *)
EXTENDS Naturals, FiniteSets, Sequences, Functions

CONSTANTS Accounts,      \* mailboxes of one user
          Uids,          \* message numbers: each mailbox counts on its own
          MessageIds,    \* Message-ID values
          Headers,       \* headers a message can have, see HeadersAssumption
          Subjects,      \* normalized subjects
          None,          \* no Message-ID, In-Reply-To or subject
          Page,          \* messages a listing reads of each mailbox
          MaxMail,       \* bound on messages that ever arrive
          MaxRequests,   \* bound on listings
          MaxFaults      \* bound on failing cache operations

HeadersAssumption ==
    /\ \A h \in Headers :
          /\ DOMAIN h = {"id", "refs", "irt", "subject"}
          /\ {h.id, h.irt} \subseteq MessageIds \cup {None}
          /\ h.refs \in Seq(MessageIds)
          /\ h.subject \in Subjects \cup {None}
    /\ None \notin MessageIds \cup Subjects
    /\ IsFiniteSet(Accounts) /\ IsFiniteSet(Uids) /\ IsFiniteSet(MessageIds)
    /\ Uids \subseteq Nat
    /\ MessageIds \cap ({<<>>} \cup (Accounts \X Uids)) = {}
    /\ {Page, MaxMail, MaxRequests, MaxFaults} \subseteq Nat

VARIABLES header,     \* message -> its header, or NoHeader before it arrives
          mailbox,    \* the messages that are in their mailbox now
          kept,       \* cache namespace -> number -> the message whose header is kept, or NoMail
          phase,      \* idle, store, load, link, answer
          space,      \* namespace of the request
          page,       \* messages the request read
          todo,       \* messages still to link
          linked,     \* messages linked so far
          holder,     \* container -> the message it holds, or NoMail
          parent,     \* container -> its parent, or NoParent
          threads,    \* the answer: sets of messages
          arrived, asked, faults

vars == <<header, mailbox, kept, phase, space, page, todo, linked, holder, parent, threads,
          arrived, asked, faults>>
request == <<phase, space, page, todo, linked, holder, parent, threads>>

Mail == Accounts \X Uids
NoMail == <<>>
NoHeader == [id |-> None]
NoParent == <<>>
Uid(m) == m[2]

\* The folder has one namespace per user; the unified inbox has its own.
Spaces == {"folder", "unified"}

\* A container is named by its Message-ID; one without is named by its message.
Containers == MessageIds \cup Mail
Named(m) == IF header[m].id = None THEN m ELSE header[m].id

(* ------------------------------- linking -------------------------------- *)

\* The references of a message, its In-Reply-To last unless it is there already.
Chain(h) == IF h.irt = None \/ \E i \in DOMAIN h.refs : h.refs[i] = h.irt
            THEN h.refs ELSE Append(h.refs, h.irt)

\* hasAncestor(c, p): p is above c.
Above(up, c) ==
    LET climb[n \in 0 .. Cardinality(Containers)] ==
            IF n = 0 THEN {c} ELSE {up[x] : x \in climb[n - 1] \ {NoParent}}
    IN  (UNION {climb[n] : n \in 1 .. Cardinality(Containers)}) \ {NoParent}

MayLinkAny(up, p, c) == up[c] = NoParent /\ c # p
MayLink(up, p, c) ==
    /\ up[c] = NoParent
    /\ c # p
    /\ c \notin Above(up, p)

Put(up, p, c) == IF MayLink(up, p, c) THEN [up EXCEPT ![c] = p] ELSE up

\* The chain hangs each reference under the one before it, the message under the last.
Hang(up, path) ==
    LET links[n \in 0 .. Len(path) - 1] ==
            IF n = 0 THEN up ELSE Put(links[n - 1], path[n], path[n + 1])
    IN  links[Len(path) - 1]
LinksOfRefs(up, m) == Hang(up, Append(header[m].refs, Named(m)))
LinksOf(up, m) == Hang(up, Append(Chain(header[m]), Named(m)))

(* ------------------------------- grouping ------------------------------- *)

\* The containers that exist for the union: every id mentioned, and the anonymous messages.
Made == UNION {{Named(m)} \cup Range(Chain(header[m])) : m \in linked}
Roots == {c \in Made : parent[c] = NoParent}

\* collectMessages: the messages of the tree under a root.
Tree(r) == {holder[c] : c \in {x \in Made : x = r \/ r \in Above(parent, x)}} \ {NoMail}

\* A root without a message takes the subject of a message below it (which one depends on the
\* order of its children).
SubjectsOf(r) ==
    IF holder[r] # NoMail THEN {header[holder[r]].subject}
    ELSE LET below == {header[m].subject : m \in Tree(r)} \ {None}
         IN  IF below = {} THEN {None} ELSE below

\* groupBySubject: roots with the same subject become one thread; no subject, no grouping.
Grouped(subject) ==
    {UNION {Tree(q) : q \in {x \in Roots : x = r \/ (subject[x] = subject[r] /\ subject[r] # None)}}
        : r \in Roots} \ {{}}

(* -------------------------------- mail ---------------------------------- *)

Init ==
    /\ header = [m \in Mail |-> NoHeader] /\ mailbox = {}
    /\ kept = [s \in Spaces |-> [u \in Uids |-> NoMail]]
    /\ phase = "idle" /\ space = "folder" /\ page = {} /\ todo = {} /\ linked = {}
    /\ holder = [c \in Containers |-> NoMail] /\ parent = [c \in Containers |-> NoParent]
    /\ threads = {}
    /\ arrived = 0 /\ asked = 0 /\ faults = 0

Arrive(m, h) ==
    /\ phase = "idle" /\ arrived < MaxMail
    /\ header[m] = NoHeader
    /\ \A n \in Mail : n[1] = m[1] /\ header[n] # NoHeader => Uid(n) < Uid(m)
    /\ header' = [header EXCEPT ![m] = h]
    /\ mailbox' = mailbox \cup {m}
    /\ arrived' = arrived + 1
    /\ UNCHANGED <<kept, request, asked, faults>>

Leave(m) ==
    /\ phase = "idle" /\ m \in mailbox
    /\ mailbox' = mailbox \ {m}
    /\ UNCHANGED <<header, kept, request, arrived, asked, faults>>

(* ------------------------------ a listing ------------------------------- *)

\* The newest messages of the mailboxes it shows.
Newest(boxes) ==
    {m \in mailbox : /\ m[1] \in boxes
                     /\ Cardinality({n \in mailbox : n[1] = m[1] /\ Uid(n) > Uid(m)}) < Page}

\* HandleFolder, HandleFolderEmails: one mailbox, or all of them in the unified inbox.
Ask(boxes) ==
    /\ phase = "idle" /\ asked < MaxRequests
    /\ Cardinality(boxes) = 1 \/ boxes = Accounts
    /\ asked' = asked + 1
    /\ phase' = "store"
    /\ space' = IF Cardinality(boxes) = 1 THEN "folder" ELSE "unified"
    /\ page' = Newest(boxes)
    /\ todo' = {} /\ linked' = {} /\ threads' = {}
    /\ holder' = [c \in Containers |-> NoMail]
    /\ parent' = [c \in Containers |-> NoParent]
    /\ UNCHANGED <<header, mailbox, kept, arrived, faults>>

\* The headers of the page are written one by one; a failure ends that, not the request.  Two
\* messages with one number leave the header written last.
KeepHeaders(written) ==
    /\ phase = "store"
    /\ written # page => faults < MaxFaults
    /\ faults' = IF written = page THEN faults ELSE faults + 1
    /\ kept' \in {[kept EXCEPT ![space] = k] : k \in
          {k \in [Uids -> Mail \cup {NoMail}] :
              \A u \in Uids : LET of == {m \in written : Uid(m) = u}
                              IN  IF of = {} THEN k[u] = kept[space][u] ELSE k[u] \in of}}
    /\ phase' = "load"
    /\ UNCHANGED <<header, mailbox, space, page, todo, linked, holder, parent, threads,
                   arrived, asked>>

\* The cached headers whose number the page does not have join it.
Cached == {kept[space][u] : u \in Uids \ {Uid(m) : m \in page}} \ {NoMail}
Load ==
    /\ phase = "load"
    /\ \/ todo' = page \cup Cached /\ UNCHANGED faults
       \/ /\ faults < MaxFaults /\ faults' = faults + 1
          /\ todo' = page
    /\ phase' = "link"
    /\ UNCHANGED <<header, mailbox, kept, space, page, linked, holder, parent, threads,
                   arrived, asked>>

\* One turn of the loop of ThreadMessages.  A second message with the same Message-ID only adds
\* its references: the container keeps the first.
LinkMessage(m) ==
    /\ phase = "link" /\ m \in todo
    /\ m \in page \/ todo \cap page = {}
    /\ holder' = IF holder[Named(m)] = NoMail THEN [holder EXCEPT ![Named(m)] = m] ELSE holder
    /\ parent' = LinksOf(parent, m)
    /\ todo' = todo \ {m}
    /\ linked' = linked \cup {m}
    /\ UNCHANGED <<header, mailbox, kept, phase, space, page, threads, arrived, asked, faults>>

Answer ==
    /\ phase = "link" /\ todo = {}
    /\ \E subject \in [Roots -> Subjects \cup {None}] :
          /\ \A r \in Roots : subject[r] \in SubjectsOf(r)
          /\ threads' = Grouped(subject)
    /\ phase' = "answer"
    /\ UNCHANGED <<header, mailbox, kept, space, page, todo, linked, holder, parent,
                   arrived, asked, faults>>

Return ==
    /\ phase = "answer"
    /\ phase' = "idle" /\ page' = {} /\ linked' = {} /\ threads' = {}
    /\ holder' = [c \in Containers |-> NoMail]
    /\ parent' = [c \in Containers |-> NoParent]
    /\ UNCHANGED <<header, mailbox, kept, space, todo, arrived, asked, faults>>

Listing ==
    \/ \E boxes \in SUBSET Accounts : Ask(boxes)
    \/ \E written \in SUBSET page : KeepHeaders(written)
    \/ Load \/ Answer \/ Return
    \/ \E m \in todo : LinkMessage(m)

Next ==
    \/ \E m \in Mail, h \in Headers : Arrive(m, h)
    \/ \E m \in mailbox : Leave(m)
    \/ Listing

Spec == Init /\ [][Next]_vars

(* ------------------------------ properties ------------------------------ *)

\* Every variable keeps to its values.
TypeOK ==
    /\ \A m \in Mail : header[m] \in Headers \cup {NoHeader}
    /\ mailbox \cup page \cup todo \cup linked \subseteq {m \in Mail : header[m] # NoHeader}
    /\ \A s \in Spaces, u \in Uids : kept[s][u] \in Mail \cup {NoMail}
    /\ phase \in {"idle", "store", "load", "link", "answer"} /\ space \in Spaces
    /\ holder \in [Containers -> Mail \cup {NoMail}]
    /\ parent \in [Containers -> Containers \cup {NoParent}]
    /\ threads \subseteq SUBSET linked
    /\ {arrived, asked, faults} \subseteq Nat

\* The reference chains of the messages of a request tell of one tree of replies: each id has at
\* most one id before it, and no id comes before itself.
Told == UNION {LET path == Append(Chain(header[m]), Named(m))
               IN  {<<path[i], path[i + 1]>> : i \in 1 .. Len(path) - 1} : m \in linked}
Truthful ==
    LET up == [c \in Containers |-> IF \E e \in Told : e[2] = c
                                    THEN (CHOOSE e \in Told : e[2] = c)[1] ELSE NoParent]
    IN  /\ \A d, e \in Told : d[2] = e[2] => d = e
        /\ \A c \in Containers : c \notin Above(up, c)

\* Whatever the headers claim, no container is above itself: the walks over the trees end.
Acyclic == \A c \in Containers : parent[c] # NoParent => c \notin Above(parent, c)

\* A message that was linked is in exactly one thread, or another one with the same Message-ID
\* is there in its place: linking, pruning and grouping lose nothing and show nothing twice.
ShownOnce ==
    phase = "answer" =>
        \A m \in linked :
            \/ Cardinality({t \in threads : m \in t}) = 1
            \/ \E n \in linked \ {m} : /\ header[n].id = header[m].id /\ header[n].id # None
                                       /\ Cardinality({t \in threads : n \in t}) = 1

\* When the headers are truthful a reply shares its thread with every message it refers to, in
\* whatever order they were linked, and however many of the messages between are missing.
RepliesTogether ==
    phase = "answer" /\ Truthful =>
        \A t \in threads : \A m \in t, n \in linked :
            header[n].id \in Range(Chain(header[m])) /\ n \in UNION threads => n \in t

\* Threads are sound: acyclic, complete and, for truthful headers, whole.
ThreadsAreSound == Acyclic /\ ShownOnce /\ RepliesTogether

\* "NewThreadStore(kv, account)": the threads of one mailbox hold its own mail only.
OwnMailOnly ==
    phase = "answer" /\ page # {} /\ space = "folder" =>
        \A m, n \in UNION threads : m[1] = n[1]
=============================================================================
