---------------------------- MODULE MailboxProofs ----------------------------
(* What a user meets around the mailbox, proved for all instances: the accounts  *)
(* and the loops that synchronize them, the event stream of the tabs, the drafts *)
(* of the compose windows and the conversations.  The components share no        *)
(* variable, so each has an invariant of its own, named after it; the last part  *)
(* puts them together, with that of the threads (ThreadingProofs).               *)
EXTENDS ThreadingProofs

\* A count in a component is a count.
LEMMA SameCount ==
  \A S : Loops!Cardinality(S) = Cardinality(S) /\ (Loops!IsFiniteSet(S) <=> IsFiniteSet(S))
BY DEF Cardinality, IsFiniteSet, Loops!Cardinality, Loops!IsFiniteSet

(* The accounts and their loops (AccountLoops) *)

\* What is left of a request. What is written of a mailbox was found or read just before; after that the
\* default is set, unless the user has one.
Statements == Loops!Statements
Left(list) ==
  /\ list \in Seq(Statements)
  /\ \A k \in DOMAIN list :
       /\ list[k] = "upsert" => k + 2 <= Len(list) /\ list[k + 1] = "count" /\ list[k + 2] = "default"
       /\ list[k] = "count" => k + 1 <= Len(list) /\ list[k + 1] = "default"
       /\ list[k] = "find" => k = 1
       /\ list[k] = "upsert" => k = 1 \/ list[k - 1] \in {"find", "read"}

\* The handler is to run this statement next.
NextIs(q, s) == q.todo # <<>> /\ q.todo[1] = s
AccountRequest(q, n) ==
  /\ q = [todo |-> q.todo, id |-> q.id, box |-> q.box, default |-> q.default, loop |-> q.loop]
  /\ Left(q.todo) /\ q.id \in 0..MaxAccounts /\ q.default \in BOOLEAN
  /\ q.todo # <<>> => q.todo[1] = "find" \/ q.id \in 1..MaxAccounts
  /\ NextIs(q, "find") \/ NextIs(q, "upsert") => q.box \in Mailboxes
  /\ NextIs(q, "upsert") => q.id <= n

\* A row of the table, and a loop.
AccountRow(r, n) ==
  /\ r = [id |-> r.id, box |-> r.box, default |-> r.default]
  /\ r.id \in 1..n /\ r.box \in Mailboxes /\ r.default \in BOOLEAN
AccountLoop == [id : 1..MaxAccounts, pc : {"pass", "wait", "over"}, stop : BOOLEAN, wake : BOOLEAN]

RowsHeld ==
  /\ IsFiniteSet(rows) /\ used \in 0..MaxAccounts
  /\ \A r \in rows : AccountRow(r, used)
  /\ \A r, s \in rows : r.id = s.id \/ r.box = s.box => r = s
LoopsHeld ==
  /\ loops \in Seq(AccountLoop)
  /\ registry = [i \in 1..MaxAccounts |-> registry[i]]
  /\ \A i \in 1..MaxAccounts : registry[i] \in 0..Len(loops)

\* An identifier stands for one mailbox, in the rows and in the requests that are about to write one.
OneMailbox ==
  /\ \A h \in Handlers, r \in rows : NextIs(handlers[h], "upsert") /\ handlers[h].id = r.id => handlers[h].box = r.box
  /\ \A g, h \in Handlers :
       NextIs(handlers[g], "upsert") /\ NextIs(handlers[h], "upsert") /\ handlers[g].id = handlers[h].id
         => handlers[g].box = handlers[h].box

\* Where there are two defaults somebody is about to set one.
OneDefault == \A r, s \in rows : r.default /\ s.default => r = s
Setting(q) == NextIs(q, "default") \/ (NextIs(q, "count") /\ q.default)
DefaultIsDue == OneDefault \/ \E h \in Handlers : Setting(handlers[h])

RequestsHeld ==
  /\ handlers = [h \in Handlers |-> handlers[h]]
  /\ \A h \in Handlers : AccountRequest(handlers[h], used)

LoopInv == RowsHeld /\ LoopsHeld /\ RequestsHeld /\ OneMailbox /\ DefaultIsDue /\ Loops!NoOrphan

\* The tail of what is left is left.
LEMMA TailLeft ==
  ASSUME NEW list, Left(list), list # <<>>
  PROVE  Left(Tail(list))
<1>1. list \in Seq(Statements) /\ Len(list) \in Nat /\ Len(list) > 0 /\ DOMAIN list = 1..Len(list)
  BY DEF Left
<1>2. Tail(list) \in Seq(Statements) /\ Len(Tail(list)) = Len(list) - 1 /\ DOMAIN Tail(list) = 1..(Len(list) - 1)
      /\ \A k \in 1..(Len(list) - 1) : Tail(list)[k] = list[k + 1]
  BY <1>1
<1>3. ASSUME NEW k \in 1..(Len(list) - 1)
      PROVE  /\ list[k + 1] = "upsert" => k + 3 <= Len(list) /\ list[k + 2] = "count" /\ list[k + 3] = "default"
             /\ list[k + 1] = "count" => k + 2 <= Len(list) /\ list[k + 2] = "default"
             /\ list[k + 1] # "find"
             /\ list[k + 1] = "upsert" => list[k] \in {"find", "read"}
  <2>1. ASSUME NEW j \in DOMAIN list, j = k + 1
        PROVE  /\ list[j] = "upsert" => j + 2 <= Len(list) /\ list[j + 1] = "count" /\ list[j + 2] = "default"
               /\ list[j] = "count" => j + 1 <= Len(list) /\ list[j + 1] = "default"
               /\ list[j] = "find" => j = 1
               /\ list[j] = "upsert" => j = 1 \/ list[j - 1] \in {"find", "read"}
    BY DEF Left
  <2>2. /\ k + 1 \in DOMAIN list /\ k + 1 # 1 /\ (k + 1) - 1 = k /\ (k + 1) + 1 = k + 2 /\ (k + 1) + 2 = k + 3
    BY <1>1
  <2>3. QED
    BY <2>1, <2>2
<1>4. ASSUME NEW k \in DOMAIN Tail(list)
      PROVE  /\ Tail(list)[k] = "upsert" => /\ k + 2 <= Len(Tail(list)) /\ Tail(list)[k + 1] = "count"
                                            /\ Tail(list)[k + 2] = "default"
             /\ Tail(list)[k] = "count" => k + 1 <= Len(Tail(list)) /\ Tail(list)[k + 1] = "default"
             /\ Tail(list)[k] = "find" => k = 1
             /\ Tail(list)[k] = "upsert" => k = 1 \/ Tail(list)[k - 1] \in {"find", "read"}
  <2>1. k \in 1..(Len(list) - 1) /\ Tail(list)[k] = list[k + 1] /\ (k > 1 => Tail(list)[k - 1] = list[k])
    BY <1>1, <1>2
  <2>2. /\ k + 2 <= Len(list) => Tail(list)[k + 1] = list[k + 2]
        /\ k + 3 <= Len(list) => Tail(list)[k + 2] = list[k + 3]
    BY <1>1, <1>2, <2>1
  <2>3. /\ list[k + 1] = "upsert" => k + 3 <= Len(list) /\ list[k + 2] = "count" /\ list[k + 3] = "default"
        /\ list[k + 1] = "count" => k + 2 <= Len(list) /\ list[k + 2] = "default"
        /\ list[k + 1] # "find"
        /\ list[k + 1] = "upsert" => list[k] \in {"find", "read"}
    BY <1>3, <2>1
  <2>4. k \in Int /\ k >= 1 /\ Len(list) \in Int /\ Len(Tail(list)) = Len(list) - 1
    BY <1>1, <1>2, <2>1
  <2>5. Tail(list)[k] = "upsert" => /\ k + 2 <= Len(Tail(list)) /\ Tail(list)[k + 1] = "count"
                                    /\ Tail(list)[k + 2] = "default"
    BY <2>1, <2>2, <2>3, <2>4
  <2>6. Tail(list)[k] = "count" => k + 1 <= Len(Tail(list)) /\ Tail(list)[k + 1] = "default"
    BY <2>1, <2>2, <2>3, <2>4
  <2>7. Tail(list)[k] = "find" => k = 1
    BY <2>1, <2>3
  <2>8. Tail(list)[k] = "upsert" => k = 1 \/ Tail(list)[k - 1] \in {"find", "read"}
    BY <2>1, <2>3, <2>4
  <2>9. QED
    BY <2>5, <2>6, <2>7, <2>8
<1>5. QED
  BY <1>2, <1>4 DEF Left

\* The rest of a request once a statement is done.
LEMMA LeftTail ==
  ASSUME NEW list, Left(list), list # <<>>
  PROVE  /\ Left(Tail(list)) /\ list[1] \in Statements /\ Head(list) = list[1]
         /\ list[1] = "upsert" => Tail(list) # <<>> /\ Tail(list)[1] = "count"
         /\ list[1] = "count" => /\ Tail(list) # <<>> /\ Tail(list)[1] = "default"
                                 /\ Left(Tail(Tail(list)))
         /\ Tail(list) # <<>> => /\ Tail(list)[1] # "find"
                                 /\ Tail(list)[1] = "upsert" => list[1] \in {"find", "read"}
         /\ list[1] = "count" /\ Tail(Tail(list)) # <<>> => Tail(Tail(list))[1] \notin {"find", "upsert"}
<1>1. list \in Seq(Statements) /\ Len(list) \in Nat /\ Len(list) > 0 /\ DOMAIN list = 1..Len(list)
  BY DEF Left
<1>2. Tail(list) \in Seq(Statements) /\ Len(Tail(list)) = Len(list) - 1 /\ DOMAIN Tail(list) = 1..(Len(list) - 1)
      /\ \A k \in 1..(Len(list) - 1) : Tail(list)[k] = list[k + 1]
  BY <1>1
<1>3. Left(Tail(list))
  BY TailLeft
<1>4. /\ list[1] = "count" => Tail(list) # <<>> /\ Tail(list)[1] = "default"
      /\ list[1] = "upsert" => Tail(list) # <<>> /\ Tail(list)[1] = "count"
      /\ Tail(list) # <<>> => /\ Tail(list)[1] # "find"
                              /\ Tail(list)[1] = "upsert" => list[1] \in {"find", "read"}
  <2>1. 1 \in DOMAIN list /\ (2 \in DOMAIN list <=> 2 <= Len(list))
    BY <1>1
  <2>2. /\ list[1] = "count" => 2 <= Len(list) /\ list[2] = "default"
        /\ list[1] = "upsert" => 2 <= Len(list) /\ list[2] = "count"
        /\ 2 <= Len(list) => list[2] # "find" /\ (list[2] = "upsert" => list[1] \in {"find", "read"})
    <3>1. ASSUME NEW k \in DOMAIN list, k = 1
          PROVE  /\ list[k] = "count" => k + 1 <= Len(list) /\ list[k + 1] = "default"
                 /\ list[k] = "upsert" => k + 2 <= Len(list) /\ list[k + 1] = "count"
      BY DEF Left
    <3>2. ASSUME NEW k \in DOMAIN list, k = 2
          PROVE  list[k] # "find" /\ (list[k] = "upsert" => list[k - 1] \in {"find", "read"})
      <4>1. /\ list[k] = "find" => k = 1
            /\ list[k] = "upsert" => k = 1 \/ list[k - 1] \in {"find", "read"}
        BY DEF Left
      <4>2. QED
        BY <3>2, <4>1
    <3>3. QED
      BY <1>1, <2>1, <3>1, <3>2
  <2>3. /\ Tail(list) # <<>> <=> 2 <= Len(list)
        /\ 2 <= Len(list) => Tail(list)[1] = list[2]
    <3>1. Tail(list) = <<>> <=> Len(Tail(list)) = 0
      BY <1>2, EmptySeq
    <3>2. QED
      BY <1>1, <1>2, <3>1
  <2>4. QED
    BY <2>2, <2>3
<1>5. ASSUME NEW t, t = Tail(list), list[1] = "count"
      PROVE  Left(Tail(t)) /\ (Tail(t) # <<>> => Tail(t)[1] \notin {"find", "upsert"})
  <2>1. t \in Seq(Statements) /\ Len(t) \in Nat /\ Len(t) > 0 /\ DOMAIN t = 1..Len(t) /\ Left(t)
    BY <1>2, <1>3, <1>4, <1>5
  <2>2. Tail(t) \in Seq(Statements) /\ Len(Tail(t)) = Len(t) - 1 /\ DOMAIN Tail(t) = 1..(Len(t) - 1)
        /\ \A k \in 1..(Len(t) - 1) : Tail(t)[k] = t[k + 1]
    BY <2>1
  <2>4. Left(Tail(t))
    BY <2>1, TailLeft
  <2>5. Tail(t) # <<>> => 2 \in DOMAIN t /\ Tail(t)[1] = t[2] /\ t[1] = "default"
    BY <1>4, <1>5, <2>1, <2>2
  <2>6. ASSUME NEW k \in DOMAIN t, k = 2
        PROVE  /\ t[k] = "find" => k = 1
               /\ t[k] = "upsert" => k = 1 \/ t[k - 1] \in {"find", "read"}
    BY <2>1 DEF Left
  <2>7. QED
    BY <2>4, <2>5, <2>6
<1>6. list[1] \in Statements /\ Head(list) = list[1]
  BY <1>1
<1>7. QED
  BY <1>3, <1>4, <1>5, <1>6

\* A list list that begins with another statement.
LEMMA LeftWith ==
  ASSUME NEW list, Left(list), list # <<>> => list[1] \notin {"find", "upsert"}, NEW s \in {"wake", "send", "start"}
  PROVE  Left(<<s>> \o list) /\ <<s>> \o list # <<>> /\ (<<s>> \o list)[1] = s
<1>1. list \in Seq(Statements) /\ Len(list) \in Nat /\ s \in Statements
  BY DEF Left, Statements, Loops!Statements
<1>2. <<s>> \o list \in Seq(Statements) /\ Len(<<s>> \o list) = Len(list) + 1
      /\ DOMAIN (<<s>> \o list) = 1..(Len(list) + 1)
      /\ (<<s>> \o list)[1] = s /\ \A k \in 2..(Len(list) + 1) : (<<s>> \o list)[k] = list[k - 1]
  BY <1>1
<1>3. \A k \in 2..(Len(list) + 1) : k - 1 \in DOMAIN list
  BY <1>1
<1>4. ASSUME NEW k \in DOMAIN (<<s>> \o list)
      PROVE  /\ (<<s>> \o list)[k] = "upsert" => /\ k + 2 <= Len(<<s>> \o list) /\ (<<s>> \o list)[k + 1] = "count"
                                                /\ (<<s>> \o list)[k + 2] = "default"
             /\ (<<s>> \o list)[k] = "count" => k + 1 <= Len(<<s>> \o list) /\ (<<s>> \o list)[k + 1] = "default"
             /\ (<<s>> \o list)[k] = "find" => k = 1
             /\ (<<s>> \o list)[k] = "upsert" => k = 1 \/ (<<s>> \o list)[k - 1] \in {"find", "read"}
  <2>1. CASE k = 1
    BY <1>2, <2>1
  <2>2. CASE k # 1
    <3>1. k \in 2..(Len(list) + 1) /\ k - 1 \in DOMAIN list /\ (<<s>> \o list)[k] = list[k - 1] /\ DOMAIN list = 1..Len(list)
      BY <1>1, <1>2, <2>2
    <3>2. /\ list[k - 1] = "upsert" => k + 1 <= Len(list) /\ list[k] = "count" /\ list[k + 1] = "default"
          /\ list[k - 1] = "count" => k <= Len(list) /\ list[k] = "default"
          /\ list[k - 1] = "find" => k - 1 = 1 /\ list # <<>>
          /\ list[k - 1] = "upsert" => k > 2 /\ list[k - 2] \in {"find", "read"}
      <4>1. ASSUME NEW j \in DOMAIN list, j = k - 1
            PROVE  /\ list[j] = "upsert" => j + 2 <= Len(list) /\ list[j + 1] = "count" /\ list[j + 2] = "default"
                   /\ list[j] = "count" => j + 1 <= Len(list) /\ list[j + 1] = "default"
                   /\ list[j] = "find" => j = 1
                   /\ list[j] = "upsert" => j = 1 \/ list[j - 1] \in {"find", "read"}
        BY DEF Left
      <4>2. k - 1 \in DOMAIN list /\ k \in Int /\ (k - 1) + 2 = k + 1 /\ (k - 1) + 1 = k /\ (k - 1) - 1 = k - 2
            /\ list # <<>> /\ k >= 2
        BY <1>1, <3>1
      <4>3. QED
        BY <4>1, <4>2, <1>1, <3>1
    <3>3. /\ k <= Len(list) => (<<s>> \o list)[k + 1] = list[k]
          /\ k + 1 <= Len(list) => (<<s>> \o list)[k + 2] = list[k + 1]
          /\ k > 2 => (<<s>> \o list)[k - 1] = list[k - 2]
      BY <1>1, <1>2, <3>1
    <3>4. QED
      BY <1>1, <1>2, <3>1, <3>2, <3>3
  <2>3. QED
    BY <2>1, <2>2
<1>5. QED
  BY <1>2, <1>4 DEF Left

\* The statement that a handler runs, and what is left of its request then.
LEMMA StatementRuns ==
  ASSUME RequestsHeld, NEW h \in Handlers, NEW s, Loops!At(h, s)
  PROVE  /\ NextIs(handlers[h], s) /\ AccountRequest(handlers[h], used) /\ Left(Tail(handlers[h].todo))
         /\ s # "find" => handlers[h].id \in 1..MaxAccounts
         /\ s = "upsert" => Tail(handlers[h].todo) # <<>> /\ Tail(handlers[h].todo)[1] = "count"
         /\ s = "count" => /\ Tail(handlers[h].todo) # <<>> /\ Tail(handlers[h].todo)[1] = "default"
                           /\ Left(Tail(Tail(handlers[h].todo)))
         /\ Tail(handlers[h].todo) # <<>> => /\ Tail(handlers[h].todo)[1] # "find"
                                             /\ Tail(handlers[h].todo)[1] = "upsert" => s \in {"find", "read"}
         /\ s = "count" /\ Tail(Tail(handlers[h].todo)) # <<>> =>
              Tail(Tail(handlers[h].todo))[1] \notin {"find", "upsert"}
<1>1. AccountRequest(handlers[h], used)
  BY DEF RequestsHeld
<1>2. Left(handlers[h].todo) /\ handlers[h].todo # <<>> /\ Head(handlers[h].todo) = s
  BY <1>1 DEF AccountRequest, Loops!At
<1>3. NextIs(handlers[h], s)
  BY <1>2, LeftTail DEF NextIs
<1>4. QED
  BY <1>1, <1>2, <1>3, LeftTail DEF AccountRequest, NextIs

\* One handler goes on.
LEMMA HandlerGoes ==
  ASSUME RequestsHeld, used \in Nat, used' \in Nat, used <= used', NEW h \in Handlers, NEW q, AccountRequest(q, used'),
         handlers' = [handlers EXCEPT ![h] = q]
  PROVE  RequestsHeld' /\ handlers'[h] = q /\ \A g \in Handlers : g # h => handlers'[g] = handlers[g]
<1>1. handlers'[h] = q /\ \A g \in Handlers : g # h => handlers'[g] = handlers[g]
  BY DEF RequestsHeld
<1>2. \A g \in Handlers : g # h => AccountRequest(handlers[g], used')
  <2> SUFFICES ASSUME NEW g \in Handlers, g # h
               PROVE  AccountRequest(handlers[g], used')
    OBVIOUS
  <2>1. AccountRequest(handlers[g], used)
    BY DEF RequestsHeld
  <2>2. handlers[g].id <= used /\ handlers[g].id \in 0..MaxAccounts => handlers[g].id <= used'
    OBVIOUS
  <2>3. QED
    BY <2>1, <2>2 DEF AccountRequest
<1>3. handlers' = [g \in Handlers |-> handlers'[g]]
  BY DEF RequestsHeld
<1>4. \A g \in Handlers : AccountRequest(handlers'[g], used')
  BY <1>1, <1>2
<1>5. QED
  BY <1>1, <1>3, <1>4 DEF RequestsHeld

\* A handler that neither writes a row next nor was to set the default.
LEMMA Elsewhere ==
  ASSUME LoopInv, rows' = rows, used' = used, NEW h \in Handlers, NEW q, AccountRequest(q, used),
         handlers' = [handlers EXCEPT ![h] = q],
         Setting(handlers[h]) => Setting(q), ~NextIs(q, "upsert")
  PROVE  RowsHeld' /\ RequestsHeld' /\ OneMailbox' /\ DefaultIsDue'
<1>1. RowsHeld' /\ used \in Nat
  BY DEF LoopInv, RowsHeld
<1>2. RequestsHeld' /\ handlers'[h] = q /\ \A g \in Handlers : g # h => handlers'[g] = handlers[g]
  <2>1. RequestsHeld /\ AccountRequest(q, used') /\ used \in Nat /\ used' \in Nat /\ used <= used'
    BY <1>1 DEF LoopInv
  <2>2. QED
    BY <2>1, HandlerGoes
<1>3. OneMailbox'
  BY <1>2 DEF LoopInv, OneMailbox
<1>4. DefaultIsDue'
  BY <1>2 DEF LoopInv, DefaultIsDue, OneDefault
<1>5. QED
  BY <1>1, <1>2, <1>3, <1>4

\* A handler without a request, and one that takes a request.
LEMMA BlankForm ==
  Loops!NoRequest = [todo |-> Loops!NoRequest.todo, id |-> Loops!NoRequest.id, box |-> Loops!NoRequest.box,
                     default |-> Loops!NoRequest.default, loop |-> Loops!NoRequest.loop]
<1> DEFINE b == CHOOSE b \in Mailboxes : TRUE
<1>1. Loops!NoRequest = [todo |-> <<>>, id |-> 0, box |-> b, default |-> FALSE, loop |-> 0]
  BY DEF Loops!NoRequest
<1> HIDE DEF b
<1>2. QED
  BY <1>1

\* A handler that has nothing to do.
LEMMA BlankRequest ==
  Loops!NoRequest.todo = <<>> /\ Loops!NoRequest.id = 0 /\ Loops!NoRequest.default \in BOOLEAN
BY DEF Loops!NoRequest

\* A record form of a request that goes on.
LEMMA RequestTaken ==
  ASSUME NEW r, r = [todo |-> r.todo, id |-> r.id, box |-> r.box, default |-> r.default, loop |-> r.loop],
         NEW list, NEW i
  PROVE  [r EXCEPT !.id = i, !.todo = list] =
           [todo |-> list, id |-> i, box |-> r.box, default |-> r.default, loop |-> r.loop]
<1>1. PICK t : t = [r EXCEPT !.id = i]
  OBVIOUS
<1>2. t = [todo |-> r.todo, id |-> i, box |-> r.box, default |-> r.default, loop |-> r.loop]
  BY <1>1
<1>3. [t EXCEPT !.todo = list] = [todo |-> list, id |-> i, box |-> r.box, default |-> r.default, loop |-> r.loop]
  BY <1>2
<1>4. QED
  BY <1>1, <1>3

\* A request that is over, or is taken.
LEMMA RequestForms ==
  ASSUME MaxAccounts \in Nat
  PROVE  /\ AccountRequest(Loops!NoRequest, used) /\ Loops!NoRequest.todo = <<>>
         /\ Left(<<"find", "upsert", "count", "default", "get", "start", "wake">>)
         /\ Left(<<"read", "upsert", "count", "default", "get", "wake">>)
         /\ Left(<<"read", "unregister", "await", "delete", "restore">>)
         /\ Left(<<"read", "get", "default", "start", "wake">>)
         /\ Left(<<"start">>) /\ Left(<<"wake">>)
<1>1. Left(<<>>)
  BY DEF Left
<1>2. Left(<<"find", "upsert", "count", "default", "get", "start", "wake">>)
  BY DEF Left, Statements, Loops!Statements
<1>3. Left(<<"read", "upsert", "count", "default", "get", "wake">>)
  BY DEF Left, Statements, Loops!Statements
<1>4. Left(<<"read", "unregister", "await", "delete", "restore">>)
  BY DEF Left, Statements, Loops!Statements
<1>5. Left(<<"read", "get", "default", "start", "wake">>)
  BY DEF Left, Statements, Loops!Statements
<1>6. Left(<<"start">>) /\ Left(<<"wake">>)
  BY DEF Left, Statements, Loops!Statements
<1>7. AccountRequest(Loops!NoRequest, used) /\ Loops!NoRequest.todo = <<>>
  BY <1>1 DEF AccountRequest, Loops!NoRequest, NextIs
<1>8. QED
  BY <1>2, <1>3, <1>4, <1>5, <1>6, <1>7

\* A request is taken.
LEMMA RequestBegins ==
  ASSUME LoopInv, Loops!LoopsAssumption, Loops!Request
  PROVE  LoopInv'
<1>1. MaxAccounts \in Nat \ {0} /\ used \in 0..MaxAccounts
  BY DEF Loops!LoopsAssumption, LoopInv, RowsHeld
<1>2. \E h \in Handlers : \E q : Loops!Begin(h, q) /\ AccountRequest(q, used) /\ ~NextIs(q, "upsert")
  <2>1. PICK h \in Handlers :
          \/ \E b \in Mailboxes : Loops!Add(h, b)
          \/ \E i \in 1..used : \/ Loops!Update(h, i) \/ Loops!Delete(h, i) \/ Loops!Select(h, i)
                               \/ Loops!Login(h, i) \/ Loops!Nudge(h, i)
    BY DEF Loops!Request
  <2>2. ASSUME NEW b \in Mailboxes, Loops!Add(h, b)
        PROVE  \E q : Loops!Begin(h, q) /\ AccountRequest(q, used) /\ ~NextIs(q, "upsert")
    <3>0. ASSUME NEW list
          PROVE  [Loops!NoRequest EXCEPT !.box = b, !.todo = list] =
                   [todo |-> list, id |-> Loops!NoRequest.id, box |-> b,
                    default |-> Loops!NoRequest.default, loop |-> Loops!NoRequest.loop]
      <4>1. PICK r : r = Loops!NoRequest
        OBVIOUS
      <4>2. r = [todo |-> r.todo, id |-> r.id, box |-> r.box, default |-> r.default, loop |-> r.loop]
        BY <4>1, BlankForm
      <4>3. [r EXCEPT !.box = b, !.todo = list] =
              [todo |-> list, id |-> r.id, box |-> b, default |-> r.default, loop |-> r.loop]
        <5>1. PICK s : s = [r EXCEPT !.box = b]
          OBVIOUS
        <5>2. s = [todo |-> r.todo, id |-> r.id, box |-> b, default |-> r.default, loop |-> r.loop]
          BY <4>2, <5>1
        <5>3. [s EXCEPT !.todo = list] = [todo |-> list, id |-> r.id, box |-> b, default |-> r.default, loop |-> r.loop]
          BY <5>2
        <5>4. QED
          BY <5>1, <5>3
      <4>4. QED
        BY <4>1, <4>3
    <3> PICK list : list = <<"find", "upsert", "count", "default", "get", "start", "wake">>
      OBVIOUS
    <3> DEFINE q == [Loops!NoRequest EXCEPT !.box = b, !.todo = list]
    <3>1. q = [todo |-> list, id |-> Loops!NoRequest.id, box |-> b,
               default |-> Loops!NoRequest.default, loop |-> Loops!NoRequest.loop]
      BY <3>0
    <3> HIDE DEF q
    <3>2. Left(q.todo) /\ q.todo[1] = "find" /\ q.id = 0 /\ q.default \in BOOLEAN /\ q.box \in Mailboxes
          /\ q = [todo |-> q.todo, id |-> q.id, box |-> q.box, default |-> q.default, loop |-> q.loop]
      BY <1>1, <3>1, RequestForms, BlankForm, BlankRequest
    <3>3. AccountRequest(q, used) /\ ~NextIs(q, "upsert")
      BY <1>1, <3>2 DEF AccountRequest, NextIs
    <3>4. QED
      BY <2>2, <3>3 DEF Loops!Add, q
  <2>3. ASSUME NEW i \in 1..used, NEW list, Left(list), list # <<>>, list[1] # "find", list[1] # "upsert",
               Loops!Begin(h, [Loops!NoRequest EXCEPT !.id = i, !.todo = list])
        PROVE  \E q : Loops!Begin(h, q) /\ AccountRequest(q, used) /\ ~NextIs(q, "upsert")
    <3> DEFINE q == [Loops!NoRequest EXCEPT !.id = i, !.todo = list]
    <3>1. q = [todo |-> list, id |-> i, box |-> Loops!NoRequest.box, default |-> Loops!NoRequest.default,
               loop |-> Loops!NoRequest.loop]
      BY BlankForm, RequestTaken
    <3> HIDE DEF q
    <3>2. q.todo = list /\ q.id = i /\ q.default \in BOOLEAN
          /\ q = [todo |-> q.todo, id |-> q.id, box |-> q.box, default |-> q.default, loop |-> q.loop]
      BY <3>1, BlankForm, BlankRequest
    <3>3. AccountRequest(q, used) /\ ~NextIs(q, "upsert")
      BY <1>1, <2>3, <3>2 DEF AccountRequest, NextIs
    <3>4. QED
      BY <2>3, <3>3 DEF q
  <2>4. ASSUME NEW i \in 1..used, \/ Loops!Update(h, i) \/ Loops!Delete(h, i) \/ Loops!Select(h, i)
                                  \/ Loops!Login(h, i) \/ Loops!Nudge(h, i)
        PROVE  \E q : Loops!Begin(h, q) /\ AccountRequest(q, used) /\ ~NextIs(q, "upsert")
    BY <1>1, <2>3, <2>4, RequestForms DEF Loops!Update, Loops!Delete, Loops!Select, Loops!Login, Loops!Nudge
  <2>5. QED
    BY <2>1, <2>2, <2>4
<1> PICK h \in Handlers : \E q : Loops!Begin(h, q) /\ AccountRequest(q, used) /\ ~NextIs(q, "upsert")
  BY <1>2
<1> PICK q : Loops!Begin(h, q) /\ AccountRequest(q, used) /\ ~NextIs(q, "upsert")
  OBVIOUS
<1>3. /\ handlers[h].todo = <<>> /\ handlers' = [handlers EXCEPT ![h] = q]
      /\ rows' = rows /\ used' = used /\ registry' = registry /\ loops' = loops /\ down' = down
  BY DEF Loops!Begin, Loops!manager
<1>4. ~Setting(handlers[h])
  BY <1>3 DEF Setting, NextIs
<1>5. RowsHeld' /\ RequestsHeld' /\ OneMailbox' /\ DefaultIsDue'
  BY <1>3, <1>4, Elsewhere
<1>6. LoopsHeld' /\ Loops!NoOrphan'
  BY <1>3 DEF LoopInv, LoopsHeld, Loops!NoOrphan
<1>7. QED
  BY <1>5, <1>6 DEF LoopInv

\* A request that goes on with another rest, and perhaps another mailbox or loop.
LEMMA RequestGoes ==
  ASSUME NEW q, AccountRequest(q, used), used \in 0..MaxAccounts, NEW list, Left(list), list # <<>> => list[1] # "find",
         q.id \in 1..MaxAccounts \/ list = <<>>, NEW r,
         r = [todo |-> list, id |-> q.id, box |-> q.box, default |-> q.default, loop |-> r.loop],
         NextIs(r, "upsert") => q.box \in Mailboxes /\ q.id <= used
  PROVE  AccountRequest(r, used)
<1>1. r.todo = list /\ r.id = q.id /\ r.box = q.box /\ r.default = q.default
  OBVIOUS
<1>2. r = [todo |-> r.todo, id |-> r.id, box |-> r.box, default |-> r.default, loop |-> r.loop]
  BY <1>1
<1>3. QED
  BY <1>1, <1>2 DEF AccountRequest, NextIs

\* A request that is given up.
LEMMA RequestFails ==
  ASSUME LoopInv, Loops!LoopsAssumption, NEW h \in Handlers, NEW s \in {"read", "get", "delete"}, Loops!Fail(h, s)
  PROVE  LoopInv'
<1>1. /\ handlers' = [handlers EXCEPT ![h] = Loops!NoRequest]
      /\ rows' = rows /\ used' = used /\ registry' = registry /\ loops' = loops /\ down' = down
  BY DEF Loops!Fail, Loops!manager
<1>2. NextIs(handlers[h], s)
  BY StatementRuns DEF Loops!Fail, LoopInv
<1>3. ~Setting(handlers[h])
  BY <1>2 DEF Setting, NextIs
<1>4. AccountRequest(Loops!NoRequest, used) /\ ~NextIs(Loops!NoRequest, "upsert")
  BY RequestForms DEF Loops!LoopsAssumption, NextIs
<1>5. RowsHeld' /\ RequestsHeld' /\ OneMailbox' /\ DefaultIsDue'
  BY <1>1, <1>3, <1>4, Elsewhere
<1>6. LoopsHeld' /\ Loops!NoOrphan'
  BY <1>1 DEF LoopInv, LoopsHeld, Loops!NoOrphan
<1>7. QED
  BY <1>5, <1>6 DEF LoopInv

\* A statement that touches no row, and leaves a request that neither writes one next nor has to set the default.
LEMMA RowsStay ==
  ASSUME LoopInv, rows' = rows, used' = used, NEW h \in Handlers, NEW s, Loops!At(h, s), s \notin {"find", "default"},
         NEW r, NEW list, Left(list), list # <<>> => list[1] # "find" /\ list[1] # "upsert",
         s = "count" /\ handlers[h].default => list # <<>> /\ list[1] = "default",
         r = [todo |-> list, id |-> handlers[h].id, box |-> handlers[h].box, default |-> handlers[h].default,
              loop |-> r.loop],
         handlers' = [handlers EXCEPT ![h] = r]
  PROVE  RowsHeld' /\ RequestsHeld' /\ OneMailbox' /\ DefaultIsDue'
<1>1. /\ NextIs(handlers[h], s) /\ AccountRequest(handlers[h], used) /\ handlers[h].id \in 1..MaxAccounts
      /\ used \in 0..MaxAccounts
  BY StatementRuns DEF LoopInv, RowsHeld
<1>2. r.todo = list /\ r.default = handlers[h].default
  OBVIOUS
<1>3. AccountRequest(r, used) /\ ~NextIs(r, "upsert")
  BY <1>1, <1>2, RequestGoes DEF NextIs
<1>4. Setting(handlers[h]) => Setting(r)
  BY <1>1, <1>2 DEF Setting, NextIs
<1>5. QED
  BY <1>3, <1>4, Elsewhere

\* What a statement leaves of its request.
LEMMA TodoForm ==
  ASSUME RequestsHeld, NEW h \in Handlers, NEW list
  PROVE  [handlers EXCEPT ![h].todo = list] =
           [handlers EXCEPT ![h] = [todo |-> list, id |-> handlers[h].id, box |-> handlers[h].box,
                                    default |-> handlers[h].default, loop |-> handlers[h].loop]]
<1>1. PICK q : q = handlers[h]
  OBVIOUS
<1>2. q = [todo |-> q.todo, id |-> q.id, box |-> q.box, default |-> q.default, loop |-> q.loop]
  BY <1>1 DEF RequestsHeld, AccountRequest
<1>3. [q EXCEPT !.todo = list] = [todo |-> list, id |-> q.id, box |-> q.box, default |-> q.default, loop |-> q.loop]
  BY <1>2
<1>4. [handlers EXCEPT ![h].todo = list] = [handlers EXCEPT ![h] = [q EXCEPT !.todo = list]]
  BY <1>1
<1>5. QED
  BY <1>1, <1>3, <1>4

\* A record form of a statement that runs.
LEMMA RunForm ==
  ASSUME NEW h \in Handlers, NEW s, NEW r, Loops!Run(h, s, r),
         r = [todo |-> r.todo, id |-> r.id, box |-> r.box, default |-> r.default, loop |-> r.loop]
  PROVE  handlers' = [handlers EXCEPT ![h] = [todo |-> Tail(handlers[h].todo), id |-> r.id, box |-> r.box,
                                              default |-> r.default, loop |-> r.loop]]
<1>1. PICK list : list = Tail(handlers[h].todo)
  OBVIOUS
<1>2. [r EXCEPT !.todo = list] = [todo |-> list, id |-> r.id, box |-> r.box, default |-> r.default, loop |-> r.loop]
  OBVIOUS
<1>3. QED
  BY <1>1, <1>2 DEF Loops!Run

\* A statement that only takes itself off the list.
LEMMA DoStays ==
  ASSUME LoopInv, rows' = rows, used' = used, NEW h \in Handlers,
         NEW s \in {"upsert", "get", "delete", "await", "send", "restore", "unregister"},
         NEW r, Loops!Run(h, s, r),
         r = [todo |-> r.todo, id |-> handlers[h].id, box |-> handlers[h].box, default |-> handlers[h].default,
              loop |-> r.loop]
  PROVE  RowsHeld' /\ RequestsHeld' /\ OneMailbox' /\ DefaultIsDue'
<1>1. RequestsHeld /\ Loops!At(h, s)
  BY DEF LoopInv, Loops!Run
<1>2. PICK list : list = Tail(handlers[h].todo)
  OBVIOUS
<1>3. Left(list) /\ (list # <<>> => list[1] # "find" /\ list[1] # "upsert")
  BY <1>1, <1>2, StatementRuns
<1>4. PICK t : t = [todo |-> list, id |-> handlers[h].id, box |-> handlers[h].box, default |-> handlers[h].default,
                    loop |-> r.loop]
  OBVIOUS
<1>5. handlers' = [handlers EXCEPT ![h] = t] /\ t.loop = r.loop
  <2>1. r = [todo |-> r.todo, id |-> r.id, box |-> r.box, default |-> r.default, loop |-> r.loop]
        /\ r.id = handlers[h].id /\ r.box = handlers[h].box /\ r.default = handlers[h].default
    OBVIOUS
  <2>2. QED
    BY <1>2, <1>4, <2>1, RunForm
<1>6. t = [todo |-> list, id |-> handlers[h].id, box |-> handlers[h].box, default |-> handlers[h].default,
           loop |-> t.loop]
  BY <1>4, <1>5
<1>7. QED
  BY <1>1, <1>3, <1>5, <1>6, RowsStay

\* The loops are as they were.
LEMMA LoopsStay ==
  ASSUME LoopInv, registry' = registry, loops' = loops, down' = down
  PROVE  LoopsHeld' /\ Loops!NoOrphan'
BY DEF LoopInv, LoopsHeld, Loops!NoOrphan

\* A mailbox is found, or has a new identifier.
LEMMA MailboxFound ==
  ASSUME LoopInv, rows' = rows, used' \in {used, used + 1}, used' <= MaxAccounts, MaxAccounts \in Nat,
         NEW h \in Handlers, NEW q, AccountRequest(q, used'), handlers' = [handlers EXCEPT ![h] = q],
         ~Setting(handlers[h]),
         NextIs(q, "upsert") => \/ \E r \in rows : r.id = q.id /\ r.box = q.box
                               \/ q.id = used + 1
  PROVE  RowsHeld' /\ RequestsHeld' /\ OneMailbox' /\ DefaultIsDue'
<1>1. used \in Nat /\ used' \in Nat /\ used <= used' /\ used' \in 0..MaxAccounts
  BY DEF LoopInv, RowsHeld
<1>2. RowsHeld'
  <2>1. \A r \in rows : AccountRow(r, used')
    BY <1>1 DEF LoopInv, RowsHeld, AccountRow
  <2>2. QED
    BY <1>1, <2>1 DEF LoopInv, RowsHeld
<1>3. RequestsHeld' /\ handlers'[h] = q /\ \A g \in Handlers : g # h => handlers'[g] = handlers[g]
  BY <1>1, HandlerGoes DEF LoopInv
<1>4. ASSUME NEW g \in Handlers, NextIs(handlers[g], "upsert")
      PROVE  handlers[g].id <= used /\ handlers[g].id \in Int
  BY <1>4 DEF LoopInv, RequestsHeld, AccountRequest
<1>5. \A r \in rows : r.id <= used /\ r.id \in Int
  BY <1>1 DEF LoopInv, RowsHeld, AccountRow
<1>6. ASSUME NextIs(q, "upsert"), NEW r \in rows, q.id = r.id
      PROVE  q.box = r.box
  <2>1. q.id # used + 1
    BY <1>1, <1>5, <1>6
  <2>2. PICK t \in rows : t.id = q.id /\ t.box = q.box
    BY <1>6, <2>1
  <2>3. QED
    BY <1>6, <2>2 DEF LoopInv, RowsHeld
<1>7. ASSUME NextIs(q, "upsert"), NEW g \in Handlers, NextIs(handlers[g], "upsert"), q.id = handlers[g].id
      PROVE  q.box = handlers[g].box
  <2>1. q.id # used + 1
    BY <1>1, <1>4, <1>7
  <2>2. PICK t \in rows : t.id = q.id /\ t.box = q.box
    BY <1>7, <2>1
  <2>3. QED
    BY <1>7, <2>2 DEF LoopInv, OneMailbox
<1>8. OneMailbox'
  BY <1>3, <1>6, <1>7 DEF LoopInv, OneMailbox
<1>9. DefaultIsDue'
  BY <1>3 DEF LoopInv, DefaultIsDue, OneDefault
<1>10. QED
  BY <1>2, <1>3, <1>8, <1>9

\* UpsertAccount looks for the address.
LEMMA FindHolds ==
  ASSUME LoopInv, Loops!LoopsAssumption, NEW h \in Handlers, Loops!Find(h)
  PROVE  LoopInv'
<1> DEFINE here == {r \in rows : r.box = handlers[h].box}
<1> DEFINE i == IF here = {} THEN used + 1 ELSE (CHOOSE r \in here : TRUE).id
<1>1. /\ Loops!Run(h, "find", [handlers[h] EXCEPT !.id = i])
      /\ IF here # {} THEN used' = used ELSE used < MaxAccounts /\ used' = used + 1
      /\ rows' = rows /\ registry' = registry /\ loops' = loops /\ down' = down
  BY DEF Loops!Find, Loops!manager
<1>2. RequestsHeld /\ Loops!At(h, "find") /\ used \in 0..MaxAccounts /\ MaxAccounts \in Nat
  BY <1>1 DEF LoopInv, Loops!Run, RowsHeld, Loops!LoopsAssumption
<1>3. /\ NextIs(handlers[h], "find") /\ AccountRequest(handlers[h], used) /\ Left(Tail(handlers[h].todo))
      /\ Tail(handlers[h].todo) # <<>> => Tail(handlers[h].todo)[1] # "find"
  BY <1>2, StatementRuns
<1>4. here # {} => \E r \in rows : r.id = i /\ r.box = handlers[h].box
  OBVIOUS
<1>5. i \in 1..used' /\ used' \in {used, used + 1} /\ used' <= MaxAccounts
      /\ ((\E r \in rows : r.id = i /\ r.box = handlers[h].box) \/ i = used + 1)
  <2>1. CASE here # {}
    <3>1. PICK r \in rows : r.id = i /\ r.box = handlers[h].box
      BY <1>4, <2>1
    <3>2. r.id \in 1..used
      BY DEF LoopInv, RowsHeld, AccountRow
    <3>3. used' = used
      BY <1>1, <2>1
    <3>4. i \in 1..used' /\ used' <= MaxAccounts
      BY <1>2, <3>1, <3>2, <3>3
    <3>5. QED
      BY <3>1, <3>3, <3>4
  <2>2. CASE here = {}
    BY <1>1, <1>2, <2>2
  <2>3. QED
    BY <2>1, <2>2
<1> HIDE DEF i, here
<1>6. PICK r : r = [handlers[h] EXCEPT !.id = i]
  OBVIOUS
<1>7. r = [todo |-> handlers[h].todo, id |-> i, box |-> handlers[h].box, default |-> handlers[h].default,
           loop |-> handlers[h].loop]
  <2>1. PICK q : q = handlers[h]
    OBVIOUS
  <2>2. q = [todo |-> q.todo, id |-> q.id, box |-> q.box, default |-> q.default, loop |-> q.loop]
    BY <1>3, <2>1 DEF AccountRequest
  <2>3. [q EXCEPT !.id = i] = [todo |-> q.todo, id |-> i, box |-> q.box, default |-> q.default, loop |-> q.loop]
    BY <2>2
  <2>4. QED
    BY <1>6, <2>1, <2>3
<1>8. PICK list : list = Tail(handlers[h].todo)
  OBVIOUS
<1>9. PICK q : q = [todo |-> list, id |-> i, box |-> handlers[h].box, default |-> handlers[h].default,
                    loop |-> handlers[h].loop]
  OBVIOUS
<1>10. handlers' = [handlers EXCEPT ![h] = q]
  <2>1. r = [todo |-> r.todo, id |-> r.id, box |-> r.box, default |-> r.default, loop |-> r.loop]
        /\ r.id = i /\ r.box = handlers[h].box /\ r.default = handlers[h].default /\ r.loop = handlers[h].loop
    BY <1>7
  <2>2. QED
    BY <1>1, <1>6, <1>8, <1>9, <2>1, RunForm
<1>11. AccountRequest(q, used')
  <2>1. q.todo = list /\ q.id = i /\ q.box = handlers[h].box /\ q.default = handlers[h].default
        /\ q = [todo |-> q.todo, id |-> q.id, box |-> q.box, default |-> q.default, loop |-> q.loop]
    BY <1>9
  <2>2. handlers[h].default \in BOOLEAN /\ handlers[h].box \in Mailboxes
    BY <1>3 DEF AccountRequest
  <2>3. i \in 1..MaxAccounts /\ i <= used'
    BY <1>2, <1>5
  <2>4. QED
    BY <1>3, <1>8, <2>1, <2>2, <2>3 DEF AccountRequest, NextIs
<1>12. ~Setting(handlers[h])
  BY <1>3 DEF Setting, NextIs
<1>13. RowsHeld' /\ RequestsHeld' /\ OneMailbox' /\ DefaultIsDue'
  <2>1. q.id = i /\ q.box = handlers[h].box
    BY <1>9
  <2>2. QED
    BY <1>1, <1>2, <1>5, <1>10, <1>11, <1>12, <2>1, MailboxFound
<1>14. LoopsHeld' /\ Loops!NoOrphan'
  BY <1>1, LoopsStay
<1>15. QED
  BY <1>13, <1>14 DEF LoopInv

\* accountByID: the handler goes on with the row it read.
LEMMA ReadHolds ==
  ASSUME LoopInv, Loops!LoopsAssumption, NEW h \in Handlers, Loops!Read(h)
  PROVE  LoopInv'
<1>1. CASE handlers[h].id \notin Loops!Known /\ Loops!Fail(h, "read")
  BY <1>1, RequestFails
<1>2. CASE /\ handlers[h].id \in Loops!Known /\ UNCHANGED <<rows, used, Loops!manager>>
           /\ Loops!Run(h, "read", [handlers[h] EXCEPT !.box = Loops!Row(handlers[h].id).box,
                                                       !.default = Loops!Row(handlers[h].id).default])
  <2>1. rows' = rows /\ used' = used /\ registry' = registry /\ loops' = loops /\ down' = down
    BY <1>2 DEF Loops!manager
  <2>2. RequestsHeld /\ Loops!At(h, "read") /\ used \in 0..MaxAccounts /\ MaxAccounts \in Nat
    BY <1>2 DEF LoopInv, Loops!Run, RowsHeld, Loops!LoopsAssumption
  <2>3. /\ NextIs(handlers[h], "read") /\ AccountRequest(handlers[h], used) /\ Left(Tail(handlers[h].todo))
        /\ handlers[h].id \in 1..MaxAccounts
        /\ Tail(handlers[h].todo) # <<>> => Tail(handlers[h].todo)[1] # "find"
    BY <2>2, StatementRuns
  <2>4. PICK x : x = Loops!Row(handlers[h].id)
    OBVIOUS
  <2>5. x \in rows /\ x.id = handlers[h].id
    BY <1>2, <2>4 DEF Loops!Row, Loops!Known
  <2>6. x.id \in 1..used /\ x.box \in Mailboxes /\ x.default \in BOOLEAN
    BY <2>5 DEF LoopInv, RowsHeld, AccountRow
  <2>7. PICK r : r = [handlers[h] EXCEPT !.box = x.box, !.default = x.default]
    OBVIOUS
  <2>8. r = [todo |-> handlers[h].todo, id |-> handlers[h].id, box |-> x.box, default |-> x.default,
             loop |-> handlers[h].loop]
    <3>1. PICK q : q = handlers[h]
      OBVIOUS
    <3>2. q = [todo |-> q.todo, id |-> q.id, box |-> q.box, default |-> q.default, loop |-> q.loop]
      BY <2>3, <3>1 DEF AccountRequest
    <3>3. PICK t : t = [q EXCEPT !.box = x.box]
      OBVIOUS
    <3>4. t = [todo |-> q.todo, id |-> q.id, box |-> x.box, default |-> q.default, loop |-> q.loop]
      BY <3>2, <3>3
    <3>5. [t EXCEPT !.default = x.default] =
            [todo |-> q.todo, id |-> q.id, box |-> x.box, default |-> x.default, loop |-> q.loop]
      BY <3>4
    <3>6. [q EXCEPT !.box = x.box, !.default = x.default] = [t EXCEPT !.default = x.default]
      BY <3>3
    <3>7. QED
      BY <2>7, <3>1, <3>5, <3>6
  <2>9. PICK list : list = Tail(handlers[h].todo)
    OBVIOUS
  <2>10. PICK q : q = [todo |-> list, id |-> handlers[h].id, box |-> x.box, default |-> x.default,
                       loop |-> handlers[h].loop]
    OBVIOUS
  <2>11. handlers' = [handlers EXCEPT ![h] = q]
    <3>1. r = [todo |-> r.todo, id |-> r.id, box |-> r.box, default |-> r.default, loop |-> r.loop]
          /\ r.id = handlers[h].id /\ r.box = x.box /\ r.default = x.default /\ r.loop = handlers[h].loop
      BY <2>8
    <3>2. QED
      BY <1>2, <2>4, <2>7, <2>9, <2>10, <3>1, RunForm
  <2>12. q.todo = list /\ q.id = handlers[h].id /\ q.box = x.box /\ q.default = x.default
         /\ q = [todo |-> q.todo, id |-> q.id, box |-> q.box, default |-> q.default, loop |-> q.loop]
    BY <2>10
  <2>13. AccountRequest(q, used')
    BY <2>1, <2>2, <2>3, <2>5, <2>6, <2>9, <2>12 DEF AccountRequest, NextIs
  <2>14. ~Setting(handlers[h])
    BY <2>3 DEF Setting, NextIs
  <2>15. RowsHeld' /\ RequestsHeld' /\ OneMailbox' /\ DefaultIsDue'
    <3>1. used' \in {used, used + 1} /\ used' <= MaxAccounts /\ \E y \in rows : y.id = q.id /\ y.box = q.box
      BY <2>1, <2>2, <2>5, <2>12
    <3>2. QED
      BY <2>1, <2>2, <2>11, <2>13, <2>14, <3>1, MailboxFound
  <2>16. QED
    BY <2>1, <2>15, LoopsStay DEF LoopInv
<1>3. QED
  BY <1>1, <1>2 DEF Loops!Read

\* A row is written.
LEMMA UpsertHolds ==
  ASSUME LoopInv, Loops!LoopsAssumption, NEW h \in Handlers, Loops!Upsert(h)
  PROVE  LoopInv'
<1>1. /\ rows' = Loops!Upserted(handlers[h]) /\ Loops!Run(h, "upsert", handlers[h])
      /\ used' = used /\ registry' = registry /\ loops' = loops /\ down' = down
  BY DEF Loops!Upsert, Loops!Do, Loops!manager
<1>2. RequestsHeld /\ Loops!At(h, "upsert") /\ used \in 0..MaxAccounts /\ MaxAccounts \in Nat
  BY <1>1 DEF LoopInv, Loops!Run, RowsHeld, Loops!LoopsAssumption
<1>3. /\ NextIs(handlers[h], "upsert") /\ AccountRequest(handlers[h], used) /\ Left(Tail(handlers[h].todo))
      /\ handlers[h].id \in 1..MaxAccounts
      /\ Tail(handlers[h].todo) # <<>> /\ Tail(handlers[h].todo)[1] = "count"
  BY <1>2, StatementRuns
<1>4. handlers[h].box \in Mailboxes /\ handlers[h].id \in 1..used /\ handlers[h].default \in BOOLEAN
      /\ handlers[h] = [todo |-> handlers[h].todo, id |-> handlers[h].id, box |-> handlers[h].box,
                        default |-> handlers[h].default, loop |-> handlers[h].loop]
  BY <1>2, <1>3 DEF AccountRequest
<1>5. CASE rows' = rows
  BY <1>1, <1>4, <1>5, DoStays, LoopsStay DEF LoopInv
<1>6. CASE /\ rows' = rows \cup {Loops!RowOf(handlers[h])} /\ \A r \in rows : r.box # handlers[h].box
  <2> PICK x : x = Loops!RowOf(handlers[h])
    OBVIOUS
  <2>1. x = [id |-> handlers[h].id, box |-> handlers[h].box, default |-> handlers[h].default]
    BY DEF Loops!RowOf
  <2>2. x = [id |-> x.id, box |-> x.box, default |-> x.default]
        /\ x.id = handlers[h].id /\ x.box = handlers[h].box /\ x.default = handlers[h].default
    BY <2>1
  <2>3. \A r \in rows : r.id # x.id /\ r.box # x.box
    BY <1>3, <1>6, <2>2 DEF LoopInv, OneMailbox
  <2>4. RowsHeld'
    <3>1. IsFiniteSet(rows') /\ used' \in 0..MaxAccounts
      BY <1>1, <1>2, <1>6, FS_AddElement DEF LoopInv, RowsHeld
    <3>2. AccountRow(x, used)
      BY <1>4, <2>2 DEF AccountRow
    <3>3. \A r \in rows' : AccountRow(r, used')
      BY <1>1, <1>6, <3>2 DEF LoopInv, RowsHeld
    <3>4. \A r, s \in rows' : r.id = s.id \/ r.box = s.box => r = s
      BY <1>6, <2>3 DEF LoopInv, RowsHeld
    <3>5. QED
      BY <3>1, <3>3, <3>4 DEF RowsHeld
  <2>5. PICK q : q = [todo |-> Tail(handlers[h].todo), id |-> handlers[h].id, box |-> handlers[h].box,
                      default |-> handlers[h].default, loop |-> handlers[h].loop]
    OBVIOUS
  <2>6. handlers' = [handlers EXCEPT ![h] = q]
    BY <1>1, <1>4, <2>5, RunForm
  <2>7. q.todo = Tail(handlers[h].todo) /\ q.id = handlers[h].id /\ q.box = handlers[h].box
        /\ q.default = handlers[h].default
        /\ q = [todo |-> q.todo, id |-> q.id, box |-> q.box, default |-> q.default, loop |-> q.loop]
    BY <2>5
  <2>8. AccountRequest(q, used') /\ ~NextIs(q, "upsert") /\ NextIs(q, "count")
    BY <1>1, <1>3, <1>4, <2>7 DEF AccountRequest, NextIs
  <2>9. RequestsHeld' /\ handlers'[h] = q /\ \A g \in Handlers : g # h => handlers'[g] = handlers[g]
    <3>1. used \in Nat /\ used' \in Nat /\ used <= used'
      BY <1>1, <1>2
    <3>2. QED
      BY <1>2, <2>6, <2>8, <3>1, HandlerGoes
  <2>10. OneMailbox'
    BY <1>3, <1>6, <2>2, <2>8, <2>9 DEF LoopInv, OneMailbox
  <2>11. DefaultIsDue'
    <3>1. CASE x.default
      BY <2>2, <2>7, <2>8, <2>9, <3>1 DEF DefaultIsDue, Setting
    <3>2. CASE ~x.default /\ OneDefault
      BY <1>6, <3>2 DEF DefaultIsDue, OneDefault
    <3>3. CASE \E g \in Handlers : Setting(handlers[g])
      <4>1. ~Setting(handlers[h])
        BY <1>3 DEF Setting, NextIs
      <4>2. QED
        BY <2>9, <3>3, <4>1 DEF DefaultIsDue
    <3>4. QED
      BY <3>1, <3>2, <3>3 DEF LoopInv, DefaultIsDue
  <2>12. QED
    BY <1>1, <2>4, <2>9, <2>10, <2>11, LoopsStay DEF LoopInv
<1>7. QED
  BY <1>1, <1>5, <1>6 DEF Loops!Upserted

\* A new mailbox becomes the default only where the user has none.
LEMMA CountHolds ==
  ASSUME LoopInv, Loops!LoopsAssumption, NEW h \in Handlers, Loops!Count(h)
  PROVE  LoopInv'
<1> DEFINE keep == ~handlers[h].default /\ \E r \in rows : r.default
<1> DEFINE list == IF keep THEN Tail(Tail(handlers[h].todo)) ELSE Tail(handlers[h].todo)
<1>1. /\ Loops!At(h, "count") /\ handlers' = [handlers EXCEPT ![h].todo = list]
      /\ rows' = rows /\ used' = used /\ registry' = registry /\ loops' = loops /\ down' = down
  BY DEF Loops!Count, Loops!manager
<1>2. RequestsHeld
  BY DEF LoopInv
<1>3. Left(list) /\ (list # <<>> => list[1] # "find" /\ list[1] # "upsert")
      /\ (handlers[h].default => list # <<>> /\ list[1] = "default")
  BY <1>1, <1>2, StatementRuns
<1> HIDE DEF list
<1>4. PICK r : r = [todo |-> list, id |-> handlers[h].id, box |-> handlers[h].box, default |-> handlers[h].default,
                    loop |-> handlers[h].loop]
  OBVIOUS
<1>5. handlers' = [handlers EXCEPT ![h] = r]
  BY <1>1, <1>2, <1>4, TodoForm
<1>6. r = [todo |-> list, id |-> handlers[h].id, box |-> handlers[h].box, default |-> handlers[h].default,
           loop |-> r.loop]
  BY <1>4
<1>7. RowsHeld' /\ RequestsHeld' /\ OneMailbox' /\ DefaultIsDue'
  BY <1>1, <1>3, <1>5, <1>6, RowsStay
<1>8. QED
  BY <1>1, <1>7, LoopsStay DEF LoopInv

\* The flags of all rows are set at once.
LEMMA DefaultSet ==
  ASSUME LoopInv, NEW i, rows' = Loops!DefaultIs(i), used' = used, RequestsHeld',
         NEW h \in Handlers, ~NextIs(handlers'[h], "upsert"), \A g \in Handlers : g # h => handlers'[g] = handlers[g]
  PROVE  RowsHeld' /\ OneMailbox' /\ DefaultIsDue'
<1>1. ASSUME NEW r \in rows
      PROVE  /\ [r EXCEPT !.default = r.id = i] = [id |-> r.id, box |-> r.box, default |-> r.id = i]
             /\ r.id \in 1..used /\ r.box \in Mailboxes
  BY DEF LoopInv, RowsHeld, AccountRow
<1>2. \A x \in rows' : \E r \in rows : x = [id |-> r.id, box |-> r.box, default |-> r.id = i]
  <2> SUFFICES ASSUME NEW x \in rows'
               PROVE  \E r \in rows : x = [id |-> r.id, box |-> r.box, default |-> r.id = i]
    OBVIOUS
  <2>1. rows' = {[r EXCEPT !.default = r.id = i] : r \in rows}
    BY DEF Loops!DefaultIs
  <2>2. PICK r \in rows : x = [r EXCEPT !.default = r.id = i]
    BY <2>1, Zenon
  <2>3. x = [id |-> r.id, box |-> r.box, default |-> r.id = i]
    BY <1>1, <2>2, Zenon
  <2>4. QED
    BY <2>3, Zenon
<1>3. \A x \in rows' : \E r \in rows : /\ x.id = r.id /\ x.box = r.box /\ x.default = (r.id = i)
                                      /\ x = [id |-> x.id, box |-> x.box, default |-> x.default]
  <2> SUFFICES ASSUME NEW x \in rows'
               PROVE  \E r \in rows : /\ x.id = r.id /\ x.box = r.box /\ x.default = (r.id = i)
                                      /\ x = [id |-> x.id, box |-> x.box, default |-> x.default]
    OBVIOUS
  <2>1. PICK r \in rows : x = [id |-> r.id, box |-> r.box, default |-> r.id = i]
    BY <1>2
  <2>2. QED
    BY <2>1
<1>4. IsFiniteSet(rows')
  <2>1. PICK f : f = [r \in rows |-> [r EXCEPT !.default = r.id = i]]
    OBVIOUS
  <2>2. rows' = {f[r] : r \in rows} /\ f = [r \in rows |-> f[r]]
    BY <2>1, Zenon DEF Loops!DefaultIs
  <2>3. f \in Surjection(rows, rows')
    BY <2>2 DEF Surjection
  <2>4. QED
    BY <2>3, FS_Surjection DEF LoopInv, RowsHeld
<1>5. \A x \in rows' : AccountRow(x, used')
  BY <1>1, <1>3 DEF AccountRow
<1>6. \A x, y \in rows' : x.id = y.id \/ x.box = y.box => x = y
  <2> SUFFICES ASSUME NEW x \in rows', NEW y \in rows', x.id = y.id \/ x.box = y.box
               PROVE  x = y
    OBVIOUS
  <2>1. PICK r \in rows : x.id = r.id /\ x.box = r.box /\ x.default = (r.id = i)
                          /\ x = [id |-> x.id, box |-> x.box, default |-> x.default]
    BY <1>3
  <2>2. PICK s \in rows : y.id = s.id /\ y.box = s.box /\ y.default = (s.id = i)
                          /\ y = [id |-> y.id, box |-> y.box, default |-> y.default]
    BY <1>3
  <2>3. r = s
    BY <2>1, <2>2 DEF LoopInv, RowsHeld
  <2>4. QED
    BY <2>1, <2>2, <2>3
<1>7. RowsHeld'
  BY <1>4, <1>5, <1>6 DEF LoopInv, RowsHeld
<1>8. OneMailbox'
  BY <1>3 DEF LoopInv, OneMailbox
<1>9. OneDefault'
  <2>1. \A x \in rows' : x.default => x.id = i
    BY <1>3, Zenon
  <2>2. QED
    BY <1>6, <2>1 DEF OneDefault
<1>10. QED
  BY <1>7, <1>8, <1>9 DEF DefaultIsDue

\* setDefaultAccount, and the choice of another default once the mailbox is deleted.
LEMMA SetDefaultHolds ==
  ASSUME LoopInv, Loops!LoopsAssumption, NEW h \in Handlers, NEW i, NEW s \in {"default", "restore"},
         rows' = Loops!DefaultIs(i), Loops!Do(h, s), UNCHANGED <<used, Loops!manager>>
  PROVE  LoopInv'
<1>1. /\ Loops!Run(h, s, handlers[h])
      /\ used' = used /\ registry' = registry /\ loops' = loops /\ down' = down
  BY DEF Loops!Do, Loops!manager
<1>2. RequestsHeld /\ Loops!At(h, s) /\ used \in 0..MaxAccounts /\ MaxAccounts \in Nat
  BY <1>1 DEF LoopInv, Loops!Run, RowsHeld, Loops!LoopsAssumption
<1>3. /\ AccountRequest(handlers[h], used) /\ Left(Tail(handlers[h].todo))
      /\ handlers[h].id \in 1..MaxAccounts
      /\ Tail(handlers[h].todo) # <<>> => Tail(handlers[h].todo)[1] \notin {"find", "upsert"}
  BY <1>2, StatementRuns
<1>4. handlers[h].default \in BOOLEAN
      /\ handlers[h] = [todo |-> handlers[h].todo, id |-> handlers[h].id, box |-> handlers[h].box,
                        default |-> handlers[h].default, loop |-> handlers[h].loop]
  BY <1>3 DEF AccountRequest
<1>5. PICK q : q = [todo |-> Tail(handlers[h].todo), id |-> handlers[h].id, box |-> handlers[h].box,
                    default |-> handlers[h].default, loop |-> handlers[h].loop]
  OBVIOUS
<1>6. handlers' = [handlers EXCEPT ![h] = q]
  BY <1>1, <1>4, <1>5, RunForm
<1>7. q.todo = Tail(handlers[h].todo) /\ q.id = handlers[h].id /\ q.default = handlers[h].default
      /\ q = [todo |-> q.todo, id |-> q.id, box |-> q.box, default |-> q.default, loop |-> q.loop]
  BY <1>5
<1>8. AccountRequest(q, used') /\ ~NextIs(q, "upsert")
  BY <1>1, <1>3, <1>4, <1>7 DEF AccountRequest, NextIs
<1>9. RequestsHeld' /\ handlers'[h] = q /\ \A g \in Handlers : g # h => handlers'[g] = handlers[g]
  <2>1. used \in Nat /\ used' \in Nat /\ used <= used'
    BY <1>1, <1>2
  <2>2. QED
    BY <1>2, <1>6, <1>8, <2>1, HandlerGoes
<1>10. RowsHeld' /\ OneMailbox' /\ DefaultIsDue'
  BY <1>1, <1>8, <1>9, DefaultSet
<1>11. QED
  BY <1>1, <1>9, <1>10, LoopsStay DEF LoopInv

\* The rows of a mailbox that is read once more, deleted, or followed by another default.
LEMMA GetHolds ==
  ASSUME LoopInv, Loops!LoopsAssumption, NEW h \in Handlers, Loops!Get(h)
  PROVE  LoopInv'
<1>1. CASE Loops!Fail(h, "get")
  BY <1>1, RequestFails
<1>2. CASE Loops!Do(h, "get") /\ UNCHANGED <<rows, used, Loops!manager>>
  <2>1. handlers[h] = [todo |-> handlers[h].todo, id |-> handlers[h].id, box |-> handlers[h].box,
                       default |-> handlers[h].default, loop |-> handlers[h].loop]
    BY DEF LoopInv, RequestsHeld, AccountRequest
  <2>2. QED
    BY <1>2, <2>1, DoStays, LoopsStay DEF LoopInv, Loops!Do, Loops!manager
<1>3. QED
  BY <1>1, <1>2 DEF Loops!Get

\* The row of an account that ended is deleted.
LEMMA DeleteRowHolds ==
  ASSUME LoopInv, Loops!LoopsAssumption, NEW h \in Handlers, Loops!DeleteRow(h)
  PROVE  LoopInv'
<1>1. CASE Loops!Fail(h, "delete")
  BY <1>1, RequestFails
<1>2. CASE /\ rows' = {r \in rows : r.id # handlers[h].id}
           /\ Loops!Do(h, "delete") /\ UNCHANGED <<used, Loops!manager>>
  <2>1. /\ Loops!Run(h, "delete", handlers[h])
        /\ used' = used /\ registry' = registry /\ loops' = loops /\ down' = down
    BY <1>2 DEF Loops!Do, Loops!manager
  <2>2. RequestsHeld /\ Loops!At(h, "delete") /\ used \in 0..MaxAccounts /\ MaxAccounts \in Nat
    BY <2>1 DEF LoopInv, Loops!Run, RowsHeld, Loops!LoopsAssumption
  <2>3. /\ AccountRequest(handlers[h], used) /\ Left(Tail(handlers[h].todo)) /\ NextIs(handlers[h], "delete")
        /\ handlers[h].id \in 1..MaxAccounts
        /\ Tail(handlers[h].todo) # <<>> => Tail(handlers[h].todo)[1] \notin {"find", "upsert"}
    <3>1. /\ NextIs(handlers[h], "delete") /\ AccountRequest(handlers[h], used) /\ Left(Tail(handlers[h].todo))
          /\ "delete" # "find" => handlers[h].id \in 1..MaxAccounts
          /\ Tail(handlers[h].todo) # <<>> => /\ Tail(handlers[h].todo)[1] # "find"
                                              /\ Tail(handlers[h].todo)[1] = "upsert" => "delete" \in {"find", "read"}
      BY <2>2, StatementRuns
    <3>2. "delete" # "find" /\ "delete" \notin {"find", "read"}
      OBVIOUS
    <3>3. QED
      BY <3>1, <3>2, Zenon
  <2>4. handlers[h].default \in BOOLEAN
        /\ handlers[h] = [todo |-> handlers[h].todo, id |-> handlers[h].id, box |-> handlers[h].box,
                          default |-> handlers[h].default, loop |-> handlers[h].loop]
    BY <2>3 DEF AccountRequest
  <2>5. PICK q : q = [todo |-> Tail(handlers[h].todo), id |-> handlers[h].id, box |-> handlers[h].box,
                      default |-> handlers[h].default, loop |-> handlers[h].loop]
    OBVIOUS
  <2>6. handlers' = [handlers EXCEPT ![h] = q]
    BY <2>1, <2>4, <2>5, RunForm
  <2>7. q.todo = Tail(handlers[h].todo) /\ q.id = handlers[h].id /\ q.default = handlers[h].default
        /\ q = [todo |-> q.todo, id |-> q.id, box |-> q.box, default |-> q.default, loop |-> q.loop]
    BY <2>5
  <2>8. AccountRequest(q, used') /\ ~NextIs(q, "upsert")
    BY <2>1, <2>3, <2>4, <2>7 DEF AccountRequest, NextIs
  <2>9. RequestsHeld' /\ handlers'[h] = q /\ \A g \in Handlers : g # h => handlers'[g] = handlers[g]
    <3>1. used \in Nat /\ used' \in Nat /\ used <= used'
      BY <2>1, <2>2
    <3>2. QED
      BY <2>2, <2>6, <2>8, <3>1, HandlerGoes
  <2>10. RowsHeld'
    BY <1>2, <2>1, FS_Subset DEF LoopInv, RowsHeld
  <2>11. OneMailbox'
    BY <1>2, <2>8, <2>9 DEF LoopInv, OneMailbox
  <2>12. ~Setting(handlers[h])
    BY <2>3 DEF Setting, NextIs
  <2>13. DefaultIsDue'
    BY <1>2, <2>9, <2>12 DEF LoopInv, DefaultIsDue, OneDefault
  <2>14. QED
    BY <2>1, <2>9, <2>10, <2>11, <2>13, LoopsStay DEF LoopInv
<1>3. QED
  BY <1>1, <1>2 DEF Loops!DeleteRow

\* The default goes to a mailbox that is left.
LEMMA RestoreHolds ==
  ASSUME LoopInv, Loops!LoopsAssumption, NEW h \in Handlers, Loops!Restore(h)
  PROVE  LoopInv'
<1>1. CASE rows' = rows
  <2>1. handlers[h] = [todo |-> handlers[h].todo, id |-> handlers[h].id, box |-> handlers[h].box,
                       default |-> handlers[h].default, loop |-> handlers[h].loop]
    BY DEF LoopInv, RequestsHeld, AccountRequest
  <2>2. QED
    BY <1>1, <2>1, DoStays, LoopsStay DEF LoopInv, Loops!Restore, Loops!Do, Loops!manager
<1>2. CASE \E r \in Loops!Heirs : rows' = Loops!DefaultIs(r.id)
  BY <1>2, SetDefaultHolds DEF Loops!Restore
<1>3. QED
  BY <1>1, <1>2 DEF Loops!Restore

\* A loop that is registered is triggered instead of started again.
LEMMA StartHolds ==
  ASSUME LoopInv, Loops!LoopsAssumption, NEW h \in Handlers, Loops!Start(h)
  PROVE  LoopInv'
<1> PICK i : i = handlers[h].id
  OBVIOUS
<1>1. Loops!At(h, "start") /\ rows' = rows /\ used' = used /\ down' = down /\ RequestsHeld
  BY DEF Loops!Start, LoopInv
<1>2. Left(Tail(handlers[h].todo)) /\ i \in 1..MaxAccounts
      /\ (Tail(handlers[h].todo) # <<>> =>
            Tail(handlers[h].todo)[1] # "find" /\ Tail(handlers[h].todo)[1] # "upsert")
  BY <1>1, StatementRuns
<1>3. ASSUME NEW list, handlers' = [handlers EXCEPT ![h].todo = list], Left(list),
             list # <<>> => list[1] # "find" /\ list[1] # "upsert"
      PROVE  RowsHeld' /\ RequestsHeld' /\ OneMailbox' /\ DefaultIsDue'
  <2>1. PICK r : r = [todo |-> list, id |-> handlers[h].id, box |-> handlers[h].box, default |-> handlers[h].default,
                      loop |-> handlers[h].loop]
    OBVIOUS
  <2>2. handlers' = [handlers EXCEPT ![h] = r]
    BY <1>1, <1>3, <2>1, TodoForm
  <2>3. r = [todo |-> list, id |-> handlers[h].id, box |-> handlers[h].box, default |-> handlers[h].default,
             loop |-> r.loop]
    BY <2>1
  <2>4. "start" \notin {"find", "default"} /\ "start" # "count"
    OBVIOUS
  <2>5. QED
    BY <1>1, <1>3, <2>2, <2>3, <2>4, RowsStay
<1>4. CASE /\ handlers' = [handlers EXCEPT ![h].todo = <<"wake">> \o Tail(@)]
           /\ registry' = registry /\ loops' = loops
  <2>1. Left(<<"wake">> \o Tail(handlers[h].todo)) /\ (<<"wake">> \o Tail(handlers[h].todo))[1] = "wake"
    BY <1>2, LeftWith
  <2>2. RowsHeld' /\ RequestsHeld' /\ OneMailbox' /\ DefaultIsDue'
    BY <1>3, <1>4, <2>1
  <2>3. QED
    BY <1>1, <1>4, <2>2, LoopsStay DEF LoopInv
<1>5. CASE /\ registry[i] = 0 /\ handlers' = [handlers EXCEPT ![h].todo = Tail(@)]
           /\ loops' = Append(loops, Loops!NewLoop(i)) /\ registry' = [registry EXCEPT ![i] = Len(loops) + 1]
  <2>1. RowsHeld' /\ RequestsHeld' /\ OneMailbox' /\ DefaultIsDue'
    BY <1>2, <1>3, <1>5
  <2>2. Loops!NewLoop(i) \in AccountLoop /\ Loops!NewLoop(i).id = i
    BY <1>2 DEF Loops!NewLoop, AccountLoop
  <2>3. loops \in Seq(AccountLoop) /\ Len(loops) \in Nat
    BY DEF LoopInv, LoopsHeld
  <2>4. /\ loops' \in Seq(AccountLoop) /\ Len(loops') = Len(loops) + 1 /\ loops'[Len(loops) + 1] = Loops!NewLoop(i)
        /\ \A l \in 1..Len(loops) : loops'[l] = loops[l]
        /\ DOMAIN loops' = 1..(Len(loops) + 1) /\ DOMAIN loops = 1..Len(loops)
    BY <1>5, <2>2, <2>3
  <2>5. /\ registry' = [j \in 1..MaxAccounts |-> registry'[j]]
        /\ registry'[i] = Len(loops) + 1 /\ \A j \in 1..MaxAccounts : j # i => registry'[j] = registry[j]
    BY <1>2, <1>5 DEF LoopInv, LoopsHeld
  <2>6. LoopsHeld'
    <3>1. \A j \in 1..MaxAccounts : registry'[j] \in 0..Len(loops')
      BY <2>3, <2>4, <2>5 DEF LoopInv, LoopsHeld
    <3>2. QED
      BY <2>4, <2>5, <3>1 DEF LoopsHeld
  <2>7. Loops!NoOrphan'
    <3> SUFFICES ASSUME NEW l \in DOMAIN loops', ~loops'[l].stop, ~down'
                 PROVE  registry'[loops'[l].id] = l
      BY DEF Loops!NoOrphan
    <3>1. CASE l = Len(loops) + 1
      BY <2>2, <2>4, <2>5, <3>1
    <3>2. CASE l \in 1..Len(loops)
      <4>1. l \in DOMAIN loops /\ loops'[l] = loops[l] /\ ~down
        BY <1>1, <2>3, <2>4, <3>2
      <4>2. registry[loops[l].id] = l /\ l # 0
        BY <3>2, <4>1 DEF LoopInv, Loops!NoOrphan
      <4>3. loops[l].id \in 1..MaxAccounts
        <5>1. loops[l] \in AccountLoop
          BY <2>3, <4>1
        <5>2. QED
          BY <5>1 DEF AccountLoop
      <4>4. QED
        BY <1>5, <2>5, <4>1, <4>2, <4>3
    <3>3. QED
      BY <2>3, <2>4, <3>1, <3>2
  <2>8. QED
    BY <2>1, <2>6, <2>7 DEF LoopInv
<1>6. QED
  BY <1>4, <1>5 DEF Loops!Start, Loops!Exists

\* Trigger looks for the channel of the loop.
LEMMA WakeHolds ==
  ASSUME LoopInv, Loops!LoopsAssumption, NEW h \in Handlers, Loops!Wake(h)
  PROVE  LoopInv'
<1> DEFINE word == IF Loops!Exists(handlers[h].id) THEN "send" ELSE "start"
<1> DEFINE list == <<word>> \o Tail(handlers[h].todo)
<1> DEFINE l == registry[handlers[h].id]
<1>1. /\ Loops!At(h, "wake") /\ rows' = rows /\ used' = used /\ registry' = registry /\ loops' = loops
      /\ down' = down /\ RequestsHeld
      /\ handlers' = [handlers EXCEPT ![h].loop = l, ![h].todo = <<word>> \o Tail(@)]
  BY DEF Loops!Wake, LoopInv, Loops!manager
<1>2. Left(Tail(handlers[h].todo))
      /\ (Tail(handlers[h].todo) # <<>> =>
            Tail(handlers[h].todo)[1] # "find" /\ Tail(handlers[h].todo)[1] # "upsert")
  BY <1>1, StatementRuns
<1>3. Left(list) /\ list[1] # "find" /\ list[1] # "upsert"
  <2>1. word \in {"wake", "send", "start"} /\ word # "find" /\ word # "upsert"
    OBVIOUS
  <2> HIDE DEF word
  <2>2. QED
    BY <1>2, <2>1, LeftWith
<1> HIDE DEF l, word
<1>4. PICK r : r = [todo |-> list, id |-> handlers[h].id, box |-> handlers[h].box, default |-> handlers[h].default,
                    loop |-> l]
  OBVIOUS
<1>5. handlers' = [handlers EXCEPT ![h] = r]
  <2>1. PICK q : q = handlers[h]
    OBVIOUS
  <2>2. q = [todo |-> q.todo, id |-> q.id, box |-> q.box, default |-> q.default, loop |-> q.loop]
    BY <1>1, <2>1 DEF RequestsHeld, AccountRequest
  <2>3. PICK t : t = [q EXCEPT !.loop = l]
    OBVIOUS
  <2>4. t = [todo |-> q.todo, id |-> q.id, box |-> q.box, default |-> q.default, loop |-> l]
    BY <2>2, <2>3
  <2>5. [t EXCEPT !.todo = list] = [todo |-> list, id |-> q.id, box |-> q.box, default |-> q.default, loop |-> l]
    <3> HIDE DEF list
    <3>1. QED
      BY <2>4
  <2>6. r = [t EXCEPT !.todo = list] /\ t.todo = handlers[h].todo
    BY <1>4, <2>1, <2>4, <2>5
  <2>7. handlers' = [handlers EXCEPT ![h] = [t EXCEPT !.todo = list]]
    <3>1. handlers = [g \in Handlers |-> handlers[g]]
      BY <1>1 DEF RequestsHeld
    <3>2. [handlers EXCEPT ![h].loop = l] = [handlers EXCEPT ![h] = t]
      BY <2>1, <2>3, <3>1
    <3>3. PICK f : f = [handlers EXCEPT ![h] = t]
      OBVIOUS
    <3>4. f[h] = t /\ f = [g \in Handlers |-> f[g]] /\ \A g \in Handlers : g # h => f[g] = handlers[g]
      BY <3>1, <3>3
    <3>5. handlers' = [f EXCEPT ![h].todo = list]
      BY <1>1, <2>6, <3>2, <3>3, <3>4
    <3>6. [f EXCEPT ![h].todo = list] = [f EXCEPT ![h] = [t EXCEPT !.todo = list]]
      BY <3>4
    <3>7. QED
      BY <3>1, <3>3, <3>4, <3>5, <3>6
  <2>8. QED
    BY <2>6, <2>7
<1>6. r = [todo |-> list, id |-> handlers[h].id, box |-> handlers[h].box, default |-> handlers[h].default,
           loop |-> r.loop]
  BY <1>4
<1> HIDE DEF list
<1>7. RowsHeld' /\ RequestsHeld' /\ OneMailbox' /\ DefaultIsDue'
  <2>1. "wake" \notin {"find", "default"} /\ "wake" # "count"
    OBVIOUS
  <2>2. QED
    BY <1>1, <1>3, <1>5, <1>6, <2>1, RowsStay
<1>8. QED
  BY <1>1, <1>7, LoopsStay DEF LoopInv

\* Loops that keep their mailbox and are not reprieved.
LEMMA LoopsGoOn ==
  ASSUME LoopInv, registry' = registry, down' = down, loops' \in Seq(AccountLoop), Len(loops') = Len(loops),
         \A l \in 1..Len(loops) : loops'[l].id = loops[l].id /\ (loops[l].stop => loops'[l].stop)
  PROVE  LoopsHeld' /\ Loops!NoOrphan'
<1>1. DOMAIN loops = 1..Len(loops) /\ DOMAIN loops' = 1..Len(loops)
  BY DEF LoopInv, LoopsHeld
<1>2. QED
  BY <1>1 DEF LoopInv, LoopsHeld, Loops!NoOrphan

\* A loop that goes on in another way.
LEMMA LoopChanges ==
  ASSUME NEW s \in Seq(AccountLoop), NEW l \in 1..Len(s), NEW r \in AccountLoop, r.id = s[l].id,
         s[l].stop => r.stop
  PROVE  /\ [s EXCEPT ![l] = r] \in Seq(AccountLoop) /\ Len([s EXCEPT ![l] = r]) = Len(s)
         /\ \A k \in 1..Len(s) : [s EXCEPT ![l] = r][k].id = s[k].id
                                 /\ (s[k].stop => [s EXCEPT ![l] = r][k].stop)
OBVIOUS

\* The channel has room for one signal.
LEMMA SendHolds ==
  ASSUME LoopInv, Loops!LoopsAssumption, NEW h \in Handlers, Loops!Send(h)
  PROVE  LoopInv'
<1>1. /\ loops' = [loops EXCEPT ![handlers[h].loop].wake = TRUE] /\ Loops!Run(h, "send", handlers[h])
      /\ rows' = rows /\ used' = used /\ registry' = registry /\ down' = down
  BY DEF Loops!Send, Loops!Do
<1>2. RowsHeld' /\ RequestsHeld' /\ OneMailbox' /\ DefaultIsDue'
  <2>1. handlers[h] = [todo |-> handlers[h].todo, id |-> handlers[h].id, box |-> handlers[h].box,
                       default |-> handlers[h].default, loop |-> handlers[h].loop]
    BY DEF LoopInv, RequestsHeld, AccountRequest
  <2>2. QED
    BY <1>1, <2>1, DoStays
<1> PICK l : l = handlers[h].loop
  OBVIOUS
<1>3. loops \in Seq(AccountLoop) /\ DOMAIN loops = 1..Len(loops)
  BY DEF LoopInv, LoopsHeld
<1>4. CASE l \in 1..Len(loops)
  <2>1. PICK r : r = [loops[l] EXCEPT !.wake = TRUE]
    OBVIOUS
  <2>2. r \in AccountLoop /\ r.id = loops[l].id /\ r.stop = loops[l].stop
    <3>1. loops[l] \in AccountLoop
      BY <1>3, <1>4
    <3>2. QED
      BY <2>1, <3>1 DEF AccountLoop
  <2>3. loops' = [loops EXCEPT ![l] = r]
    BY <1>1, <2>1
  <2>4. QED
    BY <1>1, <1>2, <1>3, <1>4, <2>2, <2>3, LoopChanges, LoopsGoOn DEF LoopInv
<1>5. CASE l \notin 1..Len(loops)
  <2>1. loops' = loops
    BY <1>1, <1>3, <1>5
  <2>2. QED
    BY <1>1, <1>2, <2>1, LoopsStay DEF LoopInv
<1>6. QED
  BY <1>4, <1>5

\* StopAccount: the entry goes and the loop is told.
LEMMA UnregisterHolds ==
  ASSUME LoopInv, Loops!LoopsAssumption, NEW h \in Handlers, Loops!Unregister(h)
  PROVE  LoopInv'
<1> PICK i : i = handlers[h].id
  OBVIOUS
<1> PICK l : l = registry[i]
  OBVIOUS
<1>1. /\ Loops!Run(h, "unregister", [handlers[h] EXCEPT !.loop = l])
      /\ registry' = [registry EXCEPT ![i] = 0]
      /\ loops' = IF l # 0 THEN [loops EXCEPT ![l].stop = TRUE] ELSE loops
      /\ rows' = rows /\ used' = used /\ down' = down
  BY DEF Loops!Unregister, Loops!Exists
<1>2. RequestsHeld /\ Loops!At(h, "unregister") /\ i \in 1..MaxAccounts
  BY <1>1, StatementRuns DEF LoopInv, Loops!Run
<1>3. RowsHeld' /\ RequestsHeld' /\ OneMailbox' /\ DefaultIsDue'
  <2>1. PICK q : q = handlers[h]
    OBVIOUS
  <2>2. q = [todo |-> q.todo, id |-> q.id, box |-> q.box, default |-> q.default, loop |-> q.loop]
    BY <1>2, <2>1 DEF RequestsHeld, AccountRequest
  <2>3. PICK r : r = [q EXCEPT !.loop = l]
    OBVIOUS
  <2>4. r = [todo |-> q.todo, id |-> q.id, box |-> q.box, default |-> q.default, loop |-> l]
    BY <2>2, <2>3
  <2>5. r.loop = l /\ r.todo = q.todo
    BY <2>4
  <2>6. QED
    BY <1>1, <2>1, <2>3, <2>4, <2>5, DoStays
<1>4. loops \in Seq(AccountLoop) /\ DOMAIN loops = 1..Len(loops) /\ Len(loops) \in Nat /\ l \in 0..Len(loops)
  BY <1>2 DEF LoopInv, LoopsHeld
<1>5. /\ registry' = [j \in 1..MaxAccounts |-> registry'[j]]
      /\ registry'[i] = 0 /\ \A j \in 1..MaxAccounts : j # i => registry'[j] = registry[j]
  BY <1>1, <1>2 DEF LoopInv, LoopsHeld
<1>6. /\ loops' \in Seq(AccountLoop) /\ Len(loops') = Len(loops)
      /\ \A k \in 1..Len(loops) : loops'[k].id = loops[k].id /\ (loops[k].stop => loops'[k].stop)
      /\ l # 0 => loops'[l].stop
  <2>1. CASE l = 0
    BY <1>1, <1>4, <2>1
  <2>2. CASE l \in 1..Len(loops)
    <3>1. PICK r : r = [loops[l] EXCEPT !.stop = TRUE]
      OBVIOUS
    <3>2. r \in AccountLoop /\ r.id = loops[l].id /\ r.stop
      <4>1. loops[l] \in AccountLoop
        BY <1>4, <2>2
      <4>2. QED
        BY <3>1, <4>1 DEF AccountLoop
    <3>3. loops' = [loops EXCEPT ![l] = r]
      BY <1>1, <2>2, <3>1
    <3>4. loops'[l] = r
      BY <1>4, <2>2, <3>3
    <3>5. QED
      BY <1>4, <2>2, <3>2, <3>3, <3>4, LoopChanges
  <2>3. QED
    BY <1>4, <2>1, <2>2
<1>7. LoopsHeld'
  <2>1. \A j \in 1..MaxAccounts : registry'[j] \in 0..Len(loops')
    BY <1>4, <1>5, <1>6 DEF LoopInv, LoopsHeld
  <2>2. QED
    BY <1>5, <1>6, <2>1 DEF LoopsHeld
<1>8. Loops!NoOrphan'
  <2> SUFFICES ASSUME NEW k \in DOMAIN loops', ~loops'[k].stop, ~down'
               PROVE  registry'[loops'[k].id] = k
    BY DEF Loops!NoOrphan
  <2>1. k \in 1..Len(loops) /\ loops'[k].id = loops[k].id /\ ~loops[k].stop /\ ~down /\ k # 0 /\ k # l
    BY <1>1, <1>4, <1>6
  <2>2. registry[loops[k].id] = k /\ loops[k].id \in 1..MaxAccounts
    <3>1. loops[k] \in AccountLoop /\ k \in DOMAIN loops
      BY <1>4, <2>1
    <3>2. QED
      BY <2>1, <3>1 DEF LoopInv, Loops!NoOrphan, AccountLoop
  <2>3. QED
    BY <1>5, <2>1, <2>2
<1>9. QED
  BY <1>3, <1>7, <1>8 DEF LoopInv

\* A loop that was told to stop has ended.
LEMMA AwaitHolds ==
  ASSUME LoopInv, Loops!LoopsAssumption, NEW h \in Handlers, Loops!Await(h)
  PROVE  LoopInv'
<1>1. handlers[h] = [todo |-> handlers[h].todo, id |-> handlers[h].id, box |-> handlers[h].box,
                     default |-> handlers[h].default, loop |-> handlers[h].loop]
  BY DEF LoopInv, RequestsHeld, AccountRequest
<1>2. QED
  BY <1>1, DoStays, LoopsStay DEF LoopInv, Loops!Await, Loops!Do, Loops!manager

\* Stop tells every registered loop.
LEMMA StopHolds ==
  ASSUME LoopInv, Loops!Stop
  PROVE  LoopInv'
<1>1. /\ down' = TRUE /\ registry' = [i \in 1..MaxAccounts |-> 0]
      /\ loops' = [l \in DOMAIN loops |-> [loops[l] EXCEPT !.stop = @ \/ \E i \in 1..MaxAccounts : registry[i] = l]]
      /\ rows' = rows /\ used' = used /\ handlers' = handlers
  BY DEF Loops!Stop, Loops!AccountIds
<1>2. loops \in Seq(AccountLoop) /\ DOMAIN loops = 1..Len(loops) /\ Len(loops) \in Nat
  BY DEF LoopInv, LoopsHeld
<1>3. ASSUME NEW l \in 1..Len(loops)
      PROVE  loops'[l] \in AccountLoop
  <2>1. PICK b \in BOOLEAN : b = (loops[l].stop \/ \E i \in 1..MaxAccounts : registry[i] = l)
    OBVIOUS
  <2>2. loops'[l] = [loops[l] EXCEPT !.stop = b]
    BY <1>1, <1>2, <2>1
  <2>3. loops[l] \in AccountLoop
    BY <1>2
  <2>4. QED
    BY <2>2, <2>3 DEF AccountLoop
<1>4. LoopsHeld'
  <2>1. DOMAIN loops' = 1..Len(loops) /\ loops' = [l \in 1..Len(loops) |-> loops'[l]]
    BY <1>1, <1>2
  <2>2. loops' \in Seq(AccountLoop) /\ Len(loops') = Len(loops)
    BY <1>2, <1>3, <2>1
  <2>3. \A j \in 1..MaxAccounts : registry'[j] = 0
    BY <1>1
  <2>4. registry' = [j \in 1..MaxAccounts |-> registry'[j]]
    BY <1>1
  <2>5. 0 \in 0..Len(loops')
    BY <1>2, <2>2
  <2>6. QED
    BY <2>2, <2>3, <2>4, <2>5 DEF LoopsHeld
<1>5. Loops!NoOrphan'
  BY <1>1 DEF Loops!NoOrphan
<1>6. RowsHeld' /\ RequestsHeld' /\ OneMailbox' /\ DefaultIsDue'
  BY <1>1 DEF LoopInv, RowsHeld, RequestsHeld, OneMailbox, DefaultIsDue, OneDefault
<1>7. QED
  BY <1>4, <1>5, <1>6 DEF LoopInv

\* A loop takes a step.
LEMMA AtWorkHolds ==
  ASSUME LoopInv, NEW l \in DOMAIN loops, Loops!AtWork(l)
  PROVE  LoopInv'
<1>1. rows' = rows /\ used' = used /\ handlers' = handlers /\ registry' = registry /\ down' = down
  BY DEF Loops!AtWork, Loops!EndPass, Loops!Wakes, Loops!Ticks, Loops!Ends
<1>2. loops \in Seq(AccountLoop) /\ l \in 1..Len(loops)
  BY DEF LoopInv, LoopsHeld
<1>3. \E r \in AccountLoop : loops' = [loops EXCEPT ![l] = r] /\ r.id = loops[l].id /\ r.stop = loops[l].stop
  <2>1. loops[l] \in AccountLoop
    BY <1>2
  <2>2. ASSUME NEW p \in {"pass", "wait", "over"}, loops' = [loops EXCEPT ![l].pc = p]
        PROVE  \E r \in AccountLoop : loops' = [loops EXCEPT ![l] = r] /\ r.id = loops[l].id /\ r.stop = loops[l].stop
    <3>1. PICK r : r = [loops[l] EXCEPT !.pc = p]
      OBVIOUS
    <3>2. r \in AccountLoop /\ r.id = loops[l].id /\ r.stop = loops[l].stop
      BY <2>1, <3>1 DEF AccountLoop
    <3>3. QED
      BY <2>2, <3>1, <3>2
  <2>3. CASE loops' = [loops EXCEPT ![l].pc = "pass", ![l].wake = FALSE]
    <3>1. PICK r : r = [loops[l] EXCEPT !.pc = "pass", !.wake = FALSE]
      OBVIOUS
    <3>2. r \in AccountLoop /\ r.id = loops[l].id /\ r.stop = loops[l].stop
      BY <2>1, <3>1 DEF AccountLoop
    <3>3. loops' = [loops EXCEPT ![l] = r]
      BY <1>2, <2>3, <3>1
    <3>4. QED
      BY <3>2, <3>3
  <2>4. QED
    BY <2>2, <2>3 DEF Loops!AtWork, Loops!EndPass, Loops!Wakes, Loops!Ticks, Loops!Ends, Loops!Looping
<1>4. LoopsHeld' /\ Loops!NoOrphan'
  BY <1>1, <1>2, <1>3, LoopChanges, LoopsGoOn
<1>5. RowsHeld' /\ RequestsHeld' /\ OneMailbox' /\ DefaultIsDue'
  BY <1>1 DEF LoopInv, RowsHeld, RequestsHeld, OneMailbox, DefaultIsDue, OneDefault
<1>6. QED
  BY <1>4, <1>5 DEF LoopInv

\* A step of the accounts.
LEMMA LoopStep ==
  ASSUME LoopInv, Loops!LoopsAssumption, Loops!Next
  PROVE  LoopInv'
<1>1. CASE Loops!Request
  BY <1>1, RequestBegins
<1>2. CASE Loops!Stop
  BY <1>2, StopHolds
<1>3. CASE \E h \in Handlers : Loops!Handle(h)
  <2> PICK h \in Handlers : Loops!Handle(h)
    BY <1>3
  <2>1. CASE Loops!Find(h)
    BY <2>1, FindHolds
  <2>2. CASE Loops!Read(h)
    BY <2>2, ReadHolds
  <2>3. CASE Loops!Upsert(h)
    BY <2>3, UpsertHolds
  <2>4. CASE Loops!Count(h)
    BY <2>4, CountHolds
  <2>5. CASE Loops!SetDefault(h)
    BY <2>5, SetDefaultHolds DEF Loops!SetDefault
  <2>6. CASE Loops!Get(h)
    BY <2>6, GetHolds
  <2>7. CASE Loops!DeleteRow(h)
    BY <2>7, DeleteRowHolds
  <2>8. CASE Loops!Restore(h)
    BY <2>8, RestoreHolds
  <2>9. CASE Loops!Start(h)
    BY <2>9, StartHolds
  <2>10. CASE Loops!Wake(h)
    BY <2>10, WakeHolds
  <2>11. CASE Loops!Send(h)
    BY <2>11, SendHolds
  <2>12. CASE Loops!Unregister(h)
    BY <2>12, UnregisterHolds
  <2>13. CASE Loops!Await(h)
    BY <2>13, AwaitHolds
  <2>14. QED
    BY <2>1, <2>2, <2>3, <2>4, <2>5, <2>6, <2>7, <2>8, <2>9, <2>10, <2>11, <2>12, <2>13 DEF Loops!Handle
<1>4. CASE \E l \in DOMAIN loops : Loops!AtWork(l)
  BY <1>4, AtWorkHolds
<1>5. QED
  BY <1>1, <1>2, <1>3, <1>4 DEF Loops!Next

\* Where the accounts begin.
LEMMA LoopsBegin ==
  ASSUME Loops!LoopsAssumption, Loops!Init
  PROVE  LoopInv
<1>1. /\ IsFiniteSet(Mailboxes) /\ Cardinality(Mailboxes) <= MaxAccounts /\ MaxAccounts \in Nat \ {0}
      /\ Cardinality(Mailboxes) \in Nat
  BY SameCount, FS_CardinalityType DEF Loops!LoopsAssumption
<1>2. PICK n \in 0..Cardinality(Mailboxes) :
        /\ used = n
        /\ \E f \in [1..n -> Mailboxes] :
             /\ Cardinality({f[i] : i \in 1..n}) = n
             /\ rows = {[id |-> i, box |-> f[i], default |-> i = 1] : i \in 1..n}
  BY SameCount, Zenon DEF Loops!Init
<1>3. PICK f \in [1..n -> Mailboxes] :
             /\ Cardinality({f[i] : i \in 1..n}) = n
             /\ rows = {[id |-> i, box |-> f[i], default |-> i = 1] : i \in 1..n}
  BY <1>2
<1>4. n \in Nat /\ n \in 0..MaxAccounts /\ used = n
  BY <1>1, <1>2
<1>5. IsFiniteSet(1..n) /\ Cardinality(1..n) = n
  BY <1>4, FS_Interval
<1>6. \A i, j \in 1..n : f[i] = f[j] => i = j
  <2>1. f \in Surjection(1..n, {f[i] : i \in 1..n})
    BY <1>3 DEF Surjection
  <2>2. f \in Injection(1..n, {f[i] : i \in 1..n})
    BY <1>3, <1>5, <2>1, FS_Surjection
  <2>3. QED
    BY <2>2 DEF Injection, IsInjective
<1>7. \A r \in rows : \E i \in 1..n : r.id = i /\ r.box = f[i] /\ r.default = (i = 1)
                                     /\ r = [id |-> r.id, box |-> r.box, default |-> r.default]
  <2> SUFFICES ASSUME NEW r \in rows
               PROVE  \E i \in 1..n : r.id = i /\ r.box = f[i] /\ r.default = (i = 1)
                                     /\ r = [id |-> r.id, box |-> r.box, default |-> r.default]
    OBVIOUS
  <2>1. PICK i \in 1..n : r = [id |-> i, box |-> f[i], default |-> i = 1]
    BY <1>3, Zenon
  <2>2. r.id = i /\ r.box = f[i] /\ r.default = (i = 1)
        /\ r = [id |-> r.id, box |-> r.box, default |-> r.default]
    <3>1. PICK b \in BOOLEAN : b = (i = 1)
      OBVIOUS
    <3>2. r = [id |-> i, box |-> f[i], default |-> b]
      BY <2>1, <3>1, Zenon
    <3>3. r.id = i /\ r.box = f[i] /\ r.default = b /\ r = [id |-> r.id, box |-> r.box, default |-> r.default]
      BY <3>2
    <3>4. QED
      BY <3>1, <3>3
  <2>3. QED
    BY <2>2
<1>8. RowsHeld
  <2>1. IsFiniteSet(rows)
    <3>1. PICK g : g = [i \in 1..n |-> [id |-> i, box |-> f[i], default |-> i = 1]]
      OBVIOUS
    <3>2. rows = {g[i] : i \in 1..n} /\ g = [i \in 1..n |-> g[i]]
      BY <1>3, <3>1, Zenon
    <3>3. g \in Surjection(1..n, rows)
      BY <3>2 DEF Surjection
    <3>4. QED
      BY <1>5, <3>3, FS_Surjection
  <2>2. \A r \in rows : AccountRow(r, used)
    BY <1>3, <1>4, <1>7 DEF AccountRow
  <2>3. \A r, s \in rows : r.id = s.id \/ r.box = s.box => r = s
    BY <1>6, <1>7
  <2>4. QED
    BY <1>4, <2>1, <2>2, <2>3 DEF RowsHeld
<1>9. OneDefault
  <2>1. \A r \in rows : r.default => r.id = 1
    BY <1>7, Zenon
  <2>2. QED
    BY <1>8, <2>1 DEF OneDefault, RowsHeld
<1>10. LoopsHeld /\ Loops!NoOrphan
  <2>1. /\ registry = [i \in 1..MaxAccounts |-> IF i <= n THEN i ELSE 0]
        /\ loops = [l \in 1..n |-> Loops!NewLoop(l)]
    BY <1>4 DEF Loops!Init, Loops!AccountIds
  <2>2. \A l \in 1..n : Loops!NewLoop(l) \in AccountLoop /\ Loops!NewLoop(l).id = l
    <3>1. \A l \in 1..n : l \in 1..MaxAccounts
      BY <1>1, <1>4
    <3>2. QED
      BY <3>1 DEF Loops!NewLoop, AccountLoop
  <2>3. loops \in Seq(AccountLoop) /\ Len(loops) = n /\ DOMAIN loops = 1..n
    BY <1>4, <2>1, <2>2
  <2>4. \A i \in 1..MaxAccounts : registry[i] \in 0..Len(loops)
    BY <1>4, <2>1, <2>3
  <2>5. \A l \in DOMAIN loops : registry[loops[l].id] = l
    <3>1. \A l \in 1..n : loops[l].id = l /\ l \in 1..MaxAccounts /\ l <= n
      BY <1>1, <1>4, <2>1, <2>2
    <3>2. QED
      BY <2>1, <2>3, <3>1
  <2>6. QED
    BY <2>1, <2>3, <2>4, <2>5 DEF LoopsHeld, Loops!NoOrphan
<1>11. RequestsHeld /\ OneMailbox
  <2>1. handlers = [h \in Handlers |-> Loops!NoRequest]
    BY DEF Loops!Init
  <2>2. AccountRequest(Loops!NoRequest, used) /\ Loops!NoRequest.todo = <<>>
    BY <1>1, RequestForms
  <2>3. \A h \in Handlers : ~NextIs(handlers[h], "upsert")
    BY <2>1, <2>2 DEF NextIs
  <2>4. QED
    BY <2>1, <2>2, <2>3 DEF RequestsHeld, OneMailbox
<1>12. QED
  BY <1>8, <1>9, <1>10, <1>11 DEF LoopInv, DefaultIsDue

\* What the invariant says of the accounts.
LEMMA LoopsAreSafe ==
  ASSUME LoopInv
  PROVE  Loops!NoOrphan /\ Loops!AtMostOneDefault
<1>1. ASSUME \A h \in Handlers : handlers[h].todo = <<>>
      PROVE  Cardinality({r \in rows : r.default}) <= 1
  <2>1. OneDefault
    BY <1>1 DEF LoopInv, DefaultIsDue, Setting, NextIs
  <2>2. PICK D : D = {r \in rows : r.default}
    OBVIOUS
  <2>3. \A r, s \in D : r = s
    BY <2>1, <2>2 DEF OneDefault
  <2>4. Cardinality(D) <= 1
    <3>1. CASE D = {}
      BY <3>1, FS_EmptySet
    <3>2. CASE D # {}
      <4>1. PICK r \in D : D = {r}
        BY <2>3, <3>2
      <4>2. Cardinality({r}) = 1
        BY FS_Singleton
      <4>3. QED
        BY <4>1, <4>2
    <3>3. QED
      BY <3>1, <3>2
  <2>5. QED
    BY <2>2, <2>4
<1>2. QED
  BY <1>1, SameCount DEF LoopInv, Loops!AtMostOneDefault

-----------------------------------------------------------------------------

\* A count of Realtime is a count.
LEMMA SameCountOfEvents ==
  \A S : Events!Cardinality(S) = Cardinality(S)
BY DEF Cardinality, IsFiniteSet, Events!Cardinality, Events!IsFiniteSet

(* The event stream of the tabs (Realtime) *)

Revisions == Nat \X Nat
Older(r, s) == r[1] < s[1] \/ (r[1] = s[1] /\ r[2] < s[2])
NotNewer(r, s) == r = s \/ Older(r, s)
Frames == [kind : {"resync", "changed"}, rev : Revisions, origin : Tabs \cup {Nobody}]
StreamForm == [phase : {"off", "asked", "joined", "open"}, overflow : BOOLEAN, frames : Seq(Frames)]
FetchForm == [step : {"none", "reading", "listed", "same"}, rev : Revisions, data : Nat]
ListForm == [rev : Revisions, data : Nat]
WriterForm == [step : {"idle", "handling", "written", "syncing", "synced", "answered"}, tab : Tabs \cup {Nobody}]

EventTypes ==
  /\ changed \in Nat /\ revision \in Revisions /\ unheard \in BOOLEAN
  /\ writers \in [Writers -> WriterForm]
  /\ \A w \in Writers : writers[w].step \in {"handling", "written", "answered"} => writers[w].tab \in Tabs
  /\ streams \in [Tabs -> StreamForm] /\ cache \in [Tabs -> ListForm] /\ fetches \in [Tabs -> FetchForm]
  /\ due \in [Tabs -> BOOLEAN] /\ Nobody \notin Tabs

\* A list is never of a later revision than the request that replaces it, nor that than the hub's.
RevisionsInOrder ==
  \A t \in Tabs :
    /\ NotNewer(cache[t].rev, revision)
    /\ fetches[t].step \in {"reading", "listed"} =>
         NotNewer(cache[t].rev, fetches[t].rev) /\ NotNewer(fetches[t].rev, revision)

\* Somebody has committed a change and is still to publish it, or has given that up.
Unpublished == unheard \/ \E w \in Writers : writers[w].step \in {"written", "synced"}

\* What makes a tab fetch once more, if what it has is of this revision.
Alerts(frame, t, rev) ==
  IF frame.kind = "changed" THEN frame.origin # t ELSE Older(rev, frame.rev)
Told(t, rev) ==
  \/ due[t] \/ streams[t].phase # "open" \/ streams[t].overflow
  \/ \E k \in DOMAIN streams[t].frames : Alerts(streams[t].frames[k], t, rev)
  \/ \E w \in Writers : writers[w] = [step |-> "answered", tab |-> t]
Owed(t, rev) == Unpublished \/ Told(t, rev)

\* A list of the tab that is no longer the mailbox's, and its revision.
Behind(t, rev) ==
  \/ cache[t] # Events!NoList /\ cache[t].data # changed /\ rev = cache[t].rev
  \/ fetches[t].step = "listed" /\ fetches[t].data # changed /\ rev = fetches[t].rev

\* A list of this revision is the mailbox's, but for changes that are not published.
RevisionNamesList == \A t \in Tabs : Behind(t, revision) => Unpublished

\* A stale list is being replaced, or will be.
StaleIsOwed ==
  \A t \in Tabs :
    cache[t] # Events!NoList =>
      /\ cache[t].data # changed /\ t \notin early =>
           Owed(t, cache[t].rev) \/ fetches[t].step \in {"reading", "listed"}
      /\ fetches[t].step = "listed" /\ fetches[t].data # changed => Owed(t, fetches[t].rev)
      /\ fetches[t].step = "same" /\ cache[t].data # changed => Owed(t, cache[t].rev)

WatchersHeld ==
  /\ IsFiniteSet(running) /\ Cardinality(running) <= MaxIdleWatchers
  /\ stop # 0 => stop \in running /\ Events!Subscribed # {}

EventInv == EventTypes /\ RevisionsInOrder /\ RevisionNamesList /\ StaleIsOwed /\ WatchersHeld

\* What the invariant says of the tabs and the watchers.
LEMMA EventsAreFresh ==
  ASSUME EventInv
  PROVE  Events!QuietIsFresh /\ Events!WatcherServes
<1>1. ASSUME NEW t \in Tabs, Events!AtRest(t), ~unheard, t \notin early
      PROVE  cache[t].data = changed
  <2>1. /\ \A w \in Writers : writers[w] = Events!Idle
        /\ streams[t].phase = "open" /\ ~streams[t].overflow /\ streams[t].frames = <<>>
        /\ cache[t] # Events!NoList /\ ~due[t] /\ fetches[t] = Events!NoFetch
    BY <1>1 DEF Events!AtRest
  <2>2. fetches[t].step = "none"
    BY <2>1 DEF Events!NoFetch
  <2>3. \A w \in Writers : writers[w].step = "idle"
    BY <2>1 DEF Events!Idle
  <2>4. ~Told(t, cache[t].rev)
    BY <2>1, <2>3 DEF Told
  <2>5. ~Owed(t, cache[t].rev)
    BY <1>1, <2>3, <2>4 DEF Owed, Unpublished
  <2>6. QED
    BY <1>1, <2>1, <2>2, <2>5 DEF EventInv, StaleIsOwed
<1>2. QED
  BY <1>1, SameCountOfEvents DEF EventInv, WatchersHeld, Events!QuietIsFresh, Events!WatcherServes

\* Where the tabs begin.
LEMMA EventsBegin ==
  ASSUME Events!RealtimeAssumption, Events!Init
  PROVE  EventInv
<1>1. /\ changed = 1 /\ revision = <<1, 0>> /\ unheard = FALSE
      /\ writers = [w \in Writers |-> Events!Idle]
      /\ streams = [t \in Tabs |-> Events!Off] /\ stop = 0 /\ running = {}
      /\ cache = [t \in Tabs |-> Events!NoList] /\ due = [t \in Tabs |-> FALSE]
      /\ fetches = [t \in Tabs |-> Events!NoFetch] /\ early = {}
  BY DEF Events!Init
<1>2. Events!Idle \in WriterForm /\ Events!Idle.step = "idle"
  BY DEF Events!Idle, WriterForm
<1>3. Events!Off \in StreamForm
  <2>1. <<>> \in Seq(Frames)
    OBVIOUS
  <2>2. QED
    BY <2>1 DEF Events!Off, StreamForm
<1>4. Events!NoList \in ListForm /\ Events!NoList.rev = <<0, 0>>
  BY DEF Events!NoList, ListForm, Revisions
<1>5. Events!NoFetch \in FetchForm /\ Events!NoFetch.step = "none"
  BY DEF Events!NoFetch, FetchForm, Revisions
<1>6. EventTypes
  BY <1>1, <1>2, <1>3, <1>4, <1>5 DEF EventTypes, Revisions, Events!RealtimeAssumption
<1>7. RevisionsInOrder /\ RevisionNamesList
  BY <1>1, <1>4, <1>5 DEF RevisionsInOrder, RevisionNamesList, NotNewer, Older, Behind
<1>8. StaleIsOwed
  BY <1>1 DEF StaleIsOwed
<1>9. WatchersHeld
  BY <1>1, FS_EmptySet DEF WatchersHeld, Events!RealtimeAssumption
<1>10. QED
  BY <1>6, <1>7, <1>8, <1>9 DEF EventInv


\* The order of the revisions.
LEMMA RevisionOrder ==
  ASSUME NEW r \in Revisions, NEW s \in Revisions, NEW u \in Revisions
  PROVE  /\ NotNewer(r, s) /\ Older(s, u) => Older(r, u)
         /\ NotNewer(r, s) /\ NotNewer(s, u) => NotNewer(r, u)
         /\ Older(r, s) => r # s
         /\ NotNewer(r, s) /\ r # s => Older(r, s)
         /\ <<s[1], s[2] + 1>> \in Revisions /\ Older(s, <<s[1], s[2] + 1>>)
         /\ <<s[1] + 1, 0>> \in Revisions /\ Older(s, <<s[1] + 1, 0>>)
<1>1. r[1] \in Nat /\ r[2] \in Nat /\ s[1] \in Nat /\ s[2] \in Nat /\ u[1] \in Nat /\ u[2] \in Nat
  BY DEF Revisions
<1>2. <<s[1], s[2] + 1>> \in Revisions /\ <<s[1] + 1, 0>> \in Revisions
  BY <1>1 DEF Revisions
<1>3. QED
  BY <1>1, <1>2 DEF NotNewer, Older

\* A frame that is sent to a stream.
LEMMA FrameSent ==
  ASSUME NEW f \in Frames, NEW x \in StreamForm, Buffer \in Nat
  PROVE  /\ Events!Sent(x, f) \in StreamForm /\ Events!Sent(x, f).phase = x.phase
         /\ x.overflow => Events!Sent(x, f).overflow
         /\ \A k \in DOMAIN x.frames : /\ k \in DOMAIN Events!Sent(x, f).frames
                                       /\ Events!Sent(x, f).frames[k] = x.frames[k]
         /\ Events!Sent(x, f).overflow \/ \E k \in DOMAIN Events!Sent(x, f).frames : Events!Sent(x, f).frames[k] = f
<1>1. x.frames \in Seq(Frames) /\ Len(x.frames) \in Nat /\ DOMAIN x.frames = 1..Len(x.frames)
  BY DEF StreamForm
<1>2. CASE Len(x.frames) < Buffer
  <2>1. PICK y : y = Append(x.frames, f)
    OBVIOUS
  <2>2. y \in Seq(Frames) /\ DOMAIN y = 1..(Len(x.frames) + 1) /\ y[Len(x.frames) + 1] = f
        /\ \A k \in 1..Len(x.frames) : y[k] = x.frames[k]
    BY <1>1, <2>1
  <2>3. Events!Sent(x, f) = [x EXCEPT !.frames = y]
    BY <1>2, <2>1 DEF Events!Sent
  <2>4. [x EXCEPT !.frames = y] \in StreamForm /\ [x EXCEPT !.frames = y].phase = x.phase
        /\ [x EXCEPT !.frames = y].overflow = x.overflow /\ [x EXCEPT !.frames = y].frames = y
    BY <2>2 DEF StreamForm
  <2>5. QED
    BY <1>1, <2>2, <2>3, <2>4
<1>3. CASE ~(Len(x.frames) < Buffer)
  <2>1. Events!Sent(x, f) = [x EXCEPT !.overflow = TRUE]
    BY <1>3 DEF Events!Sent
  <2>2. [x EXCEPT !.overflow = TRUE] \in StreamForm /\ [x EXCEPT !.overflow = TRUE].phase = x.phase
        /\ [x EXCEPT !.overflow = TRUE].overflow /\ [x EXCEPT !.overflow = TRUE].frames = x.frames
    BY DEF StreamForm
  <2>3. QED
    BY <2>1, <2>2
<1>4. QED
  BY <1>2, <1>3

\* What the tabs hear as an event is published, whatever the list they have.
Reached(t) ==
  \/ streams[t].phase # "open" \/ streams[t].overflow
  \/ \E k \in DOMAIN streams[t].frames : streams[t].frames[k].kind = "changed" /\ streams[t].frames[k].origin # t

\* An event reaches every tab that is subscribed, save the one that caused it.
LEMMA EventReaches ==
  ASSUME EventTypes, Events!RealtimeAssumption, NEW origin \in Tabs \cup {Nobody}, Events!Publish(origin)
  PROVE  /\ streams' \in [Tabs -> StreamForm] /\ \A t \in Tabs : streams'[t].phase = streams[t].phase
         /\ \A t \in Tabs : origin # t => Reached(t)'
         /\ revision' \in Revisions /\ Older(revision, revision') /\ unheard' = FALSE
<1>1. /\ revision' = <<revision[1], revision[2] + 1>> /\ unheard' = FALSE
      /\ streams' = [t \in Tabs |-> IF t \in Events!Subscribed THEN Events!Sent(streams[t], Events!Changed(origin))
                                    ELSE streams[t]]
  BY DEF Events!Publish, Events!Ahead
<1>2. revision' \in Revisions /\ Older(revision, revision')
  BY <1>1, RevisionOrder DEF EventTypes
<1>3. Events!Changed(origin) \in Frames /\ Events!Changed(origin).kind = "changed"
      /\ Events!Changed(origin).origin = origin
  BY DEF Events!Changed, Frames, Revisions
<1>4. Buffer \in Nat
  BY DEF Events!RealtimeAssumption
<1>5. ASSUME NEW t \in Tabs
      PROVE  streams'[t] \in StreamForm /\ streams'[t].phase = streams[t].phase /\ (origin # t => Reached(t)')
  <2>1. streams[t] \in StreamForm
    BY DEF EventTypes
  <2>2. CASE t \in Events!Subscribed
    <3>1. PICK x : x = Events!Sent(streams[t], Events!Changed(origin))
      OBVIOUS
    <3>2. /\ x \in StreamForm /\ x.phase = streams[t].phase
          /\ x.overflow \/ \E k \in DOMAIN x.frames : x.frames[k] = Events!Changed(origin)
      BY <1>3, <1>4, <2>1, <3>1, FrameSent
    <3>3. streams'[t] = x
      BY <1>1, <2>2, <3>1
    <3>4. QED
      BY <1>3, <3>2, <3>3 DEF Reached
  <2>3. CASE t \notin Events!Subscribed
    BY <1>1, <2>1, <2>3 DEF Events!Subscribed, Reached
  <2>4. QED
    BY <2>2, <2>3
<1>6. streams' \in [Tabs -> StreamForm]
  <2>1. streams' = [t \in Tabs |-> streams'[t]]
    BY <1>1
  <2>2. QED
    BY <1>5, <2>1
<1>7. QED
  BY <1>1, <1>2, <1>5, <1>6

\* The lists stay, and the revision stays or moves on.
LEMMA ListsStay ==
  ASSUME EventInv, EventTypes', cache' = cache, fetches' = fetches, changed' = changed, early' = early,
         \/ revision' = revision /\ (Unpublished => Unpublished')
         \/ Older(revision, revision'),
         \A t \in Tabs, rev \in Revisions :
           cache[t] # Events!NoList /\ Behind(t, rev) /\ Owed(t, rev) => Owed(t, rev)'
  PROVE  RevisionsInOrder' /\ RevisionNamesList' /\ StaleIsOwed'
<1>1. revision \in Revisions /\ revision' \in Revisions
  BY DEF EventInv, EventTypes
<1>2. \A t \in Tabs : cache[t].rev \in Revisions /\ fetches[t].rev \in Revisions
  BY DEF EventInv, EventTypes, ListForm, FetchForm
<1>3. \A t \in Tabs, rev \in Revisions : NotNewer(rev, revision) => NotNewer(rev, revision')
                                       /\ (Older(revision, revision') => rev # revision')
  BY <1>1, RevisionOrder DEF NotNewer
<1>4. RevisionsInOrder'
  BY <1>2, <1>3 DEF EventInv, RevisionsInOrder
<1>5. RevisionNamesList'
  <2> SUFFICES ASSUME NEW t \in Tabs, Behind(t, revision)'
               PROVE  Unpublished'
    BY DEF RevisionNamesList
  <2>1. Behind(t, revision')
    BY DEF Behind
  <2>2. NotNewer(revision', revision)
    BY <2>1 DEF Behind, EventInv, RevisionsInOrder
  <2>3. ~Older(revision, revision')
    BY <1>1, <1>3, <2>2
  <2>4. QED
    BY <2>1, <2>3 DEF EventInv, RevisionNamesList
<1>6. StaleIsOwed'
  <2> SUFFICES ASSUME NEW t \in Tabs, cache[t] # Events!NoList
               PROVE  /\ cache[t].data # changed /\ t \notin early =>
                           Owed(t, cache[t].rev)' \/ fetches[t].step \in {"reading", "listed"}
                      /\ fetches[t].step = "listed" /\ fetches[t].data # changed => Owed(t, fetches[t].rev)'
                      /\ fetches[t].step = "same" /\ cache[t].data # changed => Owed(t, cache[t].rev)'
    BY DEF StaleIsOwed, Owed, Told
  <2>1. /\ cache[t].data # changed => (Owed(t, cache[t].rev) => Owed(t, cache[t].rev)')
        /\ fetches[t].step = "listed" /\ fetches[t].data # changed => (Owed(t, fetches[t].rev) => Owed(t, fetches[t].rev)')
    BY <1>2 DEF Behind
  <2>2. QED
    BY <2>1 DEF EventInv, StaleIsOwed
<1>7. QED
  BY <1>4, <1>5, <1>6

\* A change is committed, and is still to be published.
LEMMA ChangeIsUnpublished ==
  ASSUME EventInv, Unpublished', cache' = cache, fetches' = fetches, revision' = revision
  PROVE  RevisionsInOrder' /\ RevisionNamesList' /\ StaleIsOwed'
<1>1. RevisionsInOrder'
  BY DEF EventInv, RevisionsInOrder
<1>2. RevisionNamesList' /\ StaleIsOwed'
  BY DEF RevisionNamesList, StaleIsOwed, Owed
<1>3. QED
  BY <1>1, <1>2

\* The watchers, and the streams that are joined, stay.
LEMMA WatchersStay ==
  ASSUME EventInv, stop' = stop, running' = running, streams \in [Tabs -> StreamForm],
         \A t \in Events!Subscribed : streams'[t].phase \in {"joined", "open"}
  PROVE  WatchersHeld'
BY DEF EventInv, WatchersHeld, Events!Subscribed

\* A writer goes on.
LEMMA WriterGoes ==
  ASSUME EventTypes, NEW w \in Writers, NEW x \in WriterForm,
         x.step \in {"handling", "written", "answered"} => x.tab \in Tabs,
         writers' = [writers EXCEPT ![w] = x]
  PROVE  /\ writers' \in [Writers -> WriterForm] /\ writers'[w] = x
         /\ \A v \in Writers : v # w => writers'[v] = writers[v]
         /\ \A v \in Writers : writers'[v].step \in {"handling", "written", "answered"} => writers'[v].tab \in Tabs
BY DEF EventTypes

\* A writer takes another step of its work.
LEMMA WriterSteps ==
  ASSUME EventTypes, NEW w \in Writers,
         NEW step, step \in {"idle", "handling", "written", "syncing", "synced", "answered"},
         step \in {"handling", "written", "answered"} => writers[w].tab \in Tabs
  PROVE  /\ [writers EXCEPT ![w].step = step] = [writers EXCEPT ![w] = [step |-> step, tab |-> writers[w].tab]]
         /\ [step |-> step, tab |-> writers[w].tab] \in WriterForm
<1>1. writers[w] \in WriterForm
  BY DEF EventTypes
<1>2. [writers[w] EXCEPT !.step = step] = [step |-> step, tab |-> writers[w].tab]
  BY <1>1 DEF WriterForm
<1>3. QED
  BY <1>1, <1>2 DEF WriterForm

\* A writer at rest.
LEMMA IdleForm ==
  /\ Events!Idle \in WriterForm /\ Events!Idle.step = "idle" /\ Events!Idle # [step |-> "answered", tab |-> Nobody]
  /\ \A t : Events!Idle # [step |-> "answered", tab |-> t]
<1>1. Events!Idle = [step |-> "idle", tab |-> Nobody]
  BY DEF Events!Idle
<1>2. \A t : [step |-> "answered", tab |-> t].step = "answered"
  OBVIOUS
<1>3. Events!Idle.step = "idle" /\ Events!Idle \in WriterForm
  BY <1>1 DEF WriterForm
<1>4. QED
  BY <1>2, <1>3

\* The revision moves before the handler of a mutation runs.
LEMMA BumpHolds ==
  ASSUME EventInv, NEW w \in Writers, Events!BumpRevision(w)
  PROVE  EventInv'
<1>1. /\ writers[w] = Events!Idle /\ revision' = <<revision[1], revision[2] + 1>>
      /\ changed' = changed /\ unheard' = unheard /\ streams' = streams /\ stop' = stop /\ running' = running
      /\ cache' = cache /\ due' = due /\ fetches' = fetches /\ early' = early
  BY DEF Events!BumpRevision, Events!Ahead, Events!browser
<1>2. PICK t \in Tabs : writers' = [writers EXCEPT ![w] = [step |-> "handling", tab |-> t]]
  BY DEF Events!BumpRevision
<1> PICK x : x = [step |-> "handling", tab |-> t]
  OBVIOUS
<1>3. x \in WriterForm /\ x.step = "handling" /\ x.tab = t
  BY DEF WriterForm
<1>4. /\ writers' \in [Writers -> WriterForm] /\ writers'[w] = x
      /\ \A v \in Writers : v # w => writers'[v] = writers[v]
      /\ \A v \in Writers : writers'[v].step \in {"handling", "written", "answered"} => writers'[v].tab \in Tabs
  BY <1>2, <1>3, WriterGoes DEF EventInv
<1>5. revision' \in Revisions /\ Older(revision, revision')
  BY <1>1, RevisionOrder DEF EventInv, EventTypes
<1>6. EventTypes'
  BY <1>1, <1>4, <1>5 DEF EventInv, EventTypes
<1>7. Unpublished => Unpublished'
  BY <1>1, <1>4, IdleForm DEF Unpublished
<1>8. \A u \in Tabs, rev \in Revisions : Told(u, rev) => Told(u, rev)'
  BY <1>1, <1>4, IdleForm DEF Told
<1>9. RevisionsInOrder' /\ RevisionNamesList' /\ StaleIsOwed'
  BY <1>1, <1>5, <1>6, <1>7, <1>8, ListsStay DEF Owed
<1>10. WatchersHeld'
  BY <1>1 DEF EventInv, WatchersHeld, Events!Subscribed
<1>11. QED
  BY <1>6, <1>9, <1>10 DEF EventInv

\* The handler commits its change, or is refused.
LEMMA HandleMutationHolds ==
  ASSUME EventInv, NEW w \in Writers, Events!HandleMutation(w)
  PROVE  EventInv'
<1>1. /\ writers[w].step = "handling" /\ revision' = revision /\ unheard' = unheard /\ streams' = streams
      /\ stop' = stop /\ running' = running
      /\ cache' = cache /\ due' = due /\ fetches' = fetches /\ early' = early
  BY DEF Events!HandleMutation, Events!hub, Events!browser
<1>2. WatchersHeld'
  BY <1>1 DEF EventInv, WatchersHeld, Events!Subscribed
<1>3. CASE changed' = changed + 1 /\ writers' = [writers EXCEPT ![w].step = "written"]
  <2>1. PICK x : x = [step |-> "written", tab |-> writers[w].tab]
    OBVIOUS
  <2>2. x \in WriterForm /\ x.step = "written" /\ x.tab \in Tabs /\ writers' = [writers EXCEPT ![w] = x]
    BY <1>1, <1>3, <2>1, WriterSteps DEF EventInv, EventTypes
  <2>3. /\ writers' \in [Writers -> WriterForm] /\ writers'[w] = x
        /\ \A v \in Writers : writers'[v].step \in {"handling", "written", "answered"} => writers'[v].tab \in Tabs
    BY <2>2, WriterGoes DEF EventInv
  <2>4. EventTypes'
    BY <1>1, <1>3, <2>3 DEF EventInv, EventTypes
  <2>5. Unpublished'
    BY <2>2, <2>3 DEF Unpublished
  <2>6. QED
    BY <1>1, <1>2, <2>4, <2>5, ChangeIsUnpublished DEF EventInv
<1>4. CASE changed' = changed /\ writers' = [writers EXCEPT ![w] = Events!Idle]
  <2>1. /\ writers' \in [Writers -> WriterForm] /\ writers'[w] = Events!Idle
        /\ \A v \in Writers : v # w => writers'[v] = writers[v]
        /\ \A v \in Writers : writers'[v].step \in {"handling", "written", "answered"} => writers'[v].tab \in Tabs
    BY <1>4, IdleForm, WriterGoes DEF EventInv
  <2>2. EventTypes'
    BY <1>1, <1>4, <2>1 DEF EventInv, EventTypes
  <2>3. Unpublished => Unpublished'
    BY <1>1, <2>1 DEF Unpublished
  <2>4. \A u \in Tabs, rev \in Revisions : Told(u, rev) => Told(u, rev)'
    BY <1>1, <2>1 DEF Told
  <2>5. RevisionsInOrder' /\ RevisionNamesList' /\ StaleIsOwed'
    BY <1>1, <1>4, <2>2, <2>3, <2>4, ListsStay DEF Owed
  <2>6. QED
    BY <1>2, <2>2, <2>5 DEF EventInv
<1>5. QED
  BY <1>3, <1>4 DEF Events!HandleMutation, Events!Commit

\* What was committed is published: by the middleware for the tab that asked, or by the synchronizer.
LEMMA PublishHolds ==
  ASSUME EventInv, Events!RealtimeAssumption, NEW w \in Writers, NEW origin \in Tabs \cup {Nobody},
         Events!Publish(origin), NEW x \in WriterForm,
         origin \in Tabs => x = [step |-> "answered", tab |-> origin],
         origin \notin Tabs => x = Events!Idle,
         writers' = [writers EXCEPT ![w] = x],
         changed' = changed, stop' = stop, running' = running,
         cache' = cache, due' = due, fetches' = fetches, early' = early
  PROVE  EventInv'
<1>1. /\ streams' \in [Tabs -> StreamForm] /\ \A t \in Tabs : streams'[t].phase = streams[t].phase
      /\ \A t \in Tabs : origin # t => Reached(t)'
      /\ revision' \in Revisions /\ Older(revision, revision') /\ unheard' = FALSE
  BY EventReaches DEF EventInv
<1>2. x.step \in {"handling", "written", "answered"} => x.tab \in Tabs
  BY IdleForm
<1>3. /\ writers' \in [Writers -> WriterForm] /\ writers'[w] = x
      /\ \A v \in Writers : writers'[v].step \in {"handling", "written", "answered"} => writers'[v].tab \in Tabs
  BY <1>2, WriterGoes DEF EventInv
<1>4. EventTypes'
  BY <1>1, <1>3 DEF EventInv, EventTypes
<1>5. ASSUME NEW t \in Tabs, NEW rev \in Revisions
      PROVE  Told(t, rev)'
  <2>1. CASE t = origin
    BY <1>3, <2>1 DEF Told
  <2>2. CASE t # origin
    <3>1. Reached(t)'
      BY <1>1, <2>2
    <3>2. QED
      BY <3>1 DEF Reached, Told, Alerts
  <2>3. QED
    BY <2>1, <2>2
<1>6. RevisionsInOrder' /\ RevisionNamesList' /\ StaleIsOwed'
  BY <1>1, <1>4, <1>5, ListsStay DEF Owed
<1>7. WatchersHeld'
  BY <1>1 DEF EventInv, WatchersHeld, Events!Subscribed
<1>8. QED
  BY <1>4, <1>6, <1>7 DEF EventInv

\* An error leaves a change without an event.
LEMMA UnheardHolds ==
  ASSUME EventInv, unheard' = TRUE, NEW w \in Writers, writers' = [writers EXCEPT ![w] = Events!Idle],
         revision' = revision, streams' = streams, changed' = changed, stop' = stop, running' = running,
         cache' = cache, due' = due, fetches' = fetches, early' = early
  PROVE  EventInv'
<1>1. /\ writers' \in [Writers -> WriterForm]
      /\ \A v \in Writers : writers'[v].step \in {"handling", "written", "answered"} => writers'[v].tab \in Tabs
  BY IdleForm, WriterGoes DEF EventInv
<1>2. EventTypes'
  BY <1>1 DEF EventInv, EventTypes
<1>3. Unpublished'
  BY DEF Unpublished
<1>4. WatchersHeld'
  BY DEF EventInv, WatchersHeld, Events!Subscribed
<1>5. QED
  BY <1>2, <1>3, <1>4, ChangeIsUnpublished DEF EventInv

\* A handler that changed mail publishes it.
LEMMA MutationEventsHolds ==
  ASSUME EventInv, Events!RealtimeAssumption, NEW w \in Writers, Events!MutationEvents(w)
  PROVE  EventInv'
<1>1. /\ writers[w].step = "written" /\ changed' = changed /\ stop' = stop /\ running' = running
      /\ cache' = cache /\ due' = due /\ fetches' = fetches /\ early' = early
  BY DEF Events!MutationEvents, Events!browser
<1>2. writers[w].tab \in Tabs
  BY <1>1 DEF EventInv, EventTypes
<1>3. CASE Events!Publish(writers[w].tab) /\ writers' = [writers EXCEPT ![w].step = "answered"]
  <2>1. PICK x : x = [step |-> "answered", tab |-> writers[w].tab]
    OBVIOUS
  <2>2. x \in WriterForm /\ writers' = [writers EXCEPT ![w] = x]
    BY <1>2, <1>3, <2>1, WriterSteps DEF EventInv
  <2>3. QED
    BY <1>1, <1>2, <1>3, <2>1, <2>2, PublishHolds
<1>4. CASE unheard' = TRUE /\ writers' = [writers EXCEPT ![w] = Events!Idle] /\ UNCHANGED <<revision, streams>>
  BY <1>1, <1>4, UnheardHolds
<1>5. QED
  BY <1>3, <1>4 DEF Events!MutationEvents

\* A synchronization publishes what it found.
LEMMA PublishAccountEventHolds ==
  ASSUME EventInv, Events!RealtimeAssumption, NEW w \in Writers, Events!PublishAccountEvent(w)
  PROVE  EventInv'
<1>1. /\ writers' = [writers EXCEPT ![w] = Events!Idle] /\ changed' = changed /\ stop' = stop /\ running' = running
      /\ cache' = cache /\ due' = due /\ fetches' = fetches /\ early' = early
  BY DEF Events!PublishAccountEvent, Events!browser
<1>2. CASE Events!Publish(Nobody)
  <2>1. Nobody \notin Tabs /\ Nobody \in Tabs \cup {Nobody}
    BY DEF EventInv, EventTypes
  <2>2. QED
    BY <1>1, <1>2, <2>1, IdleForm, PublishHolds
<1>3. CASE unheard' = TRUE /\ UNCHANGED <<revision, streams>>
  BY <1>1, <1>3, UnheardHolds
<1>4. QED
  BY <1>2, <1>3 DEF Events!PublishAccountEvent

\* The tab that asked has its answer.
LEMMA AnswerHolds ==
  ASSUME EventInv, NEW w \in Writers, Events!Answer(w)
  PROVE  EventInv'
<1>1. /\ writers[w].step = "answered" /\ writers' = [writers EXCEPT ![w] = Events!Idle]
      /\ due' = [due EXCEPT ![writers[w].tab] = cache[writers[w].tab] # Events!NoList]
      /\ changed' = changed /\ unheard' = unheard /\ streams' = streams /\ stop' = stop /\ running' = running
      /\ revision' = revision /\ cache' = cache /\ fetches' = fetches /\ early' = early
  BY DEF Events!Answer, Events!hub
<1>2. /\ writers' \in [Writers -> WriterForm] /\ writers'[w] = Events!Idle
      /\ \A v \in Writers : v # w => writers'[v] = writers[v]
      /\ \A v \in Writers : writers'[v].step \in {"handling", "written", "answered"} => writers'[v].tab \in Tabs
  BY <1>1, IdleForm, WriterGoes DEF EventInv
<1>3. /\ due' \in [Tabs -> BOOLEAN] /\ writers[w].tab \in Tabs
      /\ \A t \in Tabs : cache[t] # Events!NoList /\ (due[t] \/ t = writers[w].tab) => due'[t]
  <2>1. due \in [Tabs -> BOOLEAN] /\ writers[w].tab \in Tabs
    BY <1>1 DEF EventInv, EventTypes
  <2>2. QED
    BY <1>1, <2>1
<1>4. EventTypes'
  BY <1>1, <1>2, <1>3 DEF EventInv, EventTypes
<1>5. Unpublished => Unpublished'
  BY <1>1, <1>2 DEF Unpublished
<1>6. ASSUME NEW t \in Tabs, NEW rev \in Revisions, cache[t] # Events!NoList, Told(t, rev)
      PROVE  Told(t, rev)'
  <2>1. CASE \E v \in Writers : writers[v] = [step |-> "answered", tab |-> t]
    BY <1>2, <1>3, <1>6, <2>1 DEF Told
  <2>2. CASE ~\E v \in Writers : writers[v] = [step |-> "answered", tab |-> t]
    BY <1>1, <1>3, <1>6, <2>2 DEF Told
  <2>3. QED
    BY <2>1, <2>2
<1>7. RevisionsInOrder' /\ RevisionNamesList' /\ StaleIsOwed'
  BY <1>1, <1>4, <1>5, <1>6, ListsStay DEF Owed
<1>8. WatchersHeld'
  BY <1>1 DEF EventInv, WatchersHeld, Events!Subscribed
<1>9. QED
  BY <1>4, <1>7, <1>8 DEF EventInv

\* The synchronizer, and a draft, change the mailbox.
LEMMA SyncFolderHolds ==
  ASSUME EventInv, NEW w \in Writers, Events!SyncFolder(w)
  PROVE  EventInv'
<1>1. /\ changed' = changed + 1 /\ writers' = [writers EXCEPT ![w] = [step |-> "synced", tab |-> Nobody]]
      /\ unheard' = unheard /\ streams' = streams /\ stop' = stop /\ running' = running
      /\ revision' = revision /\ cache' = cache /\ due' = due /\ fetches' = fetches /\ early' = early
  BY DEF Events!SyncFolder, Events!Commit, Events!hub, Events!browser
<1>2. PICK x : x = [step |-> "synced", tab |-> Nobody]
  OBVIOUS
<1>3. x \in WriterForm /\ x.step = "synced"
  BY <1>2 DEF WriterForm
<1>4. /\ writers' \in [Writers -> WriterForm] /\ writers'[w] = x
      /\ \A v \in Writers : writers'[v].step \in {"handling", "written", "answered"} => writers'[v].tab \in Tabs
  BY <1>1, <1>2, <1>3, WriterGoes DEF EventInv
<1>5. EventTypes'
  BY <1>1, <1>4 DEF EventInv, EventTypes
<1>6. Unpublished'
  BY <1>3, <1>4 DEF Unpublished
<1>7. WatchersHeld'
  BY <1>1 DEF EventInv, WatchersHeld, Events!Subscribed
<1>8. QED
  BY <1>1, <1>5, <1>6, <1>7, ChangeIsUnpublished DEF EventInv

\* A draft is saved.
LEMMA SaveDraftHolds ==
  ASSUME EventInv, Events!SaveDraft
  PROVE  EventInv'
<1>1. /\ changed' = changed + 1 /\ unheard' = TRUE /\ writers' = writers
      /\ streams' = streams /\ stop' = stop /\ running' = running
      /\ revision' = revision /\ cache' = cache /\ due' = due /\ fetches' = fetches /\ early' = early
  BY DEF Events!SaveDraft, Events!Commit, Events!hub, Events!browser
<1>2. EventTypes'
  BY <1>1 DEF EventInv, EventTypes
<1>3. Unpublished'
  BY <1>1 DEF Unpublished
<1>4. WatchersHeld'
  BY <1>1 DEF EventInv, WatchersHeld, Events!Subscribed
<1>5. QED
  BY <1>1, <1>2, <1>3, <1>4, ChangeIsUnpublished DEF EventInv

\* The stream of a tab goes on, and what the tab is to hear it will hear.
LEMMA StreamGoes ==
  ASSUME EventInv, NEW t \in Tabs, NEW x \in StreamForm, streams' = [streams EXCEPT ![t] = x],
         changed' = changed, unheard' = unheard, writers' = writers, revision' = revision, cache' = cache, due' = due,
         fetches' = fetches, early' = early,
         \A rev \in Revisions :
           cache[t] # Events!NoList /\ Behind(t, rev) /\ ~Unpublished /\ Told(t, rev) => Told(t, rev)'
  PROVE  EventTypes' /\ RevisionsInOrder' /\ RevisionNamesList' /\ StaleIsOwed'
<1>1. streams' \in [Tabs -> StreamForm] /\ streams'[t] = x /\ \A u \in Tabs : u # t => streams'[u] = streams[u]
  BY DEF EventInv, EventTypes
<1>2. EventTypes'
  BY <1>1 DEF EventInv, EventTypes
<1>3. Unpublished' <=> Unpublished
  BY DEF Unpublished
<1>4. \A u \in Tabs, rev \in Revisions : u # t /\ Told(u, rev) => Told(u, rev)'
  BY <1>1 DEF Told
<1>5. \A u \in Tabs, rev \in Revisions :
        cache[u] # Events!NoList /\ Behind(u, rev) /\ Owed(u, rev) => Owed(u, rev)'
  BY <1>3, <1>4 DEF Owed
<1>6. QED
  BY <1>2, <1>3, <1>5, ListsStay

\* The request of a stream passes the session check, and later is joined or turned away.
LEMMA ConnectHolds ==
  ASSUME EventInv, NEW t \in Tabs, Events!Connect(t)
  PROVE  EventInv'
<1>1. /\ streams[t].phase = "off" /\ streams' = [streams EXCEPT ![t].phase = "asked"]
      /\ changed' = changed /\ unheard' = unheard /\ writers' = writers /\ stop' = stop /\ running' = running
      /\ revision' = revision /\ cache' = cache /\ due' = due /\ fetches' = fetches /\ early' = early
  BY DEF Events!Connect, Events!hub, Events!browser
<1>2. PICK x : x = [streams[t] EXCEPT !.phase = "asked"]
  OBVIOUS
<1>3. streams \in [Tabs -> StreamForm] /\ streams[t] \in StreamForm
  BY DEF EventInv, EventTypes
<1>4. x \in StreamForm /\ x.phase = "asked"
  BY <1>2, <1>3 DEF StreamForm
<1>5. streams' = [streams EXCEPT ![t] = x] /\ streams'[t].phase = "asked"
      /\ \A u \in Tabs : u # t => streams'[u] = streams[u]
  BY <1>1, <1>2, <1>3, <1>4
<1>6. EventTypes' /\ RevisionsInOrder' /\ RevisionNamesList' /\ StaleIsOwed'
  <2>1. \A rev \in Revisions : Told(t, rev)'
    BY <1>5 DEF Told
  <2>2. QED
    BY <1>1, <1>4, <1>5, <2>1, StreamGoes
<1>7. WatchersHeld'
  <2>1. \A u \in Events!Subscribed : streams'[u].phase \in {"joined", "open"}
    BY <1>1, <1>5 DEF Events!Subscribed
  <2>2. QED
    BY <1>1, <1>3, <2>1, WatchersStay
<1>8. QED
  BY <1>6, <1>7 DEF EventInv

\* A stream that is closed.
LEMMA OffForm ==
  ASSUME NEW p \in {"off", "asked", "joined", "open"}
  PROVE  [Events!Off EXCEPT !.phase = p] \in StreamForm /\ [Events!Off EXCEPT !.phase = p].phase = p
         /\ Events!Off \in StreamForm /\ Events!Off.phase = "off"
<1>1. <<>> \in Seq(Frames)
  OBVIOUS
<1>2. Events!Off \in StreamForm /\ Events!Off.phase = "off"
  BY <1>1 DEF Events!Off, StreamForm
<1>3. QED
  BY <1>2 DEF StreamForm

\* A stream joins the hub, or is refused.
LEMMA SubscribeHolds ==
  ASSUME EventInv, NEW t \in Tabs, Events!Subscribe(t)
  PROVE  EventInv'
<1>1. /\ streams[t].phase = "asked"
      /\ changed' = changed /\ unheard' = unheard /\ writers' = writers /\ stop' = stop /\ running' = running
      /\ revision' = revision /\ cache' = cache /\ due' = due /\ fetches' = fetches /\ early' = early
  BY DEF Events!Subscribe, Events!hub, Events!browser
<1>2. PICK p \in {"off", "joined"} : streams' = [streams EXCEPT ![t] = [Events!Off EXCEPT !.phase = p]]
  BY DEF Events!Subscribe
<1>3. PICK x : x = [Events!Off EXCEPT !.phase = p]
  OBVIOUS
<1>4. x \in StreamForm /\ x.phase = p
  BY <1>3, OffForm
<1>5. streams \in [Tabs -> StreamForm]
  BY DEF EventInv, EventTypes
<1>6. streams' = [streams EXCEPT ![t] = x] /\ streams'[t].phase = p
      /\ \A u \in Tabs : u # t => streams'[u] = streams[u]
  BY <1>2, <1>3, <1>4, <1>5
<1>7. EventTypes' /\ RevisionsInOrder' /\ RevisionNamesList' /\ StaleIsOwed'
  <2>1. \A rev \in Revisions : Told(t, rev)'
    BY <1>6 DEF Told
  <2>2. QED
    BY <1>1, <1>4, <1>6, <2>1, StreamGoes
<1>8. WatchersHeld'
  <2>1. \A u \in Events!Subscribed : streams'[u].phase \in {"joined", "open"}
    BY <1>1, <1>6 DEF Events!Subscribed
  <2>2. QED
    BY <1>1, <1>5, <2>1, WatchersStay
<1>9. QED
  BY <1>7, <1>8 DEF EventInv

\* The tabs, the hub and the writers are as they were.
LEMMA TabsStay ==
  ASSUME EventInv, changed' = changed, unheard' = unheard, writers' = writers, streams' = streams,
         revision' = revision, cache' = cache, due' = due, fetches' = fetches, early' = early
  PROVE  EventTypes' /\ RevisionsInOrder' /\ RevisionNamesList' /\ StaleIsOwed'
<1>1. EventTypes'
  BY DEF EventInv, EventTypes
<1>2. Unpublished => Unpublished'
  BY DEF Unpublished
<1>3. \A u \in Tabs, rev \in Revisions : Owed(u, rev) => Owed(u, rev)'
  BY DEF Owed, Unpublished, Told
<1>4. QED
  BY <1>1, <1>2, <1>3, ListsStay

\* A watcher starts.
LEMMA StartWatcherHolds ==
  ASSUME EventInv, Events!RealtimeAssumption, NEW t \in Tabs, Events!StartWatcher(t)
  PROVE  EventInv'
<1>1. /\ streams[t].phase = "joined" /\ Cardinality(running) < MaxIdleWatchers
      /\ \E k : stop' = k /\ running' = running \cup {k} /\ k \notin running
      /\ changed' = changed /\ unheard' = unheard /\ writers' = writers /\ streams' = streams
      /\ revision' = revision /\ cache' = cache /\ due' = due /\ fetches' = fetches /\ early' = early
  BY SameCountOfEvents DEF Events!StartWatcher, Events!browser
<1>2. PICK k : stop' = k /\ running' = running \cup {k} /\ k \notin running
  BY <1>1
<1>3. IsFiniteSet(running) /\ Cardinality(running) \in Nat /\ MaxIdleWatchers \in Nat
  BY FS_CardinalityType DEF EventInv, WatchersHeld, Events!RealtimeAssumption
<1>4. IsFiniteSet(running') /\ Cardinality(running') = Cardinality(running) + 1
  BY <1>2, <1>3, FS_AddElement
<1>5. Events!Subscribed' # {}
  BY <1>1 DEF Events!Subscribed
<1>6. WatchersHeld'
  BY <1>1, <1>2, <1>3, <1>4, <1>5 DEF WatchersHeld
<1>7. QED
  BY <1>1, <1>6, TabsStay DEF EventInv

\* A watcher ends.
LEMMA EndWatcherHolds ==
  ASSUME EventInv, Events!RealtimeAssumption, NEW k, Events!EndWatcher(k)
  PROVE  EventInv'
<1>1. /\ running' = running \ {k} /\ stop' = IF stop = k THEN 0 ELSE stop
      /\ changed' = changed /\ unheard' = unheard /\ writers' = writers /\ streams' = streams
      /\ revision' = revision /\ cache' = cache /\ due' = due /\ fetches' = fetches /\ early' = early
  BY DEF Events!EndWatcher, Events!browser
<1>2. IsFiniteSet(running) /\ Cardinality(running) \in Nat /\ MaxIdleWatchers \in Nat
      /\ Cardinality(running) <= MaxIdleWatchers
  BY FS_CardinalityType DEF EventInv, WatchersHeld, Events!RealtimeAssumption
<1>3. IsFiniteSet(running') /\ Cardinality(running') <= Cardinality(running) /\ Cardinality(running') \in Nat
  BY <1>1, <1>2, FS_Subset, FS_CardinalityType
<1>4. WatchersHeld'
  BY <1>1, <1>2, <1>3 DEF EventInv, WatchersHeld, Events!Subscribed
<1>5. QED
  BY <1>1, <1>4, TabsStay DEF EventInv

\* The user leaves.
LEMMA LogoutHolds ==
  ASSUME EventInv, NEW t \in Tabs, Events!Logout(t)
  PROVE  EventInv'
<1>1. /\ stop' = stop /\ running' = running
      /\ changed' = changed /\ unheard' = unheard /\ writers' = writers /\ streams' = streams
      /\ revision' = revision /\ cache' = cache /\ due' = due /\ fetches' = fetches /\ early' = early
  BY DEF Events!Logout, Events!hub, Events!browser
<1>2. WatchersHeld'
  BY <1>1 DEF EventInv, WatchersHeld, Events!Subscribed
<1>3. QED
  BY <1>1, <1>2, TabsStay DEF EventInv

\* The first frame names the revision: a tab with an older list fetches.
LEMMA StartStreamHolds ==
  ASSUME EventInv, NEW t \in Tabs, Events!StartStream(t)
  PROVE  EventInv'
<1> PICK list : list = <<Events!Resync(revision)>> \o streams[t].frames
  OBVIOUS
<1>1. /\ streams[t].phase = "joined"
      /\ streams' = [streams EXCEPT ![t].phase = "open", ![t].frames = <<Events!Resync(revision)>> \o @]
      /\ changed' = changed /\ unheard' = unheard /\ writers' = writers /\ stop' = stop /\ running' = running
      /\ revision' = revision /\ cache' = cache /\ due' = due /\ fetches' = fetches /\ early' = early
  BY DEF Events!StartStream, Events!hub, Events!browser
<1>2. /\ streams \in [Tabs -> StreamForm] /\ streams[t] \in StreamForm /\ revision \in Revisions
      /\ streams[t].frames \in Seq(Frames)
  BY DEF EventInv, EventTypes, StreamForm
<1>3. /\ Events!Resync(revision) \in Frames /\ Events!Resync(revision).kind = "resync"
      /\ Events!Resync(revision).rev = revision
  BY <1>2 DEF Events!Resync, Frames
<1>4. list \in Seq(Frames) /\ 1 \in DOMAIN list /\ list[1] = Events!Resync(revision)
  <2>1. PICK f \in Frames : f = Events!Resync(revision)
    BY <1>3
  <2>2. QED
    BY <1>2, <2>1
<1>5. PICK x : x = [streams[t] EXCEPT !.phase = "open", !.frames = list]
  OBVIOUS
<1>6. x \in StreamForm /\ x.phase = "open" /\ x.frames = list /\ x.overflow = streams[t].overflow
  BY <1>2, <1>4, <1>5 DEF StreamForm
<1>7. streams' = [streams EXCEPT ![t] = x]
  BY <1>1, <1>2, <1>5
<1>8. streams'[t] = x /\ \A u \in Tabs : u # t => streams'[u] = streams[u]
  BY <1>2, <1>7
<1>9. ASSUME NEW rev \in Revisions, cache[t] # Events!NoList, Behind(t, rev), ~Unpublished
      PROVE  Told(t, rev)'
  <2>1. rev # revision
    BY <1>9 DEF EventInv, RevisionNamesList
  <2>2. NotNewer(rev, revision)
    BY <1>9 DEF EventInv, RevisionsInOrder, Behind
  <2>3. Older(rev, revision)
    BY <1>2, <2>1, <2>2, RevisionOrder
  <2>4. Alerts(list[1], t, rev)
    BY <1>3, <1>4, <2>3 DEF Alerts
  <2>5. QED
    BY <1>4, <1>6, <1>8, <2>4 DEF Told
<1>10. EventTypes' /\ RevisionsInOrder' /\ RevisionNamesList' /\ StaleIsOwed'
  BY <1>1, <1>6, <1>7, <1>9, StreamGoes
<1>11. WatchersHeld'
  <2>1. \A u \in Events!Subscribed : streams'[u].phase \in {"joined", "open"}
    BY <1>6, <1>8 DEF Events!Subscribed
  <2>2. QED
    BY <1>1, <1>2, <2>1, WatchersStay
<1>12. QED
  BY <1>10, <1>11 DEF EventInv

\* A stream ends, the last one with the watcher.
LEMMA CloseStreamHolds ==
  ASSUME EventInv, NEW t \in Tabs, Events!CloseStream(t)
  PROVE  EventInv'
<1>1. /\ streams' = [streams EXCEPT ![t] = Events!Off] /\ stop' = Events!StopAfter(Events!Subscribed \ {t})
      /\ changed' = changed /\ unheard' = unheard /\ writers' = writers /\ running' = running
      /\ revision' = revision /\ cache' = cache /\ due' = due /\ fetches' = fetches /\ early' = early
  BY DEF Events!CloseStream, Events!browser
<1>2. streams \in [Tabs -> StreamForm]
  BY DEF EventInv, EventTypes
<1>3. streams'[t] = Events!Off /\ \A u \in Tabs : u # t => streams'[u] = streams[u]
  BY <1>1, <1>2
<1>4. EventTypes' /\ RevisionsInOrder' /\ RevisionNamesList' /\ StaleIsOwed'
  <2>1. Events!Off \in StreamForm /\ Events!Off.phase = "off"
    BY OffForm
  <2>2. \A rev \in Revisions : Told(t, rev)'
    BY <1>3, <2>1 DEF Told
  <2>3. QED
    BY <1>1, <2>1, <2>2, StreamGoes
<1>5. WatchersHeld'
  <2>1. CASE Events!Subscribed \ {t} = {}
    BY <1>1, <2>1 DEF EventInv, WatchersHeld, Events!StopAfter
  <2>2. CASE Events!Subscribed \ {t} # {}
    <3>1. stop' = stop
      BY <1>1, <2>2 DEF Events!StopAfter
    <3>2. Events!Subscribed' # {}
      BY <1>3, <2>2 DEF Events!Subscribed
    <3>3. QED
      BY <1>1, <3>1, <3>2 DEF EventInv, WatchersHeld
  <2>3. QED
    BY <2>1, <2>2
<1>6. QED
  BY <1>4, <1>5 DEF EventInv

\* The streams of a user who logs out are to close.
LEMMA DisconnectUserHolds ==
  ASSUME EventInv, NEW t \in Tabs, Events!DisconnectUser(t)
  PROVE  EventInv'
<1>1. /\ streams' = [u \in Tabs |-> IF u \in Events!Subscribed THEN [streams[u] EXCEPT !.overflow = TRUE]
                                    ELSE streams[u]]
      /\ stop' = 0 /\ running' = running
      /\ changed' = changed /\ unheard' = unheard /\ writers' = writers
      /\ revision' = revision /\ cache' = cache /\ due' = due /\ fetches' = fetches /\ early' = early
  BY DEF Events!DisconnectUser, Events!browser
<1>2. ASSUME NEW u \in Tabs
      PROVE  streams'[u] \in StreamForm /\ streams'[u].phase = streams[u].phase
             /\ (streams[u].overflow => streams'[u].overflow) /\ streams'[u].frames = streams[u].frames
  <2>1. streams[u] \in StreamForm
    BY DEF EventInv, EventTypes
  <2>2. PICK x : x = [streams[u] EXCEPT !.overflow = TRUE]
    OBVIOUS
  <2>3. x \in StreamForm /\ x.phase = streams[u].phase /\ x.overflow /\ x.frames = streams[u].frames
    BY <2>1, <2>2 DEF StreamForm
  <2>4. streams'[u] = x \/ streams'[u] = streams[u]
    BY <1>1, <2>2
  <2>5. QED
    BY <2>1, <2>3, <2>4
<1>3. streams' \in [Tabs -> StreamForm]
  <2>1. streams' = [u \in Tabs |-> streams'[u]]
    BY <1>1
  <2>2. QED
    BY <1>2, <2>1
<1>4. EventTypes'
  BY <1>1, <1>3 DEF EventInv, EventTypes
<1>5. Unpublished' <=> Unpublished
  BY <1>1 DEF Unpublished
<1>6. \A u \in Tabs, rev \in Revisions : Told(u, rev) => Told(u, rev)'
  BY <1>1, <1>2 DEF Told
<1>7. RevisionsInOrder' /\ RevisionNamesList' /\ StaleIsOwed'
  BY <1>1, <1>4, <1>5, <1>6, ListsStay DEF Owed
<1>8. WatchersHeld'
  BY <1>1 DEF EventInv, WatchersHeld
<1>9. QED
  BY <1>4, <1>7, <1>8 DEF EventInv

\* The process starts again.
LEMMA CrashHolds ==
  ASSUME EventInv, Events!RealtimeAssumption, Events!Crash
  PROVE  EventInv'
<1>1. /\ revision' = <<revision[1] + 1, 0>> /\ unheard' = FALSE
      /\ writers' = [w \in Writers |-> Events!Idle] /\ stop' = 0 /\ running' = {}
      /\ streams' = [t \in Tabs |-> Events!Off] /\ fetches' = [t \in Tabs |-> Events!NoFetch]
      /\ due' = [t \in Tabs |-> due[t] \/ (fetches[t] # Events!NoFetch /\ cache[t] # Events!NoList)]
      /\ changed' = changed /\ cache' = cache /\ early' = early
  BY DEF Events!Crash
<1>2. revision \in Revisions /\ revision' \in Revisions /\ Older(revision, revision')
  BY <1>1, RevisionOrder DEF EventInv, EventTypes
<1>3. Events!NoFetch \in FetchForm /\ Events!NoFetch.step = "none"
  BY DEF Events!NoFetch, FetchForm, Revisions
<1>4. EventTypes'
  <2>1. due' \in [Tabs -> BOOLEAN]
    BY <1>1
  <2>2. writers' \in [Writers -> WriterForm] /\ \A w \in Writers : writers'[w].step = "idle"
    BY <1>1, IdleForm
  <2>3. streams' \in [Tabs -> StreamForm]
    BY <1>1, OffForm
  <2>4. fetches' \in [Tabs -> FetchForm]
    BY <1>1, <1>3
  <2>5. QED
    BY <1>1, <1>2, <2>1, <2>2, <2>3, <2>4 DEF EventInv, EventTypes
<1>5. \A t \in Tabs : streams'[t].phase = "off" /\ fetches'[t].step = "none"
  BY <1>1, <1>3, OffForm
<1>6. \A t \in Tabs : cache[t].rev \in Revisions /\ NotNewer(cache[t].rev, revision)
  BY DEF EventInv, EventTypes, ListForm, RevisionsInOrder
<1>7. \A t \in Tabs : NotNewer(cache[t].rev, revision') /\ cache[t].rev # revision'
  BY <1>2, <1>6, RevisionOrder DEF NotNewer
<1>8. RevisionsInOrder'
  BY <1>1, <1>5, <1>7 DEF RevisionsInOrder
<1>9. RevisionNamesList'
  BY <1>1, <1>5, <1>7 DEF RevisionNamesList, Behind
<1>10. StaleIsOwed'
  BY <1>5 DEF StaleIsOwed, Owed, Told
<1>11. WatchersHeld'
  BY <1>1, FS_EmptySet DEF WatchersHeld, Events!RealtimeAssumption
<1>12. QED
  BY <1>4, <1>8, <1>9, <1>10, <1>11 DEF EventInv

\* A tab reads a frame.
LEMMA ReceiveHolds ==
  ASSUME EventInv, NEW t \in Tabs, Events!Receive(t)
  PROVE  EventInv'
<1>1. /\ streams[t].phase = "open" /\ streams[t].frames # <<>>
      /\ streams' = [streams EXCEPT ![t].frames = Tail(@)]
      /\ due' = [due EXCEPT ![t] = @ \/ ~Events!Ignored(t, Head(streams[t].frames))]
      /\ changed' = changed /\ unheard' = unheard /\ writers' = writers /\ stop' = stop /\ running' = running
      /\ revision' = revision /\ cache' = cache /\ fetches' = fetches /\ early' = early
  BY DEF Events!Receive, Events!hub
<1>2. /\ streams \in [Tabs -> StreamForm] /\ streams[t] \in StreamForm /\ revision \in Revisions
      /\ streams[t].frames \in Seq(Frames) /\ due \in [Tabs -> BOOLEAN]
  BY DEF EventInv, EventTypes, StreamForm
<1> PICK list : list = streams[t].frames
  OBVIOUS
<1> PICK f : f = Head(list)
  OBVIOUS
<1>3. /\ list \in Seq(Frames) /\ Len(list) \in Nat /\ Len(list) > 0 /\ DOMAIN list = 1..Len(list)
      /\ f \in Frames /\ f = list[1] /\ Tail(list) \in Seq(Frames)
      /\ DOMAIN Tail(list) = 1..(Len(list) - 1) /\ \A k \in 1..(Len(list) - 1) : Tail(list)[k] = list[k + 1]
  BY <1>1, <1>2
<1>4. PICK x : x = [streams[t] EXCEPT !.frames = Tail(list)]
  OBVIOUS
<1>5. x \in StreamForm /\ x.phase = streams[t].phase /\ x.frames = Tail(list) /\ x.overflow = streams[t].overflow
  BY <1>2, <1>3, <1>4 DEF StreamForm
<1>6. streams' = [streams EXCEPT ![t] = x]
  BY <1>1, <1>2, <1>4
<1>7. streams' \in [Tabs -> StreamForm] /\ streams'[t] = x /\ \A u \in Tabs : u # t => streams'[u] = streams[u]
  BY <1>2, <1>5, <1>6
<1>8. /\ due' \in [Tabs -> BOOLEAN] /\ \A u \in Tabs : due[u] => due'[u]
      /\ ~Events!Ignored(t, f) => due'[t]
  BY <1>1, <1>2
<1>9. EventTypes'
  BY <1>1, <1>7, <1>8 DEF EventInv, EventTypes
<1>10. Unpublished' <=> Unpublished
  BY <1>1 DEF Unpublished
<1>11. ASSUME NEW rev \in Revisions, cache[t] # Events!NoList, Behind(t, rev), Told(t, rev)
       PROVE  Told(t, rev)'
  <2>1. CASE \E k \in DOMAIN list : Alerts(list[k], t, rev)
    <3> PICK k \in DOMAIN list : Alerts(list[k], t, rev)
      BY <2>1
    <3>1. CASE k = 1
      <4>1. Alerts(f, t, rev)
        BY <1>3, <3>1
      <4>2. CASE f.kind = "changed"
        BY <1>8, <4>1, <4>2 DEF Alerts, Events!Ignored, Told
      <4>3. CASE f.kind = "resync"
        <5>1. Older(rev, f.rev)
          BY <4>1, <4>3 DEF Alerts
        <5>2. NotNewer(cache[t].rev, rev)
          BY <1>11 DEF Behind, NotNewer, EventInv, RevisionsInOrder
        <5>3. cache[t].rev # f.rev
          <6>1. cache[t].rev \in Revisions /\ f.rev \in Revisions
            BY <1>3 DEF EventInv, EventTypes, ListForm, Frames
          <6>2. QED
            BY <5>1, <5>2, <6>1, RevisionOrder
        <5>4. ~Events!Ignored(t, f)
          BY <1>11, <4>3, <5>3 DEF Events!Ignored
        <5>5. QED
          BY <1>8, <5>4 DEF Told
      <4>4. f.kind \in {"resync", "changed"}
        BY <1>3 DEF Frames
      <4>5. QED
        BY <4>2, <4>3, <4>4
    <3>2. CASE k # 1
      <4>1. k - 1 \in DOMAIN Tail(list) /\ Tail(list)[k - 1] = list[k]
        BY <1>3, <3>2
      <4>2. QED
        BY <1>5, <1>7, <4>1 DEF Told
    <3>3. QED
      BY <3>1, <3>2
  <2>2. CASE ~\E k \in DOMAIN list : Alerts(list[k], t, rev)
    BY <1>1, <1>5, <1>7, <1>8, <1>11, <2>2 DEF Told
  <2>3. QED
    BY <2>1, <2>2
<1>12. \A u \in Tabs, rev \in Revisions : u # t /\ Told(u, rev) => Told(u, rev)'
  BY <1>1, <1>7, <1>8 DEF Told
<1>13. RevisionsInOrder' /\ RevisionNamesList' /\ StaleIsOwed'
  <2>1. \A u \in Tabs, rev \in Revisions :
          cache[u] # Events!NoList /\ Behind(u, rev) /\ Owed(u, rev) => Owed(u, rev)'
    BY <1>10, <1>11, <1>12 DEF Owed
  <2>2. QED
    BY <1>1, <1>9, <1>10, <2>1, ListsStay
<1>14. WatchersHeld'
  <2>1. \A u \in Events!Subscribed : streams'[u].phase \in {"joined", "open"}
    BY <1>5, <1>7 DEF Events!Subscribed
  <2>2. QED
    BY <1>1, <1>2, <2>1, WatchersStay
<1>15. QED
  BY <1>9, <1>13, <1>14 DEF EventInv

\* A tab asks, or has an answer.
LEMMA TabGoes ==
  ASSUME EventInv, NEW t \in Tabs, changed' = changed, unheard' = unheard, writers' = writers, streams' = streams,
         revision' = revision, stop' = stop, running' = running,
         cache' \in [Tabs -> ListForm], fetches' \in [Tabs -> FetchForm], due' \in [Tabs -> BOOLEAN],
         \A u \in Tabs : u # t => /\ cache'[u] = cache[u] /\ fetches'[u] = fetches[u] /\ due'[u] = due[u]
                                  /\ u \in early' <=> u \in early,
         NotNewer(cache'[t].rev, revision),
         fetches'[t].step \in {"reading", "listed"} =>
           NotNewer(cache'[t].rev, fetches'[t].rev) /\ NotNewer(fetches'[t].rev, revision),
         Behind(t, revision)' => Unpublished,
         cache'[t] # Events!NoList =>
           /\ cache'[t].data # changed /\ t \notin early' =>
                Owed(t, cache[t].rev)' \/ fetches'[t].step \in {"reading", "listed"}
           /\ fetches'[t].step = "listed" /\ fetches'[t].data # changed => Owed(t, fetches[t].rev)'
           /\ fetches'[t].step = "same" /\ cache'[t].data # changed => Owed(t, cache[t].rev)'
  PROVE  EventInv'
<1>1. EventTypes'
  BY DEF EventInv, EventTypes
<1>2. RevisionsInOrder'
  BY DEF EventInv, RevisionsInOrder
<1>3. Unpublished' <=> Unpublished
  BY DEF Unpublished
<1>4. ASSUME NEW u \in Tabs, u # t
      PROVE  /\ \A rev : Owed(u, rev)' <=> Owed(u, rev)
             /\ Behind(u, revision)' <=> Behind(u, revision)
  BY <1>3, <1>4 DEF Owed, Told, Behind
<1>5. RevisionNamesList'
  BY <1>3, <1>4 DEF EventInv, RevisionNamesList
<1>6. StaleIsOwed'
  <2> SUFFICES ASSUME NEW u \in Tabs, u # t, cache'[u] # Events!NoList
               PROVE  /\ cache'[u].data # changed' /\ u \notin early' =>
                           Owed(u, cache[u].rev)' \/ fetches'[u].step \in {"reading", "listed"}
                      /\ fetches'[u].step = "listed" /\ fetches'[u].data # changed' => Owed(u, fetches[u].rev)'
                      /\ fetches'[u].step = "same" /\ cache'[u].data # changed' => Owed(u, cache[u].rev)'
    BY DEF StaleIsOwed, Owed, Told, Unpublished
  <2>1. /\ cache[u].data # changed /\ u \notin early =>
             Owed(u, cache[u].rev) \/ fetches[u].step \in {"reading", "listed"}
        /\ fetches[u].step = "listed" /\ fetches[u].data # changed => Owed(u, fetches[u].rev)
        /\ fetches[u].step = "same" /\ cache[u].data # changed => Owed(u, cache[u].rev)
    BY DEF EventInv, StaleIsOwed
  <2>2. QED
    BY <1>4, <2>1
<1>7. WatchersHeld'
  BY DEF EventInv, WatchersHeld, Events!Subscribed
<1>8. QED
  BY <1>1, <1>2, <1>5, <1>6, <1>7 DEF EventInv

\* A tab that reads nothing, and has no list.
LEMMA NoFetchForm ==
  /\ Events!NoFetch \in FetchForm /\ Events!NoFetch.step = "none"
  /\ Events!NoList \in ListForm /\ \A rev \in Revisions : NotNewer(Events!NoList.rev, rev)
<1>1. Events!NoFetch \in FetchForm /\ Events!NoFetch.step = "none"
  BY DEF Events!NoFetch, FetchForm, Revisions
<1>2. Events!NoList \in ListForm /\ Events!NoList.rev = <<0, 0>>
  BY DEF Events!NoList, ListForm, Revisions
<1>3. \A rev \in Revisions : NotNewer(<<0, 0>>, rev)
  BY DEF Revisions, NotNewer, Older
<1>4. QED
  BY <1>1, <1>2, <1>3

\* A page loads, and asks for the list.
LEMMA LoadPageHolds ==
  ASSUME EventInv, NEW t \in Tabs, Events!LoadPage(t)
  PROVE  EventInv'
<1>1. /\ cache' = [cache EXCEPT ![t] = Events!NoList] /\ due' = [due EXCEPT ![t] = FALSE]
      /\ fetches' = [fetches EXCEPT ![t] = [Events!NoFetch EXCEPT !.step = "reading", !.rev = revision]]
      /\ changed' = changed /\ unheard' = unheard /\ writers' = writers /\ streams' = streams
      /\ revision' = revision /\ stop' = stop /\ running' = running /\ early' = early
  BY DEF Events!LoadPage, Events!hub
<1>2. PICK x : x = [Events!NoFetch EXCEPT !.step = "reading", !.rev = revision]
  OBVIOUS
<1>3. x \in FetchForm /\ x.step = "reading" /\ x.rev = revision /\ revision \in Revisions
  BY <1>2 DEF Events!NoFetch, FetchForm, EventInv, EventTypes
<1>4. /\ cache \in [Tabs -> ListForm] /\ fetches \in [Tabs -> FetchForm] /\ due \in [Tabs -> BOOLEAN]
  BY DEF EventInv, EventTypes
<1>5. /\ cache' \in [Tabs -> ListForm] /\ fetches' \in [Tabs -> FetchForm] /\ due' \in [Tabs -> BOOLEAN]
      /\ cache'[t] = Events!NoList /\ fetches'[t] = x
      /\ \A u \in Tabs : u # t => /\ cache'[u] = cache[u] /\ fetches'[u] = fetches[u] /\ due'[u] = due[u]
  BY <1>1, <1>2, <1>3, <1>4, NoFetchForm
<1>6. NotNewer(cache'[t].rev, revision) /\ NotNewer(cache'[t].rev, fetches'[t].rev)
      /\ NotNewer(fetches'[t].rev, revision)
  BY <1>3, <1>5, NoFetchForm DEF NotNewer
<1>7. ~Behind(t, revision)'
  BY <1>3, <1>5 DEF Behind
<1>8. QED
  BY <1>1, <1>5, <1>6, <1>7, TabGoes

\* A tab asks once more, with the revision of its list.
LEMMA RefetchHolds ==
  ASSUME EventInv, NEW t \in Tabs, Events!Refetch(t)
  PROVE  EventInv'
<1> DEFINE x == [step |-> IF Events!Unchanged(t) THEN "same" ELSE "reading", rev |-> revision, data |-> 0]
<1>1. /\ due' = [due EXCEPT ![t] = FALSE]
      /\ fetches' = [fetches EXCEPT ![t] =
           IF cache[t] = Events!NoList /\ fetches[t] # Events!NoFetch THEN fetches[t] ELSE x]
      /\ changed' = changed /\ unheard' = unheard /\ writers' = writers /\ streams' = streams
      /\ revision' = revision /\ stop' = stop /\ running' = running /\ cache' = cache /\ early' = early
  BY DEF Events!Refetch, Events!hub
<1>2. x \in FetchForm /\ x.step \in {"same", "reading"} /\ x.rev = revision
      /\ (x.step = "same" => cache[t].rev = revision)
  BY DEF Events!Unchanged, FetchForm, EventInv, EventTypes
<1> HIDE DEF x
<1>3. /\ cache \in [Tabs -> ListForm] /\ fetches \in [Tabs -> FetchForm] /\ due \in [Tabs -> BOOLEAN]
  BY DEF EventInv, EventTypes
<1>4. /\ fetches' \in [Tabs -> FetchForm] /\ due' \in [Tabs -> BOOLEAN]
      /\ \A u \in Tabs : u # t => /\ fetches'[u] = fetches[u] /\ due'[u] = due[u]
      /\ (cache[t] = Events!NoList /\ fetches'[t] = fetches[t]) \/ fetches'[t] = x
  BY <1>1, <1>2, <1>3
<1>5. NotNewer(cache[t].rev, revision)
  BY DEF EventInv, RevisionsInOrder
<1>6. fetches'[t].step \in {"reading", "listed"} =>
        NotNewer(cache[t].rev, fetches'[t].rev) /\ NotNewer(fetches'[t].rev, revision)
  BY <1>2, <1>4, <1>5 DEF EventInv, RevisionsInOrder, NotNewer
<1>7. Behind(t, revision)' => Unpublished
  BY <1>1, <1>2, <1>4 DEF Behind, EventInv, RevisionNamesList
<1>8. ASSUME cache[t] # Events!NoList
      PROVE  /\ cache[t].data # changed /\ fetches'[t].step = "same" => Unpublished'
             /\ fetches'[t].step \in {"same", "reading"}
  BY <1>1, <1>2, <1>4, <1>8 DEF EventInv, RevisionNamesList, Behind, Unpublished
<1>9. cache'[t] # Events!NoList =>
           /\ cache'[t].data # changed /\ t \notin early' =>
                Owed(t, cache[t].rev)' \/ fetches'[t].step \in {"reading", "listed"}
           /\ fetches'[t].step = "listed" /\ fetches'[t].data # changed => Owed(t, fetches[t].rev)'
           /\ fetches'[t].step = "same" /\ cache'[t].data # changed => Owed(t, cache[t].rev)'
  BY <1>1, <1>8 DEF Owed
<1>10. QED
  BY <1>1, <1>3, <1>4, <1>5, <1>6, <1>7, <1>9, TabGoes

\* The list is read after the revision.
LEMMA ReadListHolds ==
  ASSUME EventInv, NEW t \in Tabs, Events!ReadList(t)
  PROVE  EventInv'
<1>1. /\ fetches[t].step = "reading"
      /\ fetches' = [fetches EXCEPT ![t].step = "listed", ![t].data = changed]
      /\ changed' = changed /\ unheard' = unheard /\ writers' = writers /\ streams' = streams /\ due' = due
      /\ revision' = revision /\ stop' = stop /\ running' = running /\ cache' = cache /\ early' = early
  BY DEF Events!ReadList, Events!hub
<1>2. /\ cache \in [Tabs -> ListForm] /\ fetches \in [Tabs -> FetchForm] /\ due \in [Tabs -> BOOLEAN]
      /\ fetches[t] \in FetchForm /\ changed \in Nat
  BY DEF EventInv, EventTypes
<1>3. PICK x : x = [fetches[t] EXCEPT !.step = "listed", !.data = changed]
  OBVIOUS
<1>4. x \in FetchForm /\ x.step = "listed" /\ x.data = changed /\ x.rev = fetches[t].rev
  BY <1>2, <1>3 DEF FetchForm
<1>5. fetches' = [fetches EXCEPT ![t] = x]
  BY <1>1, <1>2, <1>3
<1>6. /\ fetches' \in [Tabs -> FetchForm] /\ fetches'[t] = x
      /\ \A u \in Tabs : u # t => fetches'[u] = fetches[u]
  BY <1>2, <1>4, <1>5
<1>7. NotNewer(cache[t].rev, revision) /\ NotNewer(cache[t].rev, fetches'[t].rev)
      /\ NotNewer(fetches'[t].rev, revision)
  BY <1>1, <1>4, <1>6 DEF EventInv, RevisionsInOrder
<1>8. Behind(t, revision)' => Unpublished
  BY <1>1, <1>4, <1>6 DEF Behind, EventInv, RevisionNamesList
<1>9. QED
  BY <1>1, <1>2, <1>4, <1>6, <1>7, <1>8, TabGoes

\* The answer lands.
LEMMA LandHolds ==
  ASSUME EventInv, NEW t \in Tabs, Events!Land(t)
  PROVE  EventInv'
<1>1. /\ fetches[t].step \in {"listed", "same"} /\ fetches' = [fetches EXCEPT ![t] = Events!NoFetch]
      /\ cache' = [cache EXCEPT ![t] = IF fetches[t].step = "same" THEN cache[t]
                                       ELSE [rev |-> fetches[t].rev, data |-> fetches[t].data]]
      /\ early' = IF cache[t] = Events!NoList /\ fetches[t].rev # revision THEN early \cup {t} ELSE early \ {t}
      /\ changed' = changed /\ unheard' = unheard /\ writers' = writers /\ streams' = streams /\ due' = due
      /\ revision' = revision /\ stop' = stop /\ running' = running
  BY DEF Events!Land, Events!hub
<1>2. /\ cache \in [Tabs -> ListForm] /\ fetches \in [Tabs -> FetchForm] /\ due \in [Tabs -> BOOLEAN]
      /\ fetches[t] \in FetchForm /\ cache[t] \in ListForm
  BY DEF EventInv, EventTypes
<1>3. PICK x : x = IF fetches[t].step = "same" THEN cache[t] ELSE [rev |-> fetches[t].rev, data |-> fetches[t].data]
  OBVIOUS
<1>4. /\ x \in ListForm
      /\ fetches[t].step = "same" => x = cache[t]
      /\ fetches[t].step = "listed" => x.rev = fetches[t].rev /\ x.data = fetches[t].data
  BY <1>2, <1>3 DEF ListForm, FetchForm
<1>5. /\ cache' \in [Tabs -> ListForm] /\ fetches' \in [Tabs -> FetchForm]
      /\ cache'[t] = x /\ fetches'[t] = Events!NoFetch /\ fetches'[t].step = "none"
      /\ \A u \in Tabs : u # t => /\ cache'[u] = cache[u] /\ fetches'[u] = fetches[u]
                                  /\ u \in early' <=> u \in early
  BY <1>1, <1>2, <1>3, <1>4, NoFetchForm
<1>6. NotNewer(cache'[t].rev, revision)
  BY <1>1, <1>4, <1>5 DEF EventInv, RevisionsInOrder
<1>7. Behind(t, revision)' => Unpublished
  BY <1>1, <1>4, <1>5 DEF Behind, EventInv, RevisionNamesList
<1>8. \A rev : Owed(t, rev)' <=> Owed(t, rev)
  BY <1>1 DEF Owed, Unpublished, Told
<1>9. ASSUME cache'[t] # Events!NoList, cache'[t].data # changed, t \notin early'
      PROVE  Owed(t, cache'[t].rev)
  <2>1. CASE fetches[t].step = "same"
    BY <1>4, <1>5, <1>9, <2>1 DEF EventInv, StaleIsOwed
  <2>2. CASE fetches[t].step = "listed" /\ cache[t] # Events!NoList
    BY <1>4, <1>5, <1>9, <2>2 DEF EventInv, StaleIsOwed
  <2>3. CASE fetches[t].step = "listed" /\ cache[t] = Events!NoList
    <3>1. fetches[t].rev = revision
      BY <1>1, <1>9, <2>3
    <3>2. Unpublished
      BY <1>4, <1>5, <1>9, <2>3, <3>1 DEF EventInv, RevisionNamesList, Behind
    <3>3. QED
      BY <3>2 DEF Owed
  <2>4. QED
    BY <1>1, <2>1, <2>2, <2>3
<1>10. QED
  BY <1>1, <1>2, <1>5, <1>6, <1>7, <1>8, <1>9, TabGoes

\* A step of the events.
LEMMA EventStep ==
  ASSUME EventInv, Events!RealtimeAssumption, Events!Next
  PROVE  EventInv'
<1>1. CASE \E w \in Writers : \/ Events!BumpRevision(w) \/ Events!HandleMutation(w) \/ Events!MutationEvents(w)
                              \/ Events!Answer(w) \/ Events!SyncFolder(w) \/ Events!PublishAccountEvent(w)
  BY <1>1, BumpHolds, HandleMutationHolds, MutationEventsHolds, AnswerHolds, SyncFolderHolds,
     PublishAccountEventHolds
<1>2. CASE Events!SaveDraft \/ Events!Crash
  BY <1>2, SaveDraftHolds, CrashHolds
<1>3. CASE \E t \in Tabs : \/ Events!Connect(t) \/ Events!Subscribe(t) \/ Events!StartWatcher(t)
                           \/ Events!StartStream(t) \/ Events!CloseStream(t) \/ Events!Logout(t)
                           \/ Events!DisconnectUser(t)
  BY <1>3, ConnectHolds, SubscribeHolds, StartWatcherHolds, StartStreamHolds, CloseStreamHolds, LogoutHolds,
     DisconnectUserHolds
<1>4. CASE \E t \in Tabs : \/ Events!LoadPage(t) \/ Events!Receive(t) \/ Events!Refetch(t) \/ Events!ReadList(t)
                           \/ Events!Land(t)
  BY <1>4, LoadPageHolds, ReceiveHolds, RefetchHolds, ReadListHolds, LandHolds
<1>5. CASE \E k \in Events!Stops : Events!EndWatcher(k)
  BY <1>5, EndWatcherHolds
<1>6. QED
  BY <1>1, <1>2, <1>3, <1>4, <1>5 DEF Events!Next

-----------------------------------------------------------------------------
(* The drafts of the compose windows (Drafts) *)

TextForm == [window : Nat, n : Nat]
WindowForm == [window : Nat, conversation : Peers, text : TextForm, lastSaved : TextForm, draftId : Nat,
               saving : BOOLEAN, pending : BOOLEAN, discarded : BOOLEAN, sending : BOOLEAN, kept : TextForm]
DraftRequestForm == [kind : {"save", "delete", "queue"}, tab : Windows \cup {Nobody}, window : Nat, id : Nat,
                     conversation : Peers, text : TextForm, step : {"sent", "resolved", "answered", "failed"}]
RowForm == [conversation : Peers \cup {"none"}, text : TextForm]

DraftTypes ==
  /\ drafts \in [1..MaxDrafts -> RowForm] /\ draftRequests \subseteq DraftRequestForm
  /\ tabs \in [Windows -> WindowForm] /\ windows \in Nat /\ locked \in BOOLEAN /\ minted \in Nat

\* One save at a time is between the two statements of the server, under the lock.
Save(r) == r.kind = "save"
Resolved(r) == Save(r) /\ r.step = "resolved"
OneIsResolved ==
  /\ \A r \in draftRequests : Resolved(r) => locked
  /\ \A r, s \in draftRequests : Resolved(r) /\ Resolved(s) => r = s

\* A conversation has one row, the one its save was resolved to.
RowOfConversation ==
  /\ \A i, j \in 1..MaxDrafts :
       drafts[i].conversation = drafts[j].conversation /\ drafts[i].conversation \notin {"", "none"} => i = j
  /\ \A r \in draftRequests : Resolved(r) => ~Drafts!Refused(r)

\* The two instances differ in their bounds only.
LEMMA SameDrafts ==
  /\ Typing!DraftIds = Drafts!DraftIds /\ Typing!NoDraft = Drafts!NoDraft /\ Typing!Blank = Drafts!Blank
  /\ Typing!Closed = Drafts!Closed /\ Typing!MayLock = Drafts!MayLock
  /\ \A x : /\ Typing!Exists(x) = Drafts!Exists(x) /\ Typing!Unsaved(x) = Drafts!Unsaved(x)
            /\ Typing!Postponed(x) = Drafts!Postponed(x) /\ Typing!AfterSave(x) = Drafts!AfterSave(x)
            /\ Typing!Forgotten(x) = Drafts!Forgotten(x) /\ Typing!Deleting(x) = Drafts!Deleting(x)
            /\ Typing!OfConversation(x) = Drafts!OfConversation(x) /\ Typing!Named(x) = Drafts!Named(x)
            /\ Typing!Refused(x) = Drafts!Refused(x)
  /\ \A x, y : Typing!SaveRequest(x, y) = Drafts!SaveRequest(x, y)
  /\ \A x, y, z : Typing!Request(x, y, z) = Drafts!Request(x, y, z)
<1>1. /\ Typing!DraftIds = Drafts!DraftIds /\ Typing!NoDraft = Drafts!NoDraft /\ Typing!Blank = Drafts!Blank
      /\ Typing!MayLock = Drafts!MayLock
  BY DEF Typing!DraftIds, Drafts!DraftIds, Typing!NoDraft, Drafts!NoDraft, Typing!Blank, Drafts!Blank,
         Typing!MayLock, Drafts!MayLock
<1>2. Typing!Closed = Drafts!Closed
  BY <1>1 DEF Typing!Closed, Drafts!Closed
<1>3. \A x, y, z : Typing!Request(x, y, z) = Drafts!Request(x, y, z)
  BY DEF Typing!Request, Drafts!Request
<1>4. \A x : /\ Typing!Exists(x) = Drafts!Exists(x) /\ Typing!Unsaved(x) = Drafts!Unsaved(x)
             /\ Typing!Postponed(x) = Drafts!Postponed(x)
             /\ Typing!OfConversation(x) = Drafts!OfConversation(x)
  BY <1>1 DEF Typing!Exists, Drafts!Exists, Typing!Unsaved, Drafts!Unsaved, Typing!Postponed, Drafts!Postponed,
              Typing!OfConversation, Drafts!OfConversation
<1>5. \A x : /\ Typing!AfterSave(x) = Drafts!AfterSave(x) /\ Typing!Forgotten(x) = Drafts!Forgotten(x)
             /\ Typing!Deleting(x) = Drafts!Deleting(x) /\ Typing!Named(x) = Drafts!Named(x)
             /\ Typing!Refused(x) = Drafts!Refused(x)
  BY <1>1, <1>3, <1>4, Zenon
  DEF Typing!AfterSave, Drafts!AfterSave, Typing!Forgotten, Drafts!Forgotten,
              Typing!Deleting, Drafts!Deleting, Typing!Named, Drafts!Named, Typing!Refused, Drafts!Refused
<1>6. \A x, y : Typing!SaveRequest(x, y) = Drafts!SaveRequest(x, y)
  BY <1>3, <1>4, Zenon DEF Typing!SaveRequest, Drafts!SaveRequest
<1>7. QED
  BY <1>1, <1>2, <1>3, <1>4, <1>5, <1>6

\* What was queued was thrown away.
QueuesThrow == \A r \in draftRequests : r.kind = "queue" /\ r.step \in {"resolved", "answered"} => thrown # {}

\* Until a window is thrown away: a text is stored, or on its way, under the window it was typed in ...
InFlight(r) == Save(r) /\ r.step \in {"sent", "resolved"}
TextsAreNamed ==
  /\ \A r \in draftRequests : Save(r) => /\ r.text.window = r.window /\ r.window <= windows
                                         /\ r.window = 0 => r.text.n = 0
  /\ \A i \in 1..MaxDrafts : /\ drafts[i].text.window <= windows
                             /\ drafts[i].text.window = 0 => drafts[i].text.n = 0
  /\ \A t \in Windows : /\ tabs[t].window <= windows
                        /\ tabs[t].window # 0 =>
                             tabs[t].text = tabs[t].lastSaved \/ tabs[t].text.window = tabs[t].window
  /\ \A t, u \in Windows : tabs[t].window = tabs[u].window /\ tabs[t].window # 0 => t = u

\* ... one save of a window is on its way at a time ...
OneSaveAtATime ==
  /\ \A r \in draftRequests : Save(r) /\ r.tab \in Windows => tabs[r.tab].saving
  /\ \A r, s \in draftRequests : Save(r) /\ Save(s) /\ r.tab = s.tab /\ r.tab \in Windows => r = s
  /\ \A r, s \in draftRequests : InFlight(r) /\ InFlight(s) /\ r.window = s.window /\ r.window # 0 => r = s

\* ... and what is stored is no later than what is on its way, nor that than what the window shows.
Shows(t, w, n) == tabs[t].window = w /\ w # 0 => tabs[t].text.window = w /\ n <= tabs[t].text.n
LaterIsAhead ==
  /\ \A r \in draftRequests, t \in Windows :
       Save(r) => /\ Shows(t, r.window, r.text.n)
                  /\ tabs[t].window = r.window /\ r.window # 0 => r.tab = t
  /\ \A i \in 1..MaxDrafts, t \in Windows : Shows(t, drafts[i].text.window, drafts[i].text.n)
  /\ \A i \in 1..MaxDrafts, r \in draftRequests :
       InFlight(r) /\ drafts[i].text.window = r.window => drafts[i].text.n <= r.text.n

TextsInOrder == thrown = {} => TextsAreNamed /\ OneSaveAtATime /\ LaterIsAhead

ServerHeld == OneIsResolved /\ RowOfConversation /\ QueuesThrow
DraftInv == DraftTypes /\ ServerHeld /\ TextsInOrder

\* The window t becomes x, which waits for the saves that are left of its own, and for the new one ...
SendsSave(t, x, old, new) ==
  /\ \A q \in new : Save(q) =>
       /\ q.step = "sent" /\ q.tab = t /\ q.window = tabs[t].window /\ q.text = tabs[t].text
       /\ tabs[t].window # 0 /\ tabs[t].text.window = tabs[t].window /\ x.saving
       /\ x.window = 0 \/ (x.window = tabs[t].window /\ x.text = tabs[t].text)
       /\ \A r \in draftRequests \ old : Save(r) => r.tab # t
       /\ \A r \in new : Save(r) => r = q
  /\ \A r \in draftRequests \ old : Save(r) /\ r.tab = t => x.saving

\* ... and is closed, a new one, or shows a text no earlier.
GoesOn(t, x) ==
  \/ x.window = 0
  \/ x.window = windows' /\ windows' = windows + 1 /\ x.text = x.lastSaved
  \/ /\ x.window = tabs[t].window
     /\ \/ x.text = tabs[t].text
        \/ /\ x.text.window = x.window
           /\ tabs[t].text.window = x.window => tabs[t].text.n <= x.text.n
     /\ x.window # 0 => x.text = x.lastSaved \/ x.text.window = x.window

WindowStep(t, x, old, new) ==
  /\ t \in Windows /\ x \in WindowForm /\ new \subseteq DraftRequestForm
  /\ tabs' = [tabs EXCEPT ![t] = x] /\ drafts' = drafts /\ windows' \in {windows, windows + 1}
  /\ draftRequests' = (draftRequests \ old) \cup new
  /\ SendsSave(t, x, old, new) /\ GoesOn(t, x)

\* A compose window goes on, and perhaps sends a save of what it shows.
LEMMA WindowGoes ==
  ASSUME DraftTypes, TextsInOrder, thrown = {}, NEW t, NEW x, NEW old, NEW new, WindowStep(t, x, old, new)
  PROVE  TextsAreNamed' /\ OneSaveAtATime' /\ LaterIsAhead'
<1> USE DEF SendsSave, GoesOn, WindowStep
<1>1. TextsAreNamed /\ OneSaveAtATime /\ LaterIsAhead
  BY DEF TextsInOrder
<1>2. /\ tabs \in [Windows -> WindowForm] /\ tabs'[t] = x /\ \A u \in Windows : u # t => tabs'[u] = tabs[u]
      /\ windows \in Nat /\ windows' \in Nat /\ windows <= windows'
  BY DEF DraftTypes
<1>3. /\ tabs[t].window \in Nat /\ tabs[t].text \in TextForm /\ tabs[t].text.n \in Nat /\ tabs[t].text.window \in Nat
      /\ x.window \in Nat /\ x.text \in TextForm /\ x.text.n \in Nat /\ x.text.window \in Nat
      /\ \A u \in Windows : tabs[u].window \in Nat /\ tabs[u].text.n \in Nat
  BY <1>2 DEF WindowForm, TextForm
<1>4. /\ \A r \in draftRequests : r.window \in Nat /\ r.text.n \in Nat /\ r.text.window \in Nat
      /\ \A i \in 1..MaxDrafts : drafts[i].text.window \in Nat /\ drafts[i].text.n \in Nat
  BY DEF DraftTypes, DraftRequestForm, RowForm, TextForm
<1>5. ASSUME NEW q \in new, Save(q)
      PROVE  /\ q.text.window = q.window /\ q.window <= windows /\ q.window # 0 /\ q.window \in Nat
             /\ tabs[t].text.window = tabs[t].window
  BY <1>1, <1>2, <1>3, <1>5 DEF TextsAreNamed
<1>6. TextsAreNamed'
  <2>1. \A r \in draftRequests' : Save(r) => /\ r.text.window = r.window /\ r.window <= windows'
                                             /\ r.window = 0 => r.text.n = 0
    BY <1>1, <1>2, <1>4, <1>5 DEF TextsAreNamed
  <2>2. \A i \in 1..MaxDrafts : /\ drafts'[i].text.window <= windows'
                                /\ drafts'[i].text.window = 0 => drafts'[i].text.n = 0
    BY <1>1, <1>2, <1>4 DEF TextsAreNamed
  <2>3. x.window <= windows' /\ (x.window # 0 => x.text = x.lastSaved \/ x.text.window = x.window)
    BY <1>1, <1>2, <1>3 DEF TextsAreNamed
  <2>4. \A u \in Windows : /\ tabs'[u].window <= windows'
                           /\ tabs'[u].window # 0 =>
                                tabs'[u].text = tabs'[u].lastSaved \/ tabs'[u].text.window = tabs'[u].window
    BY <1>1, <1>2, <1>3, <2>3 DEF TextsAreNamed
  <2>5. \A u \in Windows : u # t /\ tabs[u].window = x.window => x.window = 0
    BY <1>1, <1>2, <1>3 DEF TextsAreNamed
  <2>6. \A v, u \in Windows : tabs'[v].window = tabs'[u].window /\ tabs'[v].window # 0 => v = u
    BY <1>1, <1>2, <2>5 DEF TextsAreNamed
  <2>7. QED
    BY <2>1, <2>2, <2>4, <2>6 DEF TextsAreNamed
<1>7. OneSaveAtATime'
  <2>1. \A r \in draftRequests' : Save(r) /\ r.tab \in Windows => tabs'[r.tab].saving
    BY <1>1, <1>2 DEF OneSaveAtATime
  <2>2. \A r, s \in draftRequests' : Save(r) /\ Save(s) /\ r.tab = s.tab /\ r.tab \in Windows => r = s
    BY <1>1 DEF OneSaveAtATime
  <2>3. ASSUME NEW q \in new, InFlight(q), NEW s \in draftRequests \ old, InFlight(s), q.window = s.window
        PROVE  FALSE
    <3>1. Save(q) /\ Save(s) /\ s.window = tabs[t].window /\ s.window # 0
      BY <1>5, <2>3 DEF InFlight
    <3>2. s.tab = t
      BY <1>1, <2>3, <3>1 DEF LaterIsAhead
    <3>3. QED
      BY <2>3, <3>1, <3>2
  <2>4. \A r, s \in draftRequests' : InFlight(r) /\ InFlight(s) /\ r.window = s.window /\ r.window # 0 => r = s
    <3> SUFFICES ASSUME NEW r \in draftRequests', NEW s \in draftRequests', InFlight(r), InFlight(s),
                        r.window = s.window, r.window # 0
                 PROVE  r = s
      OBVIOUS
    <3>1. CASE r \in new /\ s \in new
      BY <3>1 DEF InFlight
    <3>2. CASE r \in draftRequests \ old /\ s \in draftRequests \ old
      BY <1>1, <3>2 DEF OneSaveAtATime
    <3>3. CASE r \in new /\ s \in draftRequests \ old
      BY <2>3, <3>3
    <3>4. CASE s \in new /\ r \in draftRequests \ old
      BY <2>3, <3>4
    <3>5. QED
      BY <3>1, <3>2, <3>3, <3>4
  <2>5. QED
    BY <2>1, <2>2, <2>4 DEF OneSaveAtATime
<1>8. ASSUME NEW w \in Nat, NEW n \in Nat, w <= windows, \A u \in Windows : Shows(u, w, n)
      PROVE  \A u \in Windows : Shows(u, w, n)'
  <2>1. \A u \in Windows : u # t => Shows(u, w, n)'
    BY <1>2, <1>8 DEF Shows
  <2>2. Shows(t, w, n)'
    <3>1. Shows(t, w, n)
      BY <1>8
    <3>2. CASE x.window = 0
      BY <1>2, <3>2 DEF Shows
    <3>3. CASE x.window = windows' /\ windows' = windows + 1
      BY <1>2, <1>3, <1>8, <3>3 DEF Shows
    <3>4. CASE x.window = tabs[t].window /\ x.text = tabs[t].text
      BY <1>2, <3>1, <3>4 DEF Shows
    <3>5. CASE /\ x.window = tabs[t].window /\ x.text.window = x.window
               /\ tabs[t].text.window = x.window => tabs[t].text.n <= x.text.n
      BY <1>2, <1>3, <3>1, <3>5 DEF Shows
    <3>6. QED
      BY <3>2, <3>3, <3>4, <3>5
  <2>3. QED
    BY <2>1, <2>2
<1>9. LaterIsAhead'
  <2>1. ASSUME NEW r \in draftRequests \ old, Save(r), NEW u \in Windows
        PROVE  Shows(u, r.window, r.text.n)' /\ (tabs'[u].window = r.window /\ r.window # 0 => r.tab = u)
    <3>1. r.window \in Nat /\ r.text.n \in Nat /\ r.window <= windows
      BY <1>1, <1>4, <2>1 DEF TextsAreNamed
    <3>2. \A v \in Windows : Shows(v, r.window, r.text.n)
      BY <1>1, <2>1 DEF LaterIsAhead
    <3>3. Shows(u, r.window, r.text.n)'
      BY <1>8, <3>1, <3>2
    <3>4. ASSUME tabs'[u].window = r.window, r.window # 0
          PROVE  r.tab = u
      <4>1. tabs[u].window = r.window
        BY <1>2, <1>3, <3>1, <3>4
      <4>2. QED
        BY <1>1, <2>1, <3>4, <4>1 DEF LaterIsAhead
    <3>5. QED
      BY <3>3, <3>4
  <2>2. ASSUME NEW q \in new, Save(q), NEW u \in Windows
        PROVE  Shows(u, q.window, q.text.n)' /\ (tabs'[u].window = q.window /\ q.window # 0 => q.tab = u)
    <3>1. q.window = tabs[t].window /\ q.text = tabs[t].text /\ q.tab = t /\ tabs[t].text.window = q.window
          /\ (x.window = 0 \/ (x.window = tabs[t].window /\ x.text = tabs[t].text))
      BY <1>5, <2>2
    <3>2. CASE u = t
      BY <1>2, <1>3, <3>1, <3>2 DEF Shows
    <3>3. CASE u # t
      <4>1. tabs'[u] = tabs[u] /\ (tabs[u].window = q.window => q.window = 0)
        BY <1>1, <1>2, <3>1, <3>3 DEF TextsAreNamed
      <4>2. QED
        BY <4>1 DEF Shows
    <3>4. QED
      BY <3>2, <3>3
  <2>3. \A i \in 1..MaxDrafts, u \in Windows : Shows(u, drafts[i].text.window, drafts[i].text.n)'
    <3> SUFFICES ASSUME NEW i \in 1..MaxDrafts
                 PROVE  \A u \in Windows : Shows(u, drafts[i].text.window, drafts[i].text.n)'
      OBVIOUS
    <3>1. PICK w \in Nat : w = drafts[i].text.window
      BY <1>4
    <3>2. PICK n \in Nat : n = drafts[i].text.n
      BY <1>4
    <3>3. w <= windows /\ \A u \in Windows : Shows(u, w, n)
      BY <1>1, <3>1, <3>2 DEF TextsAreNamed, LaterIsAhead
    <3>4. \A u \in Windows : Shows(u, w, n)'
      BY <1>8, <3>3
    <3>5. QED
      BY <3>1, <3>2, <3>4 DEF Shows
  <2>4. \A i \in 1..MaxDrafts, r \in draftRequests' :
          InFlight(r) /\ drafts'[i].text.window = r.window => drafts'[i].text.n <= r.text.n
    <3> SUFFICES ASSUME NEW i \in 1..MaxDrafts, NEW q \in new, InFlight(q), drafts[i].text.window = q.window
                 PROVE  drafts[i].text.n <= q.text.n
      BY <1>1 DEF LaterIsAhead
    <3>1. Save(q) /\ q.window = tabs[t].window /\ q.text = tabs[t].text /\ q.window # 0
      BY <1>5 DEF InFlight
    <3>2. Shows(t, drafts[i].text.window, drafts[i].text.n)
      BY <1>1 DEF LaterIsAhead
    <3>3. QED
      BY <3>1, <3>2 DEF Shows
  <2>5. QED
    BY <2>1, <2>2, <2>3, <2>4 DEF LaterIsAhead
<1>10. QED
  BY <1>6, <1>7, <1>9

\* A request goes on, is lost or joins, and the server stores its text, unless another text is newer.
RequestStep(r, s) ==
  /\ tabs' = tabs /\ windows' = windows /\ draftRequests' \subseteq (draftRequests \ {r}) \cup {s}
  /\ Save(s) /\ s \in draftRequests' =>
       \/ /\ r \in draftRequests /\ Save(r) /\ s.tab = r.tab /\ s.window = r.window /\ s.text = r.text
          /\ InFlight(s) => InFlight(r)
       \/ s.tab = Nobody /\ s.window = 0 /\ s.text = [window |-> 0, n |-> 0]
  /\ \A i \in 1..MaxDrafts :
       \/ drafts'[i].text \in {drafts[i].text, [window |-> 0, n |-> 0]}
       \/ /\ r \in draftRequests /\ InFlight(r) /\ drafts'[i].text = r.text
          /\ s \in draftRequests' => ~InFlight(s)

\* A request goes on.
LEMMA DraftRequestGoes ==
  ASSUME DraftTypes, TextsInOrder, thrown = {}, NEW r, NEW s, RequestStep(r, s)
  PROVE  TextsAreNamed' /\ OneSaveAtATime' /\ LaterIsAhead'
<1> USE DEF RequestStep
<1>1. TextsAreNamed /\ OneSaveAtATime /\ LaterIsAhead
  BY DEF TextsInOrder
<1>2. tabs \in [Windows -> WindowForm] /\ windows \in Nat
  BY DEF DraftTypes
<1>3. \A q \in draftRequests : q.window \in Nat /\ q.text.n \in Nat /\ q.text.window \in Nat /\ q.tab \in Windows \cup {Nobody}
  BY DEF DraftTypes, DraftRequestForm, TextForm
<1>4. \A i \in 1..MaxDrafts : drafts[i].text.window \in Nat /\ drafts[i].text.n \in Nat
  BY DEF DraftTypes, RowForm, TextForm
<1>5. Nobody \notin Windows
  BY MailboxAssumption DEF Drafts!DraftsAssumption

\* Every save was one, or is nobody's.
<1>6. ASSUME NEW q \in draftRequests', Save(q)
      PROVE  \/ \E p \in draftRequests :
                  /\ Save(p) /\ q.tab = p.tab /\ q.window = p.window /\ q.text = p.text /\ (InFlight(q) => InFlight(p))
                  /\ IF q = s THEN p = r \/ s \in draftRequests ELSE p = q /\ p # r
             \/ q = s /\ q.tab = Nobody /\ q.window = 0 /\ q.text.window = 0 /\ q.text.n = 0
  <2>1. CASE q = s /\ ~(q \in draftRequests \ {r})
    BY <1>6, <2>1
  <2>2. CASE q \in draftRequests \ {r}
    BY <1>6, <2>2
  <2>3. QED
    BY <2>1, <2>2
<1>7. TextsAreNamed'
  <2>1. \A q \in draftRequests' : Save(q) => /\ q.text.window = q.window /\ q.window <= windows'
                                             /\ q.window = 0 => q.text.n = 0
    BY <1>1, <1>2, <1>6 DEF TextsAreNamed
  <2>2. \A i \in 1..MaxDrafts : /\ drafts'[i].text.window <= windows'
                                /\ drafts'[i].text.window = 0 => drafts'[i].text.n = 0
    <3> SUFFICES ASSUME NEW i \in 1..MaxDrafts
                 PROVE  /\ drafts'[i].text.window <= windows
                        /\ drafts'[i].text.window = 0 => drafts'[i].text.n = 0
      OBVIOUS
    <3>1. CASE drafts'[i].text = drafts[i].text
      BY <1>1, <3>1 DEF TextsAreNamed
    <3>2. CASE drafts'[i].text = [window |-> 0, n |-> 0]
      BY <1>2, <3>2
    <3>3. CASE r \in draftRequests /\ InFlight(r) /\ drafts'[i].text = r.text
      BY <1>1, <3>3 DEF TextsAreNamed, InFlight
    <3>4. QED
      BY <3>1, <3>2, <3>3
  <2>3. QED
    BY <1>1, <2>1, <2>2 DEF TextsAreNamed
<1>8. OneSaveAtATime'
  <2>1. \A q \in draftRequests' : Save(q) /\ q.tab \in Windows => tabs'[q.tab].saving
    BY <1>1, <1>5, <1>6 DEF OneSaveAtATime
  <2>2. \A p, q \in draftRequests' : Save(p) /\ Save(q) /\ p.tab = q.tab /\ p.tab \in Windows => p = q
    <3> SUFFICES ASSUME NEW p \in draftRequests', NEW q \in draftRequests', Save(p), Save(q), p.tab = q.tab,
                        p.tab \in Windows, p # q
                 PROVE  FALSE
      OBVIOUS
    <3>1. CASE p # s /\ q # s
      BY <1>1, <3>1 DEF OneSaveAtATime
    <3>2. CASE p = s
      <4>1. q # s /\ q \in draftRequests /\ q # r
        BY <3>2
      <4>2. r \in draftRequests /\ Save(r) /\ r.tab = s.tab
        BY <1>5, <3>2
      <4>3. QED
        BY <1>1, <3>2, <4>1, <4>2 DEF OneSaveAtATime
    <3>3. CASE q = s
      <4>1. p # s /\ p \in draftRequests /\ p # r
        BY <3>3
      <4>2. r \in draftRequests /\ Save(r) /\ r.tab = s.tab
        BY <1>5, <3>3
      <4>3. QED
        BY <1>1, <3>3, <4>1, <4>2 DEF OneSaveAtATime
    <3>4. QED
      BY <3>1, <3>2, <3>3
  <2>3. \A p, q \in draftRequests' : InFlight(p) /\ InFlight(q) /\ p.window = q.window /\ p.window # 0 => p = q
    <3> SUFFICES ASSUME NEW p \in draftRequests', NEW q \in draftRequests', InFlight(p), InFlight(q),
                        p.window = q.window, p.window # 0, p # q
                 PROVE  FALSE
      OBVIOUS
    <3>1. Save(p) /\ Save(q)
      BY DEF InFlight
    <3>2. CASE p # s /\ q # s
      BY <1>1, <3>2 DEF OneSaveAtATime
    <3>3. CASE p = s
      <4>1. q # s /\ q \in draftRequests /\ q # r
        BY <3>3
      <4>2. r \in draftRequests /\ InFlight(r) /\ r.window = s.window
        BY <3>1, <3>3
      <4>3. QED
        BY <1>1, <3>3, <4>1, <4>2 DEF OneSaveAtATime
    <3>4. CASE q = s
      <4>1. p # s /\ p \in draftRequests /\ p # r
        BY <3>4
      <4>2. r \in draftRequests /\ InFlight(r) /\ r.window = s.window
        BY <3>1, <3>4
      <4>3. QED
        BY <1>1, <3>4, <4>1, <4>2 DEF OneSaveAtATime
    <3>5. QED
      BY <3>2, <3>3, <3>4
  <2>4. QED
    BY <2>1, <2>2, <2>3 DEF OneSaveAtATime
<1>9. LaterIsAhead'
  <2>1. \A q \in draftRequests', u \in Windows :
          Save(q) => /\ Shows(u, q.window, q.text.n)
                     /\ tabs[u].window = q.window /\ q.window # 0 => q.tab = u
    BY <1>1, <1>6 DEF LaterIsAhead, Shows
  <2>2. ASSUME NEW q \in draftRequests', NEW u \in Windows, Save(q)
        PROVE  /\ Shows(u, q.window, q.text.n)'
               /\ tabs'[u].window = q.window /\ q.window # 0 => q.tab = u
    BY <2>1, <2>2 DEF Shows
  <2>3. ASSUME NEW i \in 1..MaxDrafts, NEW u \in Windows, tabs[u].window = drafts'[i].text.window,
               drafts'[i].text.window # 0
        PROVE  tabs[u].text.window = drafts'[i].text.window /\ drafts'[i].text.n <= tabs[u].text.n
    <3>1. CASE drafts'[i].text = drafts[i].text
      BY <1>1, <2>3, <3>1 DEF LaterIsAhead, Shows
    <3>2. CASE drafts'[i].text = [window |-> 0, n |-> 0]
      BY <2>3, <3>2
    <3>3. CASE r \in draftRequests /\ InFlight(r) /\ drafts'[i].text = r.text
      BY <1>1, <2>3, <3>3 DEF LaterIsAhead, TextsAreNamed, Shows, InFlight
    <3>4. QED
      BY <3>1, <3>2, <3>3
  <2>4. \A i \in 1..MaxDrafts, u \in Windows : Shows(u, drafts[i].text.window, drafts[i].text.n)'
    BY <2>3 DEF Shows
  <2>5. ASSUME NEW i \in 1..MaxDrafts, NEW q \in draftRequests', InFlight(q), drafts'[i].text.window = q.window
        PROVE  drafts'[i].text.n <= q.text.n
    <3>1. Save(q)
      BY <2>5 DEF InFlight
    <3>2. q.text.n \in Nat
      BY <1>3, <1>6, <3>1
    <3>3. CASE drafts'[i].text = drafts[i].text
      <4>1. CASE q = s /\ q.tab = Nobody /\ q.window = 0 /\ q.text.n = 0
        BY <1>1, <2>5, <3>3, <4>1 DEF TextsAreNamed
      <4>2. CASE \E p \in draftRequests : q.window = p.window /\ q.text = p.text /\ InFlight(p)
        BY <1>1, <2>5, <3>3, <4>2 DEF LaterIsAhead
      <4>3. QED
        BY <1>6, <2>5, <3>1, <4>1, <4>2
    <3>4. CASE drafts'[i].text = [window |-> 0, n |-> 0]
      BY <3>2, <3>4
    <3>5. CASE /\ r \in draftRequests /\ InFlight(r) /\ drafts'[i].text = r.text
               /\ s \in draftRequests' => ~InFlight(s)
      <4>1. q \in draftRequests /\ q # r
        BY <2>5, <3>5
      <4>2. Save(r) /\ r.text.window = r.window /\ r.window = q.window
        BY <1>1, <2>5, <3>5 DEF TextsAreNamed, InFlight
      <4>3. r.window = 0
        BY <1>1, <2>5, <3>5, <4>1, <4>2 DEF OneSaveAtATime
      <4>4. QED
        BY <1>1, <3>2, <3>5, <4>2, <4>3 DEF TextsAreNamed
    <3>6. QED
      BY <3>3, <3>4, <3>5
  <2>6. QED
    BY <2>2, <2>4, <2>5 DEF LaterIsAhead
<1>10. QED
  BY <1>7, <1>8, <1>9

\* What the helpers make of a window are windows and requests.
LEMMA DraftForms ==
  /\ Drafts!Blank \in TextForm /\ Drafts!Blank = [window |-> 0, n |-> 0] /\ Drafts!Closed \in WindowForm
  /\ Drafts!NoDraft \in RowForm /\ Drafts!NoDraft.conversation = "none" /\ Drafts!NoDraft.text = Drafts!Blank
  /\ \A x \in WindowForm :
       /\ Drafts!AfterSave(x) \in WindowForm /\ Drafts!Forgotten(x) \in WindowForm
       /\ Drafts!AfterSave(x).window = x.window /\ Drafts!AfterSave(x).text = x.text
       /\ Drafts!AfterSave(x).lastSaved = x.lastSaved
       /\ x.saving => Drafts!AfterSave(x).saving
       /\ Drafts!Unsaved(x) => Drafts!AfterSave(x).saving
  /\ \A x \in WindowForm, t \in Windows \cup {Nobody}, k \in {"save", "delete", "queue"} :
       /\ Drafts!Request(k, t, x) \in DraftRequestForm
       /\ Drafts!Request(k, t, x).kind = k /\ Drafts!Request(k, t, x).step = "sent"
       /\ Drafts!Request(k, t, x).tab = t /\ Drafts!Request(k, t, x).window = x.window
       /\ Drafts!Request(k, t, x).text = x.text
  /\ \A r \in DraftRequestForm : r = [kind |-> r.kind, tab |-> r.tab, window |-> r.window, id |-> r.id,
                                      conversation |-> r.conversation, text |-> r.text, step |-> r.step]
<1>1. "" \in Peers
  BY MailboxAssumption DEF Drafts!DraftsAssumption
<1>2. /\ Drafts!Blank \in TextForm /\ Drafts!Blank = [window |-> 0, n |-> 0] /\ Drafts!NoDraft \in RowForm
      /\ Drafts!NoDraft.conversation = "none" /\ Drafts!NoDraft.text = Drafts!Blank
  BY DEF Drafts!Blank, Drafts!NoDraft, TextForm, RowForm
<1>3. Drafts!Closed \in WindowForm
  BY <1>1, <1>2 DEF Drafts!Closed, WindowForm
<1>4. \A x \in WindowForm : x.window \in Nat /\ x.conversation \in Peers /\ x.text \in TextForm /\ x.draftId \in Nat
  BY DEF WindowForm
<1>5. ASSUME NEW x \in WindowForm
      PROVE  /\ Drafts!AfterSave(x) \in WindowForm
             /\ Drafts!AfterSave(x).window = x.window /\ Drafts!AfterSave(x).text = x.text
             /\ Drafts!AfterSave(x).lastSaved = x.lastSaved
             /\ x.saving => Drafts!AfterSave(x).saving
             /\ Drafts!Unsaved(x) => Drafts!AfterSave(x).saving
  <2>1. CASE ~Drafts!Unsaved(x)
    BY <2>1 DEF Drafts!AfterSave
  <2>2. CASE Drafts!Unsaved(x) /\ Drafts!Postponed(x)
    <3>1. Drafts!AfterSave(x) = [x EXCEPT !.pending = TRUE]
      BY <2>2 DEF Drafts!AfterSave
    <3>2. x.saving
      BY <2>2 DEF Drafts!Postponed
    <3>3. QED
      BY <3>1, <3>2 DEF WindowForm
  <2>3. CASE Drafts!Unsaved(x) /\ ~Drafts!Postponed(x)
    <3>1. Drafts!AfterSave(x) = [x EXCEPT !.saving = TRUE]
      BY <2>3 DEF Drafts!AfterSave
    <3>2. QED
      BY <3>1 DEF WindowForm
  <2>4. QED
    BY <2>1, <2>2, <2>3
<1>6. \A x \in WindowForm : Drafts!Forgotten(x) \in WindowForm
  BY <1>2 DEF Drafts!Forgotten, WindowForm
<1>7. \A x \in WindowForm, t \in Windows \cup {Nobody}, k \in {"save", "delete", "queue"} :
        /\ Drafts!Request(k, t, x) \in DraftRequestForm
        /\ Drafts!Request(k, t, x).kind = k /\ Drafts!Request(k, t, x).step = "sent"
        /\ Drafts!Request(k, t, x).tab = t /\ Drafts!Request(k, t, x).window = x.window
        /\ Drafts!Request(k, t, x).text = x.text
  BY <1>4 DEF Drafts!Request, DraftRequestForm
<1>8. \A r \in DraftRequestForm : r = [kind |-> r.kind, tab |-> r.tab, window |-> r.window, id |-> r.id,
                                      conversation |-> r.conversation, text |-> r.text, step |-> r.step]
  BY DEF DraftRequestForm
<1>9. QED
  BY <1>2, <1>3, <1>5, <1>6, <1>7, <1>8

\* Nothing is resolved, and rows only go.
LEMMA ServerKeeps ==
  ASSUME DraftTypes, DraftTypes', ServerHeld, locked' = locked, thrown \subseteq thrown',
         \A i \in 1..MaxDrafts : drafts'[i] = drafts[i] \/ drafts'[i] = Drafts!NoDraft,
         \A r \in draftRequests' : Resolved(r) => r \in draftRequests,
         \A r \in draftRequests' : r.kind = "queue" /\ r.step \in {"resolved", "answered"} => thrown' # {}
  PROVE  ServerHeld'
<1>1. OneIsResolved'
  BY DEF ServerHeld, OneIsResolved
<1>2. QueuesThrow'
  BY DEF QueuesThrow
<1>3. \A i \in 1..MaxDrafts : drafts'[i].conversation # "none" => drafts'[i] = drafts[i]
  BY DraftForms
<1>4. \A i, j \in 1..MaxDrafts :
        drafts'[i].conversation = drafts'[j].conversation /\ drafts'[i].conversation \notin {"", "none"} => i = j
  BY <1>3 DEF ServerHeld, RowOfConversation
<1>5. ASSUME NEW r \in draftRequests', Resolved(r), NEW i \in Drafts!DraftIds, r.conversation # "",
             drafts'[i].conversation = r.conversation
      PROVE  i = r.id
  <2>1. r \in draftRequests /\ r.conversation # "none" /\ i \in 1..MaxDrafts
    BY <1>5, MailboxAssumption DEF DraftTypes, DraftRequestForm, Drafts!DraftsAssumption, Drafts!DraftIds
  <2>2. drafts[i].conversation = r.conversation
    BY <1>3, <1>5, <2>1
  <2>3. QED
    BY <1>5, <2>1, <2>2 DEF ServerHeld, RowOfConversation, Drafts!Refused, Drafts!OfConversation
<1>6. \A r \in draftRequests' : Resolved(r) => ~Drafts!Refused(r)'
  BY <1>5 DEF Drafts!Refused, Drafts!OfConversation
<1>7. RowOfConversation'
  BY <1>4, <1>6 DEF RowOfConversation
<1>8. QED
  BY <1>1, <1>2, <1>7 DEF ServerHeld

\* The steps that have no bound of their own, whichever of the two instances works.
LEMMA SameMoves ==
  /\ \A t : Typing!Open(t) => Drafts!Open(t)
  /\ \A t : Typing!Autosave(t) => Drafts!Autosave(t)
  /\ \A t : Typing!Close(t) => Drafts!Close(t)
  /\ \A t : Typing!SaveReturns(t) => Drafts!SaveReturns(t)
  /\ \A t : Typing!QueueReturns(t) => Drafts!QueueReturns(t)
  /\ Typing!Resolve => Drafts!Resolve
  /\ Typing!Upsert => Drafts!Upsert
  /\ Typing!DeleteDraft => Drafts!DeleteDraft
  /\ Typing!Queue => Drafts!Queue
  /\ Typing!DeleteDraftsForConversation => Drafts!DeleteDraftsForConversation
<1>1. /\ \A x, y : Typing!Goto(x, y) = Drafts!Goto(x, y)
      /\ \A x : Typing!Done(x) = Drafts!Done(x)
      /\ \A x, y, z : Typing!Answered(x, y, z) = Drafts!Answered(x, y, z)
  BY DEF Typing!Goto, Drafts!Goto, Typing!Done, Drafts!Done, Typing!Answered, Drafts!Answered
<1>2. \A x, y : Typing!Reply(x, y) = Drafts!Reply(x, y)
  BY <1>1, Zenon DEF Typing!Reply, Drafts!Reply
<1>3. \A t : Typing!Open(t) => Drafts!Open(t)
  <2>1. ASSUME NEW t, Typing!Open(t)
        PROVE  Drafts!Open(t)
    <3>1. PICK c \in Peers : \E id \in {0} \cup {i \in Typing!DraftIds : Typing!Exists(i) /\ drafts[i].conversation = c} :
            LET text == IF id = 0 THEN Typing!Blank ELSE drafts[id].text IN
            tabs' = [tabs EXCEPT ![t] = [@ EXCEPT !.window = windows', !.conversation = c, !.text = text,
                       !.lastSaved = text, !.draftId = id, !.discarded = FALSE, !.kept = Typing!Blank]]
      BY <2>1 DEF Typing!Open
    <3>2. \A i : Typing!Exists(i) = Drafts!Exists(i)
      BY SameDrafts
    <3>3. Typing!DraftIds = Drafts!DraftIds /\ Typing!Blank = Drafts!Blank
      BY SameDrafts
    <3>4. {0} \cup {i \in Typing!DraftIds : Typing!Exists(i) /\ drafts[i].conversation = c}
            = {0} \cup {i \in Drafts!DraftIds : Drafts!Exists(i) /\ drafts[i].conversation = c}
      BY <3>2, <3>3
    <3>5. \E id \in {0} \cup {i \in Drafts!DraftIds : Drafts!Exists(i) /\ drafts[i].conversation = c} :
            LET text == IF id = 0 THEN Drafts!Blank ELSE drafts[id].text IN
            tabs' = [tabs EXCEPT ![t] = [@ EXCEPT !.window = windows', !.conversation = c, !.text = text,
                       !.lastSaved = text, !.draftId = id, !.discarded = FALSE, !.kept = Drafts!Blank]]
      BY <3>1, <3>3, <3>4, Zenon
    <3>6. QED
      BY <2>1, <3>5, Zenon DEF Typing!Open, Drafts!Open
  <2>2. QED
    BY <2>1
<1>4. \A t : Typing!Autosave(t) => Drafts!Autosave(t)
  BY SameDrafts, Zenon DEF Typing!Autosave, Drafts!Autosave
<1>5. \A t : Typing!Close(t) => Drafts!Close(t)
  BY SameDrafts, Zenon DEF Typing!Close, Drafts!Close
<1>6. \A t : Typing!SaveReturns(t) => Drafts!SaveReturns(t)
  BY SameDrafts, <1>1, ZenonT(60) DEF Typing!SaveReturns, Drafts!SaveReturns
<1>7. \A t : Typing!QueueReturns(t) => Drafts!QueueReturns(t)
  BY SameDrafts, <1>1, Zenon DEF Typing!QueueReturns, Drafts!QueueReturns
<1>8. Typing!Resolve => Drafts!Resolve
  BY SameDrafts, <1>1, Zenon DEF Typing!Resolve, Drafts!Resolve
<1>9. Typing!Upsert => Drafts!Upsert
  BY SameDrafts, <1>2, Zenon DEF Typing!Upsert, Drafts!Upsert
<1>10. Typing!DeleteDraft => Drafts!DeleteDraft
  BY SameDrafts, <1>1, Zenon DEF Typing!DeleteDraft, Drafts!DeleteDraft
<1>11. Typing!Queue => Drafts!Queue
  BY SameDrafts, <1>1, Zenon DEF Typing!Queue, Drafts!Queue
<1>12. Typing!DeleteDraftsForConversation => Drafts!DeleteDraftsForConversation
  BY SameDrafts, <1>2, Zenon DEF Typing!DeleteDraftsForConversation, Drafts!DeleteDraftsForConversation
<1>13. QED
  BY <1>3, <1>4, <1>5, <1>6, <1>7, <1>8, <1>9, <1>10, <1>11, <1>12

\* A step of a window, in which the server does nothing.
LEMMA WindowKeeps ==
  ASSUME DraftInv, DraftTypes', UNCHANGED <<drafts, locked, thrown>>, NEW t, NEW x, NEW old, NEW new,
         thrown = {} => WindowStep(t, x, old, new),
         \A r \in draftRequests' : r.step # "sent" => r \in draftRequests
  PROVE  DraftInv'
<1>1. DraftTypes /\ ServerHeld /\ TextsInOrder
  BY DEF DraftInv
<1>2. ServerHeld'
  <2>1. \A r \in draftRequests' : Resolved(r) => r \in draftRequests
    BY DEF Resolved
  <2>2. \A r \in draftRequests' : r.kind = "queue" /\ r.step \in {"resolved", "answered"} => thrown' # {}
    BY <1>1 DEF ServerHeld, QueuesThrow
  <2>3. QED
    BY <1>1, <2>1, <2>2, ServerKeeps
<1>3. thrown = {} => TextsAreNamed' /\ OneSaveAtATime' /\ LaterIsAhead'
  BY <1>1, WindowGoes, Zenon
<1>4. QED
  BY <1>1, <1>2, <1>3 DEF DraftInv, TextsInOrder

\* A window opens on a stored draft, or on nothing.
LEMMA OpenKeeps ==
  ASSUME DraftInv, NEW t \in Windows, Drafts!Open(t)
  PROVE  DraftInv'
<1>a. PICK c \in Peers : \E id \in {0} \cup {i \in Drafts!DraftIds : Drafts!Exists(i) /\ drafts[i].conversation = c} :
        LET text == IF id = 0 THEN Drafts!Blank ELSE drafts[id].text IN
        tabs' = [tabs EXCEPT ![t] = [@ EXCEPT !.window = windows', !.conversation = c, !.text = text,
                   !.lastSaved = text, !.draftId = id, !.discarded = FALSE, !.kept = Drafts!Blank]]
  BY Zenon DEF Drafts!Open
<1>b. PICK id \in {0} \cup {i \in Drafts!DraftIds : Drafts!Exists(i) /\ drafts[i].conversation = c} :
        LET text == IF id = 0 THEN Drafts!Blank ELSE drafts[id].text IN
        tabs' = [tabs EXCEPT ![t] = [@ EXCEPT !.window = windows', !.conversation = c, !.text = text,
                   !.lastSaved = text, !.draftId = id, !.discarded = FALSE, !.kept = Drafts!Blank]]
  BY <1>a
<1>1. id \in Nat /\ (id # 0 => id \in 1..MaxDrafts)
  <2>1. id = 0 \/ id \in Drafts!DraftIds
    BY <1>b, Zenon
  <2>2. QED
    BY <2>1 DEF Drafts!DraftIds
<1>2. PICK text : /\ text = IF id = 0 THEN Drafts!Blank ELSE drafts[id].text
                  /\ tabs' = [tabs EXCEPT ![t] = [@ EXCEPT !.window = windows', !.conversation = c, !.text = text,
                   !.lastSaved = text, !.draftId = id, !.discarded = FALSE, !.kept = Drafts!Blank]]
  BY <1>b
<1>3. text \in TextForm /\ windows \in Nat /\ tabs[t] \in WindowForm /\ windows' = windows + 1
  BY <1>1, <1>2, DraftForms DEF DraftInv, DraftTypes, RowForm, Drafts!Open
<1>4. PICK x : /\ x = [tabs[t] EXCEPT !.window = windows', !.conversation = c, !.text = text,
                   !.lastSaved = text, !.draftId = id, !.discarded = FALSE, !.kept = Drafts!Blank]
               /\ tabs' = [tabs EXCEPT ![t] = x]
  BY <1>2
<1>5. /\ x \in WindowForm /\ x.window = windows' /\ x.text = x.lastSaved /\ x.saving = tabs[t].saving
  <2>1. Drafts!Blank \in TextForm /\ windows' \in Nat
    BY <1>3, DraftForms
  <2>2. x = [window |-> windows', conversation |-> c, text |-> text, lastSaved |-> text, draftId |-> id,
             saving |-> tabs[t].saving, pending |-> tabs[t].pending, discarded |-> FALSE,
             sending |-> tabs[t].sending, kept |-> Drafts!Blank]
    BY <1>3, <1>4 DEF WindowForm
  <2>3. tabs[t].saving \in BOOLEAN /\ tabs[t].pending \in BOOLEAN /\ tabs[t].sending \in BOOLEAN
    BY <1>3 DEF WindowForm
  <2>4. QED
    BY <1>1, <1>3, <2>1, <2>2, <2>3 DEF WindowForm
<1>6. UNCHANGED <<drafts, minted, draftRequests, locked, thrown>>
  BY DEF Drafts!Open
<1>7. DraftTypes'
  BY <1>3, <1>4, <1>5, <1>6 DEF DraftInv, DraftTypes
<1>8. SendsSave(t, x, {}, {}) \/ thrown # {}
  BY <1>5 DEF SendsSave, DraftInv, TextsInOrder, OneSaveAtATime
<1>9. GoesOn(t, x)
  BY <1>3, <1>5 DEF GoesOn
<1>10. /\ drafts' = drafts /\ tabs' = [tabs EXCEPT ![t] = x] /\ draftRequests' = (draftRequests \ {}) \cup {}
       /\ windows' \in {windows, windows + 1}
  BY <1>3, <1>4, <1>6
<1>11. thrown = {} => WindowStep(t, x, {}, {})
  BY <1>5, <1>8, <1>9, <1>10 DEF WindowStep
<1>12. QED
  BY <1>6, <1>7, <1>11, WindowKeeps

\* The window of a tab whose save is on its way waits for it.
LEMMA SavesAreAwaited ==
  ASSUME DraftInv, thrown = {}, NEW t \in Windows, NEW r \in draftRequests, Save(r), r.tab = t
  PROVE  tabs[t].saving
BY DEF DraftInv, TextsInOrder, OneSaveAtATime

\* A text is typed.
Typed(t) ==
  /\ tabs[t].window # 0
  /\ \E n \in Nat : /\ n = IF tabs[t].text.window = tabs[t].window THEN tabs[t].text.n + 1 ELSE 1
                    /\ tabs' = [tabs EXCEPT ![t].text = [window |-> tabs[t].window, n |-> n]]
  /\ UNCHANGED <<drafts, minted, draftRequests, locked, windows, thrown, losses>>

\* Somebody types.
LEMMA TypeKeeps ==
  ASSUME DraftInv, NEW t \in Windows, Typed(t)
  PROVE  DraftInv'
<1>1. PICK n \in Nat : /\ n = IF tabs[t].text.window = tabs[t].window THEN tabs[t].text.n + 1 ELSE 1
                       /\ tabs' = [tabs EXCEPT ![t].text = [window |-> tabs[t].window, n |-> n]]
  BY DEF Typed
<1>2. /\ DraftTypes /\ tabs[t] \in WindowForm /\ tabs[t].window \in Nat /\ tabs[t].window # 0 /\ windows \in Nat
      /\ tabs[t].text.n \in Nat
  BY DEF DraftInv, DraftTypes, WindowForm, TextForm, Typed
<1>3. PICK x : x = [tabs[t] EXCEPT !.text = [window |-> tabs[t].window, n |-> n]]
  OBVIOUS
<1>4. tabs' = [tabs EXCEPT ![t] = x]
  BY <1>1, <1>3
<1>5. /\ x \in WindowForm /\ x.window = tabs[t].window /\ x.text = [window |-> tabs[t].window, n |-> n]
      /\ x.saving = tabs[t].saving
  BY <1>2, <1>3 DEF WindowForm, TextForm
<1>6. UNCHANGED <<drafts, minted, draftRequests, locked, windows, thrown>>
  BY DEF Typed
<1>7. DraftTypes'
  BY <1>2, <1>4, <1>5, <1>6 DEF DraftTypes
<1>8. thrown = {} => SendsSave(t, x, {}, {})
  BY <1>5, SavesAreAwaited DEF SendsSave
<1>9. GoesOn(t, x)
  BY <1>1, <1>2, <1>5 DEF GoesOn
<1>10. /\ drafts' = drafts /\ draftRequests' = (draftRequests \ {}) \cup {} /\ windows' \in {windows, windows + 1}
  BY <1>6
<1>11. thrown = {} => WindowStep(t, x, {}, {})
  BY <1>4, <1>5, <1>8, <1>9, <1>10 DEF WindowStep
<1>12. QED
  BY <1>6, <1>7, <1>11, WindowKeeps

\* What a window sends is a save of what it shows.
LEMMA SaveSent ==
  ASSUME NEW x \in WindowForm, NEW t \in Windows
  PROVE  /\ Drafts!SaveRequest(t, x) \subseteq DraftRequestForm
         /\ \A q \in Drafts!SaveRequest(t, x) :
              /\ q = Drafts!Request("save", t, x) /\ q.kind = "save" /\ q.step = "sent" /\ q.tab = t
              /\ q.window = x.window /\ q.text = x.text
              /\ x.window # 0 /\ x.text # x.lastSaved /\ ~x.saving /\ Drafts!AfterSave(x).saving
<1>1. \A q \in Drafts!SaveRequest(t, x) : q = Drafts!Request("save", t, x) /\ Drafts!Unsaved(x) /\ ~x.saving
  BY DEF Drafts!SaveRequest, Drafts!Postponed
<1>2. Drafts!Unsaved(x) => x.window # 0 /\ x.text # x.lastSaved
  BY DEF Drafts!Unsaved
<1>3. QED
  BY <1>1, <1>2, DraftForms

\* A window saves, and stays or closes.
LEMMA SaveGoes ==
  ASSUME DraftInv, NEW t \in Windows, NEW x \in WindowForm,
         draftRequests' = draftRequests \cup Drafts!SaveRequest(t, tabs[t]), tabs' = [tabs EXCEPT ![t] = x],
         UNCHANGED <<drafts, minted, locked, windows, thrown>>,
         x.text = tabs[t].text, x.saving = Drafts!AfterSave(tabs[t]).saving, x.lastSaved = tabs[t].lastSaved,
         x.window = 0 \/ x.window = tabs[t].window
  PROVE  DraftInv'
<1>1. DraftTypes /\ tabs[t] \in WindowForm /\ TextsInOrder
  BY DEF DraftInv, DraftTypes
<1>2. DraftTypes'
  BY <1>1, SaveSent DEF DraftTypes
<1>3. ASSUME thrown = {}
      PROVE  WindowStep(t, x, {}, Drafts!SaveRequest(t, tabs[t]))
  <2>1. tabs[t].window # 0 => tabs[t].text = tabs[t].lastSaved \/ tabs[t].text.window = tabs[t].window
    BY <1>1, <1>3 DEF TextsInOrder, TextsAreNamed
  <2>2. \A r \in draftRequests : Save(r) /\ r.tab = t => tabs[t].saving
    BY <1>3, SavesAreAwaited
  <2>3. tabs[t].saving => x.saving
    BY <1>1, DraftForms
  <2>4. \A q \in Drafts!SaveRequest(t, tabs[t]) :
          /\ q = Drafts!Request("save", t, tabs[t]) /\ q.step = "sent" /\ q.tab = t
          /\ q.window = tabs[t].window /\ q.text = tabs[t].text
          /\ tabs[t].window # 0 /\ tabs[t].text.window = tabs[t].window /\ ~tabs[t].saving /\ x.saving
    BY <1>1, <2>1, SaveSent
  <2>5. SendsSave(t, x, {}, Drafts!SaveRequest(t, tabs[t]))
    BY <2>2, <2>3, <2>4 DEF SendsSave
  <2>6. GoesOn(t, x)
    BY <2>1 DEF GoesOn
  <2>7. Drafts!SaveRequest(t, tabs[t]) \subseteq DraftRequestForm
    BY <1>1, SaveSent
  <2>8. QED
    BY <2>5, <2>6, <2>7 DEF WindowStep
<1>4. \A r \in draftRequests' : r.step # "sent" => r \in draftRequests
  BY <1>1, SaveSent
<1>5. QED
  BY <1>2, <1>3, <1>4, WindowKeeps

\* The window saves on its own.
LEMMA AutosaveKeeps ==
  ASSUME DraftInv, NEW t \in Windows, Drafts!Autosave(t)
  PROVE  DraftInv'
<1>1. tabs[t] \in WindowForm
  BY DEF DraftInv, DraftTypes
<1>2. PICK x : x = Drafts!AfterSave(tabs[t])
  OBVIOUS
<1>3. tabs' = [tabs EXCEPT ![t] = x]
  BY <1>2 DEF Drafts!Autosave
<1>4. /\ x \in WindowForm /\ x.text = tabs[t].text /\ x.saving = Drafts!AfterSave(tabs[t]).saving
      /\ x.lastSaved = tabs[t].lastSaved /\ x.window = tabs[t].window
  BY <1>1, <1>2, DraftForms
<1>5. QED
  BY <1>3, <1>4, SaveGoes DEF Drafts!Autosave

\* A window is closed.
LEMMA CloseKeeps ==
  ASSUME DraftInv, NEW t \in Windows, Drafts!Close(t)
  PROVE  DraftInv'
<1>1. tabs[t] \in WindowForm /\ tabs[t].text \in TextForm
  BY DEF DraftInv, DraftTypes, WindowForm
<1>2. PICK y : y = Drafts!AfterSave(tabs[t])
  OBVIOUS
<1>3. PICK k : k = IF tabs[t].text.window = tabs[t].window THEN tabs[t].text ELSE Drafts!Blank
  OBVIOUS
<1>4. PICK x : x = [y EXCEPT !.window = 0, !.kept = k]
  OBVIOUS
<1>5. tabs' = [tabs EXCEPT ![t] = x]
  BY <1>2, <1>3, <1>4 DEF Drafts!Close
<1>6. k \in TextForm
  BY <1>1, <1>3, DraftForms
<1>7. y \in WindowForm /\ y.text = tabs[t].text /\ y.lastSaved = tabs[t].lastSaved
  BY <1>1, <1>2, DraftForms
<1>8. /\ x \in WindowForm /\ x.window = 0 /\ x.text = y.text /\ x.saving = y.saving /\ x.lastSaved = y.lastSaved
  BY <1>4, <1>6, <1>7 DEF WindowForm
<1>9. /\ x.text = tabs[t].text /\ x.lastSaved = tabs[t].lastSaved /\ x.saving = Drafts!AfterSave(tabs[t]).saving
  BY <1>2, <1>7, <1>8
<1>10. QED
  BY <1>5, <1>8, <1>9, SaveGoes DEF Drafts!Close

\* Once a window is thrown away, the order of the texts is no longer promised.
LEMMA ThrownKeeps ==
  ASSUME DraftInv, DraftTypes', thrown' # {}, UNCHANGED <<drafts, locked>>, thrown \subseteq thrown',
         \A r \in draftRequests' : Resolved(r) => r \in draftRequests
  PROVE  DraftInv'
<1>1. ServerHeld'
  BY ServerKeeps DEF DraftInv
<1>2. QED
  BY <1>1 DEF DraftInv, TextsInOrder

\* A deletion is asked for.
LEMMA DeletionSent ==
  ASSUME DraftTypes, NEW t \in Windows
  PROVE  /\ Drafts!Deleting(t) \subseteq DraftRequestForm
         /\ \A q \in Drafts!Deleting(t) : q.kind = "delete" /\ q.step = "sent"
<1>1. tabs[t] \in WindowForm
  BY DEF DraftTypes
<1>2. \A q \in Drafts!Deleting(t) : q = Drafts!Request("delete", t, tabs[t])
  BY DEF Drafts!Deleting
<1>3. QED
  BY <1>1, <1>2, DraftForms

\* A window is thrown away.
Discarded(t) ==
  /\ tabs[t].window # 0
  /\ draftRequests' = draftRequests \cup Drafts!Deleting(t)
  /\ tabs' = [tabs EXCEPT ![t] = Drafts!Forgotten(@)]
  /\ thrown' = thrown \cup {tabs[t].window}
  /\ UNCHANGED <<drafts, minted, locked, windows>>

\* A window is discarded.
LEMMA DiscardKeeps ==
  ASSUME DraftInv, NEW t \in Windows, Discarded(t)
  PROVE  DraftInv'
<1>1. DraftTypes /\ tabs[t] \in WindowForm
  BY DEF DraftInv, DraftTypes
<1>2. \A q \in Drafts!Deleting(t) : q.kind = "delete" /\ q \in DraftRequestForm
  BY <1>1, DeletionSent
<1>3. Drafts!Forgotten(tabs[t]) \in WindowForm
  BY <1>1, DraftForms
<1>4. DraftTypes'
  BY <1>1, <1>2, <1>3 DEF DraftTypes, Discarded
<1>5. \A r \in draftRequests' : Resolved(r) => r \in draftRequests
  BY <1>2 DEF Resolved, Save, Discarded
<1>6. QED
  BY <1>4, <1>5, ThrownKeeps DEF Discarded

\* A message is sent from a window.
Submitted(t) ==
  /\ draftRequests' = draftRequests \cup {Drafts!Request("queue", t, tabs[t])}
  /\ tabs' = [tabs EXCEPT ![t].sending = TRUE]
  /\ UNCHANGED <<drafts, minted, locked, windows, thrown>>

\* A window is sent.
LEMMA SubmitKeeps ==
  ASSUME DraftInv, NEW t \in Windows, Submitted(t)
  PROVE  DraftInv'
<1>1. DraftTypes /\ TextsInOrder /\ tabs[t] \in WindowForm
  BY DEF DraftInv, DraftTypes
<1>2. PICK q : q = Drafts!Request("queue", t, tabs[t])
  OBVIOUS
<1>3. q \in DraftRequestForm /\ q.kind = "queue" /\ q.step = "sent"
  BY <1>1, <1>2, DraftForms
<1>4. PICK x : x = [tabs[t] EXCEPT !.sending = TRUE]
  OBVIOUS
<1>5. /\ x \in WindowForm /\ x.window = tabs[t].window /\ x.text = tabs[t].text /\ x.saving = tabs[t].saving
      /\ x.lastSaved = tabs[t].lastSaved
  BY <1>1, <1>4 DEF WindowForm
<1>6. tabs' = [tabs EXCEPT ![t] = x] /\ draftRequests' = (draftRequests \ {}) \cup {q}
  BY <1>2, <1>4 DEF Submitted
<1>7. DraftTypes'
  BY <1>1, <1>3, <1>5, <1>6 DEF DraftTypes, Submitted
<1>8. ASSUME thrown = {}
      PROVE  WindowStep(t, x, {}, {q})
  <2>1. SendsSave(t, x, {}, {q})
    BY <1>3, <1>5, <1>8, SavesAreAwaited DEF SendsSave, Save
  <2>2. x.window # 0 => x.text = x.lastSaved \/ x.text.window = x.window
    BY <1>1, <1>5, <1>8 DEF TextsInOrder, TextsAreNamed
  <2>3. GoesOn(t, x)
    BY <1>5, <2>2 DEF GoesOn
  <2>4. QED
    BY <1>3, <1>5, <1>6, <2>1, <2>3 DEF WindowStep, Submitted
<1>9. \A r \in draftRequests' : r.step # "sent" => r \in draftRequests
  BY <1>3, <1>6
<1>10. QED
  BY <1>7, <1>8, <1>9, WindowKeeps DEF Submitted

\* The answer to a message: the window is forgotten, or may send again.
LEMMA QueueReturnsKeeps ==
  ASSUME DraftInv, NEW t \in Windows, Drafts!QueueReturns(t)
  PROVE  DraftInv'
<1>1. PICK r \in draftRequests :
        /\ Drafts!Answered("queue", t, r)
        /\ draftRequests' = (draftRequests \ {r}) \cup (IF r.step = "answered" THEN Drafts!Deleting(t) ELSE {})
        /\ tabs' = [tabs EXCEPT ![t] = [(IF r.step = "answered" THEN Drafts!Forgotten(@) ELSE @) EXCEPT !.sending = FALSE]]
        /\ UNCHANGED <<drafts, minted, locked, windows, thrown, losses>>
  BY DEF Drafts!QueueReturns
<1>2. DraftTypes /\ ServerHeld /\ TextsInOrder /\ tabs[t] \in WindowForm
  BY DEF DraftInv, DraftTypes
<1>3. PICK y : y = IF r.step = "answered" THEN Drafts!Forgotten(tabs[t]) ELSE tabs[t]
  OBVIOUS
<1>4. PICK x : x = [y EXCEPT !.sending = FALSE]
  OBVIOUS
<1>5. tabs' = [tabs EXCEPT ![t] = x]
  BY <1>1, <1>3, <1>4
<1>6. y \in WindowForm
  BY <1>2, <1>3, DraftForms
<1>7. /\ x \in WindowForm /\ x.window = y.window /\ x.text = y.text /\ x.saving = y.saving /\ x.lastSaved = y.lastSaved
  BY <1>4, <1>6 DEF WindowForm
<1>8. \A q \in Drafts!Deleting(t) : q.kind = "delete" /\ q.step = "sent" /\ q \in DraftRequestForm
  BY <1>2, DeletionSent
<1>9. DraftTypes'
  BY <1>1, <1>2, <1>5, <1>7, <1>8 DEF DraftTypes
<1>10. CASE r.step = "answered"
  <2>1. thrown # {}
    BY <1>1, <1>2, <1>10 DEF ServerHeld, QueuesThrow, Drafts!Answered
  <2>2. \A q \in draftRequests' : Resolved(q) => q \in draftRequests
    BY <1>1, <1>8 DEF Resolved, Save
  <2>3. QED
    BY <1>1, <1>9, <2>1, <2>2, ThrownKeeps
<1>11. CASE r.step # "answered"
  <2>1. y = tabs[t] /\ draftRequests' = (draftRequests \ {r}) \cup {}
    BY <1>1, <1>3, <1>11
  <2>2. thrown = {} => SendsSave(t, x, {r}, {})
    BY <1>7, <2>1, SavesAreAwaited DEF SendsSave
  <2>3. thrown = {} => (x.window # 0 => x.text = x.lastSaved \/ x.text.window = x.window)
    BY <1>2, <1>7, <2>1 DEF TextsInOrder, TextsAreNamed
  <2>4. thrown = {} => GoesOn(t, x)
    BY <1>7, <2>1, <2>3 DEF GoesOn
  <2>5. thrown = {} => WindowStep(t, x, {r}, {})
    BY <1>1, <1>5, <1>7, <2>1, <2>2, <2>4 DEF WindowStep
  <2>6. \A q \in draftRequests' : q.step # "sent" => q \in draftRequests
    BY <2>1
  <2>7. QED
    BY <1>1, <1>9, <2>5, <2>6, WindowKeeps
<1>12. QED
  BY <1>10, <1>11

\* The answer to a save: the window adopts the row or deletes it, and what was put off is saved.
LEMMA SaveReturnsKeeps ==
  ASSUME DraftInv, NEW t \in Windows, Drafts!SaveReturns(t)
  PROVE  DraftInv'
<1> DEFINE tab == tabs[t]
           Ok(r) == r.step = "answered"
           Adopted(r) == IF Ok(r) /\ ~tab.discarded /\ tab.window = r.window
                           THEN [tab EXCEPT !.draftId = r.id, !.lastSaved = r.text] ELSE tab
           Settled(r) == [Adopted(r) EXCEPT !.saving = FALSE, !.pending = FALSE]
           Deletion(r) == IF Ok(r) /\ tab.discarded THEN {[r EXCEPT !.kind = "delete", !.step = "sent"]} ELSE {}
           Saving(r) == IF tab.pending THEN Drafts!SaveRequest(t, Settled(r)) ELSE {}
<1>1. PICK r \in draftRequests :
        /\ Drafts!Answered("save", t, r)
        /\ tabs' = [tabs EXCEPT ![t] = IF tab.pending THEN Drafts!AfterSave(Settled(r)) ELSE Settled(r)]
        /\ draftRequests' = (draftRequests \ {r}) \cup Deletion(r) \cup Saving(r)
  BY Zenon DEF Drafts!SaveReturns
<1>2. UNCHANGED <<drafts, minted, locked, windows, thrown, losses>>
  BY DEF Drafts!SaveReturns
<1>3. DraftTypes /\ TextsInOrder /\ tab \in WindowForm /\ r \in DraftRequestForm
  BY DEF DraftInv, DraftTypes
<1>4. r.tab = t /\ Save(r) /\ r.text \in TextForm /\ r.id \in Nat
  BY <1>1, <1>3 DEF Drafts!Answered, Save, DraftRequestForm
<1>5. PICK a : a = Adopted(r)
  OBVIOUS
<1>6. /\ a \in WindowForm /\ a.window = tab.window /\ a.text = tab.text
      /\ a.lastSaved = tab.lastSaved \/ (a.lastSaved = r.text /\ tab.window = r.window)
  <2>1. CASE Ok(r) /\ ~tab.discarded /\ tab.window = r.window
    <3>1. a = [tab EXCEPT !.draftId = r.id, !.lastSaved = r.text]
      BY <1>5, <2>1
    <3>2. QED
      BY <1>3, <1>4, <2>1, <3>1 DEF WindowForm
  <2>2. CASE ~(Ok(r) /\ ~tab.discarded /\ tab.window = r.window)
    BY <1>3, <1>5, <2>2
  <2>3. QED
    BY <2>1, <2>2
<1>7. PICK s : s = [a EXCEPT !.saving = FALSE, !.pending = FALSE]
  OBVIOUS
<1>8. s = Settled(r)
  BY <1>5, <1>7
<1>9. s \in WindowForm /\ s.window = tab.window /\ s.text = tab.text /\ s.lastSaved = a.lastSaved
  BY <1>6, <1>7 DEF WindowForm
<1>10. PICK x : x = IF tab.pending THEN Drafts!AfterSave(s) ELSE s
  OBVIOUS
<1>11. x \in WindowForm /\ x.window = tab.window /\ x.text = tab.text /\ x.lastSaved = a.lastSaved
  BY <1>9, <1>10, DraftForms
<1>12. tabs' = [tabs EXCEPT ![t] = x]
  BY <1>1, <1>8, <1>10
<1>13. PICK new : new = Deletion(r) \cup Saving(r)
  OBVIOUS
<1>14. draftRequests' = (draftRequests \ {r}) \cup new
  BY <1>1, <1>13
<1>15. ASSUME NEW q \in new
       PROVE  /\ q \in DraftRequestForm /\ q.step = "sent"
              /\ Save(q) => /\ q = Drafts!Request("save", t, s) /\ q.tab = t /\ q.window = tab.window /\ q.text = tab.text
                            /\ tab.window # 0 /\ tab.text # a.lastSaved /\ x.saving
  <2>1. CASE q \in Deletion(r)
    <3>1. q = [r EXCEPT !.kind = "delete", !.step = "sent"]
      BY <2>1
    <3>2. q \in DraftRequestForm /\ q.kind = "delete" /\ q.step = "sent"
      BY <1>3, <3>1 DEF DraftRequestForm
    <3>3. QED
      BY <3>2 DEF Save
  <2>2. CASE q \in Saving(r)
    <3>1. tab.pending /\ q \in Drafts!SaveRequest(t, s)
      BY <1>8, <2>2
    <3>2. x = Drafts!AfterSave(s)
      BY <1>10, <3>1
    <3>3. QED
      BY <1>9, <3>1, <3>2, SaveSent
  <2>3. QED
    BY <1>13, <2>1, <2>2
<1>16. DraftTypes'
  <2>1. tabs' \in [Windows -> WindowForm]
    BY <1>3, <1>11, <1>12 DEF DraftTypes
  <2>2. draftRequests' \subseteq DraftRequestForm
    BY <1>3, <1>14, <1>15 DEF DraftTypes
  <2>3. QED
    BY <1>2, <1>3, <2>1, <2>2 DEF DraftTypes
<1>17. ASSUME thrown = {}
       PROVE  WindowStep(t, x, {r}, new)
  <2>1. TextsAreNamed /\ OneSaveAtATime /\ LaterIsAhead
    BY <1>3, <1>17 DEF TextsInOrder
  <2>2. tab.window # 0 => tab.text = a.lastSaved \/ tab.text.window = tab.window
    <3>1. tab.window # 0 => tab.text = tab.lastSaved \/ tab.text.window = tab.window
      BY <2>1 DEF TextsAreNamed
    <3>2. tab.window = r.window /\ tab.window # 0 => tab.text.window = tab.window
      BY <1>4, <2>1 DEF LaterIsAhead, Shows
    <3>3. QED
      BY <1>6, <3>1, <3>2
  <2>3. \A q \in draftRequests \ {r} : Save(q) => q.tab # t
    BY <1>4, <2>1 DEF OneSaveAtATime
  <2>4. SendsSave(t, x, {r}, new)
    BY <1>11, <1>15, <2>2, <2>3 DEF SendsSave
  <2>5. GoesOn(t, x)
    BY <1>11, <2>2 DEF GoesOn
  <2>6. QED
    BY <1>2, <1>11, <1>12, <1>14, <1>15, <2>4, <2>5 DEF WindowStep
<1>18. \A q \in draftRequests' : q.step # "sent" => q \in draftRequests
  BY <1>14, <1>15
<1>19. QED
  BY <1>2, <1>16, <1>17, <1>18, WindowKeeps

\* A tab ends; what it sent is nobody's.
Orphan(r, t) == IF r.tab = t THEN [r EXCEPT !.tab = Nobody] ELSE r
Died(t) ==
  /\ tabs' = [tabs EXCEPT ![t] = Drafts!Closed]
  /\ draftRequests' = {Orphan(r, t) : r \in {q \in draftRequests : q.tab # t \/ q.step \in {"sent", "resolved"}}}
  /\ UNCHANGED <<drafts, minted, locked, windows, thrown>>

\* A tab dies.
LEMMA DieKeeps ==
  ASSUME DraftInv, NEW t \in Windows, Died(t)
  PROVE  DraftInv'
<1>1. DraftTypes /\ ServerHeld /\ TextsInOrder /\ Nobody \notin Windows
  BY MailboxAssumption DEF DraftInv, Drafts!DraftsAssumption
<1>2. ASSUME NEW r \in draftRequests
      PROVE  /\ Orphan(r, t) \in DraftRequestForm /\ Orphan(r, t).kind = r.kind /\ Orphan(r, t).step = r.step
             /\ Orphan(r, t).window = r.window /\ Orphan(r, t).text = r.text /\ Orphan(r, t).id = r.id
             /\ Orphan(r, t).conversation = r.conversation
             /\ r.tab # t => Orphan(r, t) = r
             /\ r.tab = t => Orphan(r, t).tab = Nobody
  <2>1. r \in DraftRequestForm
    BY <1>1 DEF DraftTypes
  <2>2. CASE r.tab # t
    BY <2>1, <2>2 DEF Orphan
  <2>3. CASE r.tab = t
    <3>1. Orphan(r, t) = [r EXCEPT !.tab = Nobody]
      BY <2>3 DEF Orphan
    <3>2. QED
      BY <2>1, <2>3, <3>1 DEF DraftRequestForm
  <2>4. QED
    BY <2>2, <2>3
<1>3. \A s \in draftRequests' : \E r \in draftRequests : s = Orphan(r, t)
  BY DEF Died
<1>4. /\ tabs'[t] = Drafts!Closed /\ Drafts!Closed \in WindowForm /\ Drafts!Closed.window = 0
      /\ \A u \in Windows : u # t => tabs'[u] = tabs[u]
  <2>1. tabs \in [Windows -> WindowForm] /\ tabs' = [tabs EXCEPT ![t] = Drafts!Closed]
    BY <1>1 DEF Died, DraftTypes
  <2>2. tabs'[t] = Drafts!Closed /\ \A u \in Windows : u # t => tabs'[u] = tabs[u]
    BY <2>1
  <2>3. Drafts!Closed \in WindowForm
    BY DraftForms
  <2>4. Drafts!Closed.window = 0
    BY DEF Drafts!Closed
  <2>5. QED
    BY <2>2, <2>3, <2>4
<1>5. DraftTypes'
  <2>1. tabs' \in [Windows -> WindowForm]
    BY <1>1, <1>4 DEF Died, DraftTypes
  <2>2. draftRequests' \subseteq DraftRequestForm
    BY <1>2, <1>3
  <2>3. QED
    BY <1>1, <2>1, <2>2 DEF Died, DraftTypes
<1>6. ServerHeld'
  <2>1. OneIsResolved'
    <3>1. \A s \in draftRequests' : Resolved(s) => locked'
      BY <1>1, <1>2, <1>3 DEF ServerHeld, OneIsResolved, Resolved, Save, Died
    <3>2. \A r, s \in draftRequests' : Resolved(r) /\ Resolved(s) => r = s
      BY <1>1, <1>2, <1>3 DEF ServerHeld, OneIsResolved, Resolved, Save
    <3>3. QED
      BY <3>1, <3>2 DEF OneIsResolved
  <2>2. RowOfConversation'
    <3>1. ASSUME NEW s \in draftRequests', Resolved(s)
          PROVE  ~Drafts!Refused(s)'
      <4>1. PICK r \in draftRequests : s = Orphan(r, t)
        BY <1>3
      <4>2. Resolved(r) /\ s.id = r.id /\ s.conversation = r.conversation
        BY <1>2, <3>1, <4>1 DEF Resolved, Save
      <4>3. ~Drafts!Refused(r)
        BY <1>1, <4>2 DEF ServerHeld, RowOfConversation
      <4>4. QED
        BY <4>2, <4>3 DEF Died, Drafts!Refused, Drafts!OfConversation
    <3>2. QED
      BY <1>1, <3>1 DEF ServerHeld, RowOfConversation, Died
  <2>3. QueuesThrow'
    BY <1>1, <1>2, <1>3 DEF ServerHeld, QueuesThrow, Died
  <2>4. QED
    BY <2>1, <2>2, <2>3 DEF ServerHeld
<1>7. ASSUME thrown = {}
      PROVE  TextsAreNamed' /\ OneSaveAtATime' /\ LaterIsAhead'
  <2>1. TextsAreNamed /\ OneSaveAtATime /\ LaterIsAhead /\ UNCHANGED <<drafts, windows>> /\ windows \in Nat
    BY <1>1, <1>7 DEF TextsInOrder, Died, DraftTypes
  <2>2. TextsAreNamed'
    <3>1. \A s \in draftRequests' : Save(s) => /\ s.text.window = s.window /\ s.window <= windows'
                                               /\ s.window = 0 => s.text.n = 0
      BY <1>2, <1>3, <2>1 DEF TextsAreNamed, Save
    <3>2. \A u \in Windows : tabs'[u].window # 0 => u # t /\ tabs'[u] = tabs[u]
      BY <1>4
    <3>3. \A u \in Windows : tabs'[u].window <= windows'
      BY <1>4, <2>1 DEF TextsAreNamed
    <3>4. /\ \A u \in Windows : tabs'[u].window # 0 =>
                                  tabs'[u].text = tabs'[u].lastSaved \/ tabs'[u].text.window = tabs'[u].window
          /\ \A v, u \in Windows : tabs'[v].window = tabs'[u].window /\ tabs'[v].window # 0 => v = u
      BY <2>1, <3>2 DEF TextsAreNamed
    <3>5. QED
      BY <2>1, <3>1, <3>3, <3>4 DEF TextsAreNamed
  <2>3. \A s \in draftRequests' : s.tab \in Windows => s \in draftRequests /\ s.tab # t
    BY <1>1, <1>2, <1>3
  <2>4. OneSaveAtATime'
    <3>1. \A s \in draftRequests' : Save(s) /\ s.tab \in Windows => tabs'[s.tab].saving
      BY <1>4, <2>1, <2>3 DEF OneSaveAtATime
    <3>2. \A r, s \in draftRequests' : Save(r) /\ Save(s) /\ r.tab = s.tab /\ r.tab \in Windows => r = s
      BY <2>1, <2>3 DEF OneSaveAtATime
    <3>3. \A r, s \in draftRequests' : InFlight(r) /\ InFlight(s) /\ r.window = s.window /\ r.window # 0 => r = s
      BY <1>2, <1>3, <2>1 DEF OneSaveAtATime, InFlight, Save
    <3>4. QED
      BY <3>1, <3>2, <3>3 DEF OneSaveAtATime
  <2>5. LaterIsAhead'
    <3>1. ASSUME NEW s \in draftRequests', NEW u \in Windows, Save(s)
          PROVE  Shows(u, s.window, s.text.n)' /\ (tabs'[u].window = s.window /\ s.window # 0 => s.tab = u)
      <4>1. PICK r \in draftRequests : s = Orphan(r, t)
        BY <1>3
      <4>2. Save(r) /\ s.window = r.window /\ s.text = r.text
        BY <1>2, <3>1, <4>1 DEF Save
      <4>3. CASE u = t
        BY <1>4, <4>3 DEF Shows
      <4>4. CASE u # t
        <5>1. Shows(u, r.window, r.text.n) /\ (tabs[u].window = r.window /\ r.window # 0 => r.tab = u)
          BY <2>1, <4>2 DEF LaterIsAhead
        <5>2. tabs'[u] = tabs[u] /\ (r.tab = u => s = r)
          BY <1>2, <1>4, <4>1, <4>4
        <5>3. QED
          BY <4>2, <5>1, <5>2 DEF Shows
      <4>5. QED
        BY <4>3, <4>4
    <3>2. \A i \in 1..MaxDrafts, u \in Windows : Shows(u, drafts[i].text.window, drafts[i].text.n)'
      BY <1>4, <2>1 DEF LaterIsAhead, Shows
    <3>3. \A i \in 1..MaxDrafts, s \in draftRequests' :
            InFlight(s) /\ drafts'[i].text.window = s.window => drafts'[i].text.n <= s.text.n
      BY <1>2, <1>3, <2>1 DEF LaterIsAhead, InFlight, Save
    <3>4. QED
      BY <3>1, <3>2, <3>3 DEF LaterIsAhead
  <2>6. QED
    BY <2>2, <2>4, <2>5
<1>8. QED
  BY <1>5, <1>6, <1>7 DEF DraftInv, TextsInOrder, Died

\* A step of a request: DraftInv holds again.
LEMMA RequestKeeps ==
  ASSUME DraftInv, DraftTypes', ServerHeld', thrown \subseteq thrown', NEW r, NEW s,
         thrown = {} => RequestStep(r, s)
  PROVE  DraftInv'
<1>1. thrown = {} => TextsAreNamed' /\ OneSaveAtATime' /\ LaterIsAhead'
  BY DraftRequestGoes, Zenon DEF DraftInv
<1>2. QED
  BY <1>1 DEF DraftInv, TextsInOrder

\* A request comes to another step.
LEMMA StepOfRequest ==
  ASSUME NEW r \in DraftRequestForm, NEW v \in {"sent", "resolved", "answered", "failed"}
  PROVE  /\ [r EXCEPT !.step = v] \in DraftRequestForm /\ [r EXCEPT !.step = v].step = v
         /\ [r EXCEPT !.step = v].kind = r.kind /\ [r EXCEPT !.step = v].tab = r.tab
         /\ [r EXCEPT !.step = v].window = r.window /\ [r EXCEPT !.step = v].text = r.text
         /\ [r EXCEPT !.step = v].id = r.id /\ [r EXCEPT !.step = v].conversation = r.conversation
BY DEF DraftRequestForm

\* A request or an answer is lost.
Lost ==
  \E r \in draftRequests :
    /\ draftRequests' = (draftRequests \ {r})
         \cup (IF r.kind = "delete" \/ r.tab = Nobody THEN {} ELSE {[r EXCEPT !.step = "failed"]})
    /\ UNCHANGED <<drafts, minted, locked, tabs, windows, thrown>>

\* A request is lost.
LEMMA LoseKeeps ==
  ASSUME DraftInv, Lost
  PROVE  DraftInv'
<1>1. PICK r \in draftRequests :
        draftRequests' = (draftRequests \ {r})
          \cup (IF r.kind = "delete" \/ r.tab = Nobody THEN {} ELSE {[r EXCEPT !.step = "failed"]})
  BY DEF Lost
<1>2. UNCHANGED <<drafts, minted, locked, tabs, windows, thrown>>
  BY DEF Lost
<1>3. DraftTypes /\ r \in DraftRequestForm /\ ServerHeld
  BY DEF DraftInv, DraftTypes
<1>4. PICK s : s = [r EXCEPT !.step = "failed"]
  OBVIOUS
<1>5. /\ s \in DraftRequestForm /\ s.step = "failed" /\ s.kind = r.kind /\ s.tab = r.tab /\ s.window = r.window
      /\ s.text = r.text
  BY <1>3, <1>4, StepOfRequest
<1>6. draftRequests' \subseteq (draftRequests \ {r}) \cup {s}
  BY <1>1, <1>4
<1>7. DraftTypes'
  BY <1>2, <1>3, <1>5, <1>6 DEF DraftTypes
<1>8. ServerHeld'
  <2>1. \A q \in draftRequests' : Resolved(q) => q \in draftRequests
    BY <1>5, <1>6 DEF Resolved
  <2>2. \A q \in draftRequests' : q.kind = "queue" /\ q.step \in {"resolved", "answered"} => thrown' # {}
    BY <1>2, <1>3, <1>5, <1>6 DEF ServerHeld, QueuesThrow
  <2>3. QED
    BY <1>2, <1>3, <1>7, <2>1, <2>2, ServerKeeps
<1>9. RequestStep(r, s)
  BY <1>2, <1>5, <1>6 DEF RequestStep, Save, InFlight
<1>10. QED
  BY <1>2, <1>7, <1>8, <1>9, RequestKeeps

\* Another handler of the server saves an empty draft, or deletes one.
Joined ==
  \E s \in DraftRequestForm :
    /\ draftRequests' = draftRequests \cup {s} /\ s.step = "sent"
    /\ s.kind = "delete" \/ (s.tab = Nobody /\ s.window = 0 /\ s.text = [window |-> 0, n |-> 0])
    /\ UNCHANGED <<drafts, minted, locked, tabs, windows, thrown>>

\* A request comes that no window waits for.
LEMMA JoinKeeps ==
  ASSUME DraftInv, Joined
  PROVE  DraftInv'
<1>1. PICK s \in DraftRequestForm :
        /\ draftRequests' = draftRequests \cup {s} /\ s.step = "sent"
        /\ s.kind = "delete" \/ (s.tab = Nobody /\ s.window = 0 /\ s.text = [window |-> 0, n |-> 0])
        /\ UNCHANGED <<drafts, minted, locked, tabs, windows, thrown>>
  BY DEF Joined
<1>2. DraftTypes /\ ServerHeld
  BY DEF DraftInv
<1>3. DraftTypes'
  BY <1>1, <1>2 DEF DraftTypes
<1>4. ServerHeld'
  <2>1. \A q \in draftRequests' : Resolved(q) => q \in draftRequests
    BY <1>1 DEF Resolved
  <2>2. \A q \in draftRequests' : q.kind = "queue" /\ q.step \in {"resolved", "answered"} => thrown' # {}
    BY <1>1, <1>2 DEF ServerHeld, QueuesThrow
  <2>3. QED
    BY <1>1, <1>2, <1>3, <2>1, <2>2, ServerKeeps
<1>5. PICK r : r \notin draftRequests
  <2>1. [kind |-> "none"] \notin draftRequests
    BY <1>2 DEF DraftTypes, DraftRequestForm
  <2>2. QED
    BY <2>1
<1>6. RequestStep(r, s)
  BY <1>1, <1>5 DEF RequestStep, Save
<1>7. QED
  BY <1>1, <1>3, <1>4, <1>6, RequestKeeps

\* A save finds its row, under the lock.
LEMMA ResolveKeeps ==
  ASSUME DraftInv, Drafts!Resolve
  PROVE  DraftInv'
<1>1. PICK r \in draftRequests, id \in Drafts!DraftIds :
        /\ r.kind = "save" /\ r.step = "sent" /\ Drafts!MayLock /\ locked' = TRUE
        /\ Drafts!OfConversation(r.conversation) # {} => id \in Drafts!OfConversation(r.conversation)
        /\ minted' = minted \/ minted' = id
        /\ Drafts!Goto(r, [r EXCEPT !.id = id, !.step = "resolved"])
        /\ UNCHANGED <<drafts, tabs, windows, thrown, losses>>
  BY Zenon DEF Drafts!Resolve
<1>2. DraftTypes /\ ServerHeld /\ r \in DraftRequestForm /\ id \in 1..MaxDrafts
  BY <1>1 DEF DraftInv, DraftTypes, Drafts!DraftIds
<1>3. PICK s : s = [r EXCEPT !.id = id, !.step = "resolved"]
  OBVIOUS
<1>4. /\ s \in DraftRequestForm /\ s.step = "resolved" /\ s.kind = "save" /\ s.tab = r.tab /\ s.window = r.window
      /\ s.text = r.text /\ s.id = id /\ s.conversation = r.conversation
  <2>1. PICK p : p = [r EXCEPT !.id = id]
    OBVIOUS
  <2>2. /\ p \in DraftRequestForm /\ p.kind = r.kind /\ p.tab = r.tab /\ p.window = r.window
        /\ p.text = r.text /\ p.id = id /\ p.conversation = r.conversation
    BY <1>2, <2>1 DEF DraftRequestForm
  <2>3. s = [p EXCEPT !.step = "resolved"]
    BY <1>3, <2>1
  <2>4. QED
    BY <1>1, <2>2, <2>3, StepOfRequest
<1>5. draftRequests' = (draftRequests \ {r}) \cup {s}
  BY <1>1, <1>3 DEF Drafts!Goto
<1>6. DraftTypes'
  BY <1>1, <1>2, <1>4, <1>5 DEF DraftTypes
<1>7. \A q \in draftRequests' : Resolved(q) => q = s
  BY <1>1, <1>2, <1>5 DEF ServerHeld, OneIsResolved, Drafts!MayLock
<1>8. OneIsResolved'
  BY <1>1, <1>7 DEF OneIsResolved
<1>9. ~Drafts!Refused(s)
  <2>1. s.conversation # "none"
    BY <1>4, MailboxAssumption DEF Drafts!DraftsAssumption, DraftRequestForm
  <2>2. ASSUME NEW i \in Drafts!OfConversation(s.conversation)
        PROVE  i = id
    <3>1. id \in Drafts!OfConversation(s.conversation)
      BY <1>1, <1>4, <2>2
    <3>2. /\ i \in 1..MaxDrafts /\ drafts[i].conversation = s.conversation /\ s.conversation # ""
          /\ drafts[id].conversation = s.conversation
      BY <2>2, <3>1 DEF Drafts!OfConversation, Drafts!DraftIds
    <3>3. QED
      BY <1>2, <2>1, <3>2 DEF ServerHeld, RowOfConversation
  <2>3. QED
    BY <1>4, <2>2 DEF Drafts!Refused
<1>10. RowOfConversation'
  <2>1. \A q \in draftRequests' : Resolved(q) => ~Drafts!Refused(q)'
    BY <1>1, <1>7, <1>9 DEF Drafts!Refused, Drafts!OfConversation
  <2>2. QED
    BY <1>1, <1>2, <2>1 DEF ServerHeld, RowOfConversation
<1>11. QueuesThrow'
  BY <1>1, <1>2, <1>4, <1>5 DEF ServerHeld, QueuesThrow
<1>12. ServerHeld'
  BY <1>8, <1>10, <1>11 DEF ServerHeld
<1>13. RequestStep(r, s)
  BY <1>1, <1>4, <1>5 DEF RequestStep, Save, InFlight
<1>14. QED
  BY <1>1, <1>6, <1>12, <1>13, RequestKeeps

\* What an answered request becomes: nobody's is done.
LEMMA RepliesAre ==
  ASSUME NEW r \in DraftRequestForm, NEW v \in {"answered", "failed"}, Drafts!Reply(r, v)
  PROVE  draftRequests' \subseteq (draftRequests \ {r}) \cup {[r EXCEPT !.step = v]}
BY DEF Drafts!Reply, Drafts!Done, Drafts!Goto

\* The save of a draft is written over the row it was resolved to.
LEMMA UpsertKeeps ==
  ASSUME DraftInv, Drafts!Upsert
  PROVE  DraftInv'
<1>1. PICK r \in draftRequests :
        /\ r.kind = "save" /\ r.step = "resolved" /\ locked' = FALSE
        /\ IF Drafts!Refused(r) THEN UNCHANGED drafts
           ELSE drafts' = [drafts EXCEPT ![r.id] = [conversation |-> r.conversation, text |-> r.text]]
        /\ Drafts!Reply(r, IF Drafts!Refused(r) THEN "failed" ELSE "answered")
        /\ UNCHANGED <<minted, tabs, windows, thrown, losses>>
  BY Zenon DEF Drafts!Upsert
<1>2. DraftTypes /\ ServerHeld /\ TextsInOrder /\ r \in DraftRequestForm /\ r.conversation \in Peers /\ r.text \in TextForm
      /\ r.conversation # "none"
  BY MailboxAssumption DEF DraftInv, DraftTypes, DraftRequestForm, Drafts!DraftsAssumption
<1>3. Resolved(r) /\ Save(r) /\ InFlight(r) /\ ~Drafts!Refused(r)
  BY <1>1, <1>2 DEF Resolved, Save, InFlight, ServerHeld, RowOfConversation
<1>4. PICK s : s = [r EXCEPT !.step = "answered"]
  OBVIOUS
<1>5. /\ s \in DraftRequestForm /\ s.step = "answered" /\ s.kind = "save" /\ s.tab = r.tab /\ s.window = r.window
      /\ s.text = r.text
  BY <1>1, <1>2, <1>4, StepOfRequest
<1>6. draftRequests' \subseteq (draftRequests \ {r}) \cup {s}
  BY <1>1, <1>2, <1>3, <1>4, RepliesAre
<1>7. PICK row : row = [conversation |-> r.conversation, text |-> r.text]
  OBVIOUS
<1>8. row \in RowForm /\ row.conversation = r.conversation /\ row.text = r.text
  BY <1>2, <1>7 DEF RowForm
<1>9. drafts' = [drafts EXCEPT ![r.id] = row]
  BY <1>1, <1>3, <1>7
<1>10. DraftTypes'
  BY <1>1, <1>2, <1>5, <1>6, <1>8, <1>9 DEF DraftTypes
<1>11. \A q \in draftRequests' : ~Resolved(q)
  BY <1>2, <1>3, <1>5, <1>6 DEF ServerHeld, OneIsResolved, Resolved
<1>12. \A i \in 1..MaxDrafts : drafts'[i] = IF i = r.id THEN row ELSE drafts[i]
  BY <1>2, <1>9 DEF DraftTypes
<1>13. ServerHeld'
  <2>1. OneIsResolved'
    BY <1>11 DEF OneIsResolved
  <2>2. \A i \in 1..MaxDrafts : drafts[i].conversation = r.conversation /\ r.conversation # "" => i = r.id
    BY <1>3 DEF Drafts!Refused, Drafts!OfConversation, Drafts!DraftIds
  <2>3. \A i, j \in 1..MaxDrafts :
          drafts'[i].conversation = drafts'[j].conversation /\ drafts'[i].conversation \notin {"", "none"} => i = j
    BY <1>2, <1>8, <1>12, <2>2 DEF ServerHeld, RowOfConversation
  <2>4. RowOfConversation'
    BY <1>11, <2>3 DEF RowOfConversation
  <2>5. QueuesThrow'
    BY <1>1, <1>2, <1>5, <1>6 DEF ServerHeld, QueuesThrow
  <2>6. QED
    BY <2>1, <2>4, <2>5 DEF ServerHeld
<1>14. RequestStep(r, s)
  <2>1. \A i \in 1..MaxDrafts : drafts'[i].text = drafts[i].text \/ drafts'[i].text = r.text
    BY <1>8, <1>12
  <2>2. ~InFlight(s) /\ Save(s)
    BY <1>5 DEF InFlight, Save
  <2>3. QED
    BY <1>1, <1>3, <1>5, <1>6, <2>1, <2>2 DEF RequestStep
<1>15. QED
  BY <1>1, <1>10, <1>13, <1>14, RequestKeeps

\* Rows are deleted, and the request that asked for it goes on.
LEMMA RowsGo ==
  ASSUME DraftInv, NEW r \in draftRequests, NEW v \in {"answered", "resolved"},
         r.kind = "delete" \/ (r.kind = "queue" /\ (r.step = "resolved" \/ thrown' # {})),
         drafts' \in [1..MaxDrafts -> RowForm],
         \A i \in 1..MaxDrafts : drafts'[i] = drafts[i] \/ drafts'[i] = Drafts!NoDraft,
         draftRequests' \subseteq (draftRequests \ {r}) \cup {[r EXCEPT !.step = v]},
         thrown \subseteq thrown', UNCHANGED <<minted, locked, tabs, windows>>,
         r.kind = "delete" => draftRequests' \subseteq draftRequests
  PROVE  DraftInv'
<1>1. DraftTypes /\ ServerHeld /\ r \in DraftRequestForm
  BY DEF DraftInv, DraftTypes
<1>2. PICK s : s = [r EXCEPT !.step = v]
  OBVIOUS
<1>3. s \in DraftRequestForm /\ s.kind = r.kind /\ ~Save(s)
  <2>1. v \in {"sent", "resolved", "answered", "failed"} /\ r.kind # "save"
    OBVIOUS
  <2>2. s \in DraftRequestForm /\ s.kind = r.kind
    BY <1>1, <1>2, <2>1, StepOfRequest
  <2>3. QED
    BY <2>1, <2>2 DEF Save
<1>4. draftRequests' \subseteq (draftRequests \ {r}) \cup {s}
  BY <1>2
<1>5. DraftTypes'
  BY <1>1, <1>3, <1>4 DEF DraftTypes
<1>6. \A q \in draftRequests' : q.kind = "queue" /\ q.step \in {"resolved", "answered"} => thrown' # {}
  BY <1>1, <1>3, <1>4 DEF ServerHeld, QueuesThrow
<1>7. \A q \in draftRequests' : Resolved(q) => q \in draftRequests
  BY <1>3, <1>4 DEF Resolved
<1>8. ServerHeld'
  BY <1>1, <1>5, <1>6, <1>7, ServerKeeps
<1>9. \A i \in 1..MaxDrafts : drafts'[i].text \in {drafts[i].text, [window |-> 0, n |-> 0]}
  BY DraftForms
<1>10. RequestStep(r, s)
  BY <1>3, <1>4, <1>9 DEF RequestStep
<1>11. QED
  BY <1>5, <1>8, <1>10, RequestKeeps

\* A draft is deleted.
LEMMA DeleteKeeps ==
  ASSUME DraftInv, Drafts!DeleteDraft
  PROVE  DraftInv'
<1>1. PICK r \in draftRequests :
        /\ r.kind = "delete" /\ Drafts!Done(r) /\ drafts' = [drafts EXCEPT ![r.id] = Drafts!NoDraft]
        /\ UNCHANGED <<minted, locked, tabs, windows, thrown>>
  BY DEF Drafts!DeleteDraft
<1>2. draftRequests' = draftRequests \ {r}
  BY <1>1 DEF Drafts!Done
<1>3. drafts \in [1..MaxDrafts -> RowForm] /\ Drafts!NoDraft \in RowForm
  BY DraftForms DEF DraftInv, DraftTypes
<1>4. /\ drafts' \in [1..MaxDrafts -> RowForm]
      /\ \A i \in 1..MaxDrafts : drafts'[i] = drafts[i] \/ drafts'[i] = Drafts!NoDraft
  BY <1>1, <1>3
<1>5. draftRequests' \subseteq (draftRequests \ {r}) \cup {[r EXCEPT !.step = "answered"]}
  BY <1>2
<1>6. QED
  BY <1>1, <1>2, <1>4, <1>5, RowsGo

\* A message is queued.
LEMMA QueueKeeps ==
  ASSUME DraftInv, Drafts!Queue
  PROVE  DraftInv'
<1>1. PICK r \in draftRequests :
        /\ r.kind = "queue" /\ Drafts!Goto(r, [r EXCEPT !.step = "resolved"])
        /\ thrown' = thrown \cup {r.window} /\ UNCHANGED <<drafts, minted, locked, tabs, windows>>
  BY DEF Drafts!Queue
<1>2. draftRequests' \subseteq (draftRequests \ {r}) \cup {[r EXCEPT !.step = "resolved"]}
  BY <1>1 DEF Drafts!Goto
<1>3. drafts' \in [1..MaxDrafts -> RowForm]
  BY <1>1 DEF DraftInv, DraftTypes
<1>4. QED
  BY <1>1, <1>2, <1>3, RowsGo

\* The drafts of a conversation go with the message.
LEMMA DeleteOfConversationKeeps ==
  ASSUME DraftInv, Drafts!DeleteDraftsForConversation
  PROVE  DraftInv'
<1>1. PICK r \in draftRequests :
        /\ r.kind = "queue" /\ r.step = "resolved" /\ Drafts!Reply(r, "answered")
        /\ drafts' = [id \in Drafts!DraftIds |-> IF id \in Drafts!OfConversation(r.conversation) THEN Drafts!NoDraft ELSE drafts[id]]
        /\ UNCHANGED <<minted, locked, tabs, windows, thrown>>
  BY DEF Drafts!DeleteDraftsForConversation
<1>2. /\ drafts \in [1..MaxDrafts -> RowForm] /\ Drafts!NoDraft \in RowForm /\ Drafts!DraftIds = 1..MaxDrafts
      /\ r \in DraftRequestForm
  BY DraftForms DEF DraftInv, DraftTypes, Drafts!DraftIds
<1>3. /\ drafts' \in [1..MaxDrafts -> RowForm]
      /\ \A i \in 1..MaxDrafts : drafts'[i] = drafts[i] \/ drafts'[i] = Drafts!NoDraft
  BY <1>1, <1>2
<1>4. draftRequests' \subseteq (draftRequests \ {r}) \cup {[r EXCEPT !.step = "answered"]}
  BY <1>1, <1>2, RepliesAre
<1>5. QED
  BY <1>1, <1>3, <1>4, RowsGo

\* Nothing is saved at first.
LEMMA DraftsBegin ==
  ASSUME Drafts!Init
  PROVE  DraftInv
<1>1. /\ drafts = [id \in Drafts!DraftIds |-> Drafts!NoDraft] /\ minted = 0 /\ draftRequests = {} /\ locked = FALSE
      /\ tabs = [t \in Windows |-> Drafts!Closed] /\ windows = 0 /\ thrown = {}
  BY DEF Drafts!Init
<1>2. DraftTypes
  BY <1>1, DraftForms DEF DraftTypes, Drafts!DraftIds
<1>3. ServerHeld
  BY <1>1, DraftForms DEF ServerHeld, OneIsResolved, RowOfConversation, QueuesThrow, Drafts!DraftIds
<1>4. /\ \A t \in Windows : tabs[t].window = 0
      /\ \A i \in 1..MaxDrafts : drafts[i].text.window = 0 /\ drafts[i].text.n = 0
  <2>1. Drafts!Closed.window = 0
    BY DEF Drafts!Closed
  <2>2. \A i \in 1..MaxDrafts : drafts[i] = Drafts!NoDraft
    BY <1>1 DEF Drafts!DraftIds
  <2>3. Drafts!NoDraft.text.window = 0 /\ Drafts!NoDraft.text.n = 0
    BY DEF Drafts!NoDraft
  <2>4. QED
    BY <1>1, <2>1, <2>2, <2>3
<1>5. TextsAreNamed /\ OneSaveAtATime /\ LaterIsAhead
  BY <1>1, <1>4 DEF TextsAreNamed, OneSaveAtATime, LaterIsAhead, Shows
<1>6. QED
  BY <1>2, <1>3, <1>5 DEF DraftInv, TextsInOrder

\* Draft ids are numbers.
LEMMA IdsAreNumbers ==
  \A c : \A i \in Drafts!OfConversation(c) : i \in Nat
<1>1. \A i \in 1..MaxDrafts : i \in Nat
  OBVIOUS
<1>2. \A c : \A i \in Drafts!OfConversation(c) : i \in 1..MaxDrafts
  BY Zenon DEF Drafts!OfConversation, Drafts!DraftIds
<1>3. QED
  BY <1>1, <1>2, Zenon

\* The steps with a bound, whichever of the two instances works.
LEMMA BoundedMoves ==
  ASSUME DraftInv
  PROVE  /\ \A t \in Windows : Drafts!Type(t) \/ Typing!Type(t) => Typed(t)
         /\ \A t \in Windows : Drafts!Discard(t) \/ Typing!Discard(t) => Discarded(t)
         /\ \A t \in Windows : Drafts!Submit(t) \/ Typing!Submit(t) => Submitted(t)
         /\ \A t \in Windows : Drafts!Die(t) \/ Typing!Die(t) => Died(t)
         /\ Drafts!Lose \/ Typing!Lose => Lost
         /\ Drafts!StartConversation \/ Typing!StartConversation => Joined
         /\ Drafts!PurgeConversation \/ Typing!PurgeConversation => Joined
<1>1. DraftTypes
  BY DEF DraftInv
<1>2. ASSUME NEW t \in Windows, Drafts!Type(t) \/ Typing!Type(t)
      PROVE  Typed(t)
  <2>1. PICK n : /\ n = IF tabs[t].text.window = tabs[t].window THEN tabs[t].text.n + 1 ELSE 1
                 /\ tabs' = [tabs EXCEPT ![t].text = [window |-> tabs[t].window, n |-> n]]
    BY <1>2 DEF Drafts!Type, Typing!Type
  <2>2. n \in Nat
    BY <1>1, <2>1 DEF DraftTypes, WindowForm, TextForm
  <2>3. tabs[t].window # 0 /\ UNCHANGED <<drafts, minted, draftRequests, locked, windows, thrown, losses>>
    BY <1>2 DEF Drafts!Type, Typing!Type
  <2>4. QED
    BY <2>1, <2>2, <2>3 DEF Typed
<1>3. \A t \in Windows : Drafts!Discard(t) \/ Typing!Discard(t) => Discarded(t)
  BY SameDrafts DEF Drafts!Discard, Typing!Discard, Discarded
<1>4. \A t \in Windows : Drafts!Submit(t) \/ Typing!Submit(t) => Submitted(t)
  BY SameDrafts DEF Drafts!Submit, Typing!Submit, Submitted
<1>5. \A t \in Windows : Drafts!Die(t) \/ Typing!Die(t) => Died(t)
  BY SameDrafts DEF Drafts!Die, Typing!Die, Died, Orphan
<1>6. Drafts!Lose \/ Typing!Lose => Lost
  BY DEF Drafts!Lose, Typing!Lose, Lost
<1>7. ASSUME Drafts!StartConversation \/ Typing!StartConversation
      PROVE  Joined
  <2>1. PICK c \in Peers \ {""} :
          draftRequests' = draftRequests \cup {[Drafts!Request("save", Nobody, Drafts!Closed) EXCEPT !.conversation = c]}
    BY <1>7, SameDrafts DEF Drafts!StartConversation, Typing!StartConversation
  <2>2. UNCHANGED <<drafts, minted, locked, tabs, windows, thrown>>
    BY <1>7 DEF Drafts!StartConversation, Typing!StartConversation
  <2>3. PICK q : q = Drafts!Request("save", Nobody, Drafts!Closed)
    OBVIOUS
  <2>4. /\ q \in DraftRequestForm /\ q.step = "sent" /\ q.tab = Nobody /\ q.window = 0 /\ q.text = [window |-> 0, n |-> 0]
    <3>1. Drafts!Closed \in WindowForm /\ Nobody \in Windows \cup {Nobody} /\ "save" \in {"save", "delete", "queue"}
      BY DraftForms
    <3>2. Drafts!Closed.window = 0 /\ Drafts!Closed.text = [window |-> 0, n |-> 0]
      BY DEF Drafts!Closed, Drafts!Blank
    <3>3. QED
      <4>1. /\ Drafts!Request("save", Nobody, Drafts!Closed) \in DraftRequestForm
            /\ Drafts!Request("save", Nobody, Drafts!Closed).step = "sent"
            /\ Drafts!Request("save", Nobody, Drafts!Closed).tab = Nobody
            /\ Drafts!Request("save", Nobody, Drafts!Closed).window = Drafts!Closed.window
            /\ Drafts!Request("save", Nobody, Drafts!Closed).text = Drafts!Closed.text
        BY <3>1 DEF Drafts!Request, DraftRequestForm, WindowForm
      <4>2. QED
        BY <2>3, <3>2, <4>1
  <2>5. PICK s : s = [q EXCEPT !.conversation = c]
    OBVIOUS
  <2>6. /\ s \in DraftRequestForm /\ s.step = "sent" /\ s.tab = Nobody /\ s.window = 0 /\ s.text = [window |-> 0, n |-> 0]
    BY <2>4, <2>5 DEF DraftRequestForm
  <2>7. QED
    BY <2>1, <2>2, <2>3, <2>5, <2>6 DEF Joined
<1>8. ASSUME Drafts!PurgeConversation \/ Typing!PurgeConversation
      PROVE  Joined
  <2>0. PICK c \in Peers \ {""} : \E id \in Drafts!OfConversation(c) :
          draftRequests' = draftRequests \cup {[Drafts!Request("delete", Nobody, Drafts!Closed) EXCEPT !.id = id]}
    BY <1>8, SameDrafts DEF Drafts!PurgeConversation, Typing!PurgeConversation
  <2>1. PICK id \in Drafts!OfConversation(c) :
          draftRequests' = draftRequests \cup {[Drafts!Request("delete", Nobody, Drafts!Closed) EXCEPT !.id = id]}
    BY <2>0
  <2>2. UNCHANGED <<drafts, minted, locked, tabs, windows, thrown>>
    BY <1>8 DEF Drafts!PurgeConversation, Typing!PurgeConversation
  <2>3. PICK q : q = Drafts!Request("delete", Nobody, Drafts!Closed)
    OBVIOUS
  <2>4. q \in DraftRequestForm /\ q.step = "sent" /\ q.kind = "delete"
    <3>1. Drafts!Closed \in WindowForm /\ Nobody \in Windows \cup {Nobody} /\ "delete" \in {"save", "delete", "queue"}
      BY DraftForms
    <3>2. QED
      BY <2>3, <3>1, DraftForms
  <2>5. id \in Nat
    BY IdsAreNumbers
  <2>6. PICK s : s = [q EXCEPT !.id = id]
    OBVIOUS
  <2>7. s \in DraftRequestForm /\ s.step = "sent" /\ s.kind = "delete"
    BY <2>4, <2>5, <2>6 DEF DraftRequestForm
  <2>8. QED
    BY <2>1, <2>2, <2>3, <2>6, <2>7 DEF Joined
<1>9. QED
  BY <1>2, <1>3, <1>4, <1>5, <1>6, <1>7, <1>8

\* A step of a compose window, of the network or of the server.
LEMMA DraftStep ==
  ASSUME DraftInv, Drafts!Next \/ Typing!Next
  PROVE  DraftInv'
<1>1. ASSUME NEW t \in Windows, Drafts!Open(t)  PROVE DraftInv'
  BY <1>1, OpenKeeps
<1>2. ASSUME NEW t \in Windows, Typed(t)  PROVE DraftInv'
  BY <1>2, TypeKeeps
<1>3. ASSUME NEW t \in Windows, Drafts!Autosave(t)  PROVE DraftInv'
  BY <1>3, AutosaveKeeps
<1>4. ASSUME NEW t \in Windows, Drafts!Close(t)  PROVE DraftInv'
  BY <1>4, CloseKeeps
<1>5. ASSUME NEW t \in Windows, Discarded(t)  PROVE DraftInv'
  BY <1>5, DiscardKeeps
<1>6. ASSUME NEW t \in Windows, Submitted(t)  PROVE DraftInv'
  BY <1>6, SubmitKeeps
<1>7. ASSUME NEW t \in Windows, Drafts!SaveReturns(t)  PROVE DraftInv'
  BY <1>7, SaveReturnsKeeps
<1>8. ASSUME NEW t \in Windows, Drafts!QueueReturns(t)  PROVE DraftInv'
  BY <1>8, QueueReturnsKeeps
<1>9. ASSUME NEW t \in Windows, Died(t)  PROVE DraftInv'
  BY <1>9, DieKeeps
<1>10. ASSUME NEW t \in Windows,
              \/ Drafts!Open(t) \/ Typed(t) \/ Drafts!Autosave(t) \/ Drafts!Close(t) \/ Discarded(t) \/ Submitted(t)
              \/ Drafts!SaveReturns(t) \/ Drafts!QueueReturns(t) \/ Died(t)
       PROVE  DraftInv'
  BY <1>1, <1>2, <1>3, <1>4, <1>5, <1>6, <1>7, <1>8, <1>9, <1>10
<1>11. ASSUME \/ Joined \/ Lost \/ Drafts!Resolve \/ Drafts!Upsert \/ Drafts!DeleteDraft \/ Drafts!Queue
              \/ Drafts!DeleteDraftsForConversation
       PROVE  DraftInv'
  BY <1>11, JoinKeeps, LoseKeeps, ResolveKeeps, UpsertKeeps, DeleteKeeps, QueueKeeps, DeleteOfConversationKeeps
<1>12. CASE Drafts!Next
  BY <1>10, <1>11, <1>12, BoundedMoves DEF Drafts!Next
<1>13. CASE Typing!Next
  BY <1>10, <1>11, <1>13, BoundedMoves, SameMoves DEF Typing!Next
<1>14. QED
  BY <1>12, <1>13

\* What the runs check follows: the index refuses nothing.
LEMMA DraftsAreTaken ==
  ASSUME DraftInv
  PROVE  Drafts!SavesAreTaken
BY DEF DraftInv, ServerHeld, RowOfConversation, Resolved, Save, Drafts!SavesAreTaken

\* Only a save replaces a text, and it is ahead of what its window stored.
LEMMA NewestStays ==
  ASSUME DraftInv, Drafts!Next \/ Typing!Next
  PROVE  Drafts!NewestStaysUntilThrown
<1> SUFFICES ASSUME thrown = {}, NEW i \in 1..MaxDrafts, drafts'[i] # Drafts!NoDraft,
                    drafts'[i].text.window = drafts[i].text.window
             PROVE  drafts'[i].text.n >= drafts[i].text.n
  BY DEF Drafts!NewestStaysUntilThrown, Drafts!OlderLandsNever, Drafts!DraftIds
<1>1. /\ DraftTypes /\ LaterIsAhead /\ drafts \in [1..MaxDrafts -> RowForm] /\ drafts[i].text.n \in Nat
  BY DEF DraftInv, TextsInOrder, DraftTypes, RowForm, TextForm
<1>2. CASE drafts'[i] = drafts[i]
  BY <1>1, <1>2
<1>3. CASE Drafts!Upsert
  <2>1. PICK r \in draftRequests :
          /\ r.kind = "save" /\ r.step = "resolved"
          /\ drafts' = drafts \/ drafts' = [drafts EXCEPT ![r.id] = [conversation |-> r.conversation, text |-> r.text]]
    BY <1>3 DEF Drafts!Upsert
  <2>2. InFlight(r)
    BY <2>1 DEF InFlight, Save
  <2>3. CASE drafts' = [drafts EXCEPT ![r.id] = [conversation |-> r.conversation, text |-> r.text]]
    <3>1. CASE i = r.id
      <4>1. drafts'[i].text = r.text
        BY <1>1, <2>3, <3>1
      <4>2. r.text.window = r.window /\ r.text.n \in Nat
        BY <1>1, <2>2 DEF DraftInv, TextsInOrder, TextsAreNamed, DraftTypes, DraftRequestForm, TextForm, InFlight
      <4>3. QED
        BY <1>1, <2>2, <4>1, <4>2 DEF LaterIsAhead
    <3>2. CASE i # r.id
      BY <1>1, <1>2, <2>3, <3>2
    <3>3. QED
      BY <3>1, <3>2
  <2>4. QED
    BY <1>2, <2>1, <2>3
<1>4. CASE Drafts!DeleteDraft
  <2>1. PICK r \in draftRequests : drafts' = [drafts EXCEPT ![r.id] = Drafts!NoDraft]
    BY <1>4 DEF Drafts!DeleteDraft
  <2>2. QED
    BY <1>1, <1>2, <2>1
<1>5. CASE Drafts!DeleteDraftsForConversation
  <2>1. PICK r \in draftRequests :
          drafts' = [id \in Drafts!DraftIds |-> IF id \in Drafts!OfConversation(r.conversation) THEN Drafts!NoDraft ELSE drafts[id]]
    BY <1>5 DEF Drafts!DeleteDraftsForConversation
  <2>2. QED
    BY <1>2, <2>1 DEF Drafts!DraftIds
<1>6. CASE \/ Joined \/ Lost \/ Drafts!Resolve \/ Drafts!Queue
  BY <1>2, <1>6 DEF Joined, Lost, Drafts!Resolve, Drafts!Queue
<1>7. ASSUME NEW t \in Windows,
              \/ Drafts!Open(t) \/ Typed(t) \/ Drafts!Autosave(t) \/ Drafts!Close(t) \/ Discarded(t) \/ Submitted(t)
              \/ Drafts!SaveReturns(t) \/ Drafts!QueueReturns(t) \/ Died(t)
      PROVE  UNCHANGED drafts
  BY <1>7 DEF Drafts!Open, Typed, Drafts!Autosave, Drafts!Close, Discarded, Submitted, Drafts!SaveReturns,
              Drafts!QueueReturns, Died
<1>8. CASE Drafts!Next
  BY <1>2, <1>3, <1>4, <1>5, <1>6, <1>7, <1>8, BoundedMoves DEF Drafts!Next
<1>9. CASE Typing!Next
  BY <1>2, <1>3, <1>4, <1>5, <1>6, <1>7, <1>9, BoundedMoves, SameMoves DEF Typing!Next
<1>10. QED
  BY <1>8, <1>9

-----------------------------------------------------------------------------
(* The conversations (Conversations) *)

\* A count of Conversations is a count.
LEMMA SameCountOfReading ==
  \A S : Reading!Cardinality(S) = Cardinality(S)
BY DEF Cardinality, IsFiniteSet, Reading!Cardinality, Reading!IsFiniteSet

\* A finite set has a least element of an order: one with the fewest before it.
LEMMA LeastOf ==
  ASSUME NEW S, NEW R, IsFiniteSet(S), S # {}, \A p \in S : <<p, p>> \notin R,
         \A p, q, r \in S : <<p, q>> \in R /\ <<q, r>> \in R => <<p, r>> \in R
  PROVE  \E p \in S : \A q \in S : <<q, p>> \notin R
<1> DEFINE below(p) == {q \in S : <<q, p>> \in R}
           count == [p \in S |-> Cardinality(below(p))]
           counts == {count[p] : p \in S}
<1>1. \A p \in S : below(p) \in SUBSET S /\ IsFiniteSet(below(p)) /\ Cardinality(below(p)) \in Nat
  BY FS_Subset, FS_CardinalityType
<1>2. \A p \in S : count[p] = Cardinality(below(p)) /\ count[p] \in Nat
  BY <1>1
<1>3. \A p, q \in S : q \in below(p) <=> <<q, p>> \in R
  OBVIOUS
<1> HIDE DEF below, count
<1>4. counts \subseteq Nat /\ counts # {}
  BY <1>2
<1>5. PICK n \in counts : \A m \in counts : <<m, n>> \notin OpToRel(<, Nat)
  BY <1>4, NatLessThanWellFounded, WFMin
<1>6. \A m \in counts : ~(m < n)
  BY <1>4, <1>5 DEF OpToRel
<1>7. PICK p \in S : n = count[p]
  OBVIOUS
<1>8. ASSUME NEW q \in S, <<q, p>> \in R
      PROVE  FALSE
  <2>1. \A r \in S : r \in below(q) => r \in below(p)
    BY <1>3, <1>8
  <2>2. below(q) \in SUBSET below(p) /\ q \in below(p) /\ q \notin below(q)
    BY <1>1, <1>3, <1>8, <2>1
  <2>3. Cardinality(below(q)) <= Cardinality(below(p)) /\ Cardinality(below(q)) # Cardinality(below(p))
    <3>1. IsFiniteSet(below(p))
      BY <1>1
    <3>2. Cardinality(below(q)) <= Cardinality(below(p))
          /\ (Cardinality(below(p)) = Cardinality(below(q)) => below(p) = below(q))
      BY <2>2, <3>1, FS_Subset
    <3>3. QED
      BY <2>2, <3>2
  <2>4. count[q] < n
    BY <1>2, <1>7, <2>3
  <2>5. QED
    BY <1>6, <2>4
<1>9. QED
  BY <1>8

\* A place, or a row: a date and an id.
Pairs == Int \X Int

\* Places and rows are ordered.
LEMMA PlacesAreOrdered ==
  /\ \A p \in Pairs : ~Reading!Before(p, p)
  /\ \A p, q, r \in Pairs : Reading!Before(p, q) /\ Reading!Before(q, r) => Reading!Before(p, r)
  /\ \A p, q \in Pairs : p = q \/ Reading!Before(p, q) \/ Reading!Before(q, p)
BY DEF Pairs, Reading!Before

\* The first of a set of places.
LEMMA LowestIs ==
  ASSUME NEW S, S \subseteq Pairs, IsFiniteSet(S), S # {}
  PROVE  /\ Reading!Lowest(S) \in S
         /\ \A q \in S : q = Reading!Lowest(S) \/ Reading!Before(Reading!Lowest(S), q)
<1> DEFINE R == {pq \in S \X S : Reading!Before(pq[1], pq[2])}
<1>1. \A p, q \in S : <<p, q>> \in R <=> Reading!Before(p, q)
  OBVIOUS
<1>2. \A p \in S : <<p, p>> \notin R
  BY <1>1, PlacesAreOrdered
<1>3. \A p, q, r \in S : <<p, q>> \in R /\ <<q, r>> \in R => <<p, r>> \in R
  <2> HIDE DEF R
  <2> SUFFICES ASSUME NEW p \in S, NEW q \in S, NEW r \in S, <<p, q>> \in R, <<q, r>> \in R
               PROVE  <<p, r>> \in R
    OBVIOUS
  <2>1. Reading!Before(p, q) /\ Reading!Before(q, r) /\ p \in Pairs /\ q \in Pairs /\ r \in Pairs
    BY <1>1
  <2>2. QED
    BY <1>1, <2>1, PlacesAreOrdered
<1> HIDE DEF R
<1>4. \E p \in S : \A q \in S : <<q, p>> \notin R
  BY <1>2, <1>3, LeastOf
<1>5. \E p \in S : \A q \in S : q = p \/ Reading!Before(p, q)
  BY <1>1, <1>4, PlacesAreOrdered
<1>6. QED
  BY <1>5 DEF Reading!Lowest

\* The last of a set of places.
LEMMA HighestIs ==
  ASSUME NEW S, S \subseteq Pairs, IsFiniteSet(S), S # {}
  PROVE  /\ Reading!Highest(S) \in S
         /\ \A q \in S : q = Reading!Highest(S) \/ Reading!Before(q, Reading!Highest(S))
<1> DEFINE R == {pq \in S \X S : Reading!Before(pq[2], pq[1])}
<1>1. \A p, q \in S : <<p, q>> \in R <=> Reading!Before(q, p)
  OBVIOUS
<1>2. \A p \in S : <<p, p>> \notin R
  BY <1>1, PlacesAreOrdered
<1>3. \A p, q, r \in S : <<p, q>> \in R /\ <<q, r>> \in R => <<p, r>> \in R
  <2> HIDE DEF R
  <2> SUFFICES ASSUME NEW p \in S, NEW q \in S, NEW r \in S, <<p, q>> \in R, <<q, r>> \in R
               PROVE  <<p, r>> \in R
    OBVIOUS
  <2>1. Reading!Before(q, p) /\ Reading!Before(r, q) /\ p \in Pairs /\ q \in Pairs /\ r \in Pairs
    BY <1>1
  <2>2. QED
    BY <1>1, <2>1, PlacesAreOrdered
<1> HIDE DEF R
<1>4. \E p \in S : \A q \in S : <<q, p>> \notin R
  BY <1>2, <1>3, LeastOf
<1>5. \E p \in S : \A q \in S : q = p \/ Reading!Before(q, p)
  BY <1>1, <1>4, PlacesAreOrdered
<1>6. QED
  BY <1>5 DEF Reading!Highest

\* A page of messages is all those at one end: what is not on it lies before, or after, it.
LEMMA LastOfIs ==
  ASSUME NEW S, S \subseteq Pairs, IsFiniteSet(S)
  PROVE  /\ Reading!LastOf(S) \subseteq S /\ (S # {} => Reading!LastOf(S) # {})
         /\ \A p \in S \ Reading!LastOf(S), l \in Reading!LastOf(S) : Reading!Before(p, l)
<1> DEFINE later(p) == {q \in S : Reading!Before(p, q)}
<1>1. /\ Reading!LastOf(S) \subseteq S
      /\ \A p \in S : p \in Reading!LastOf(S) <=> Cardinality(later(p)) < WindowSize
  BY SameCountOfReading DEF Reading!LastOf
<1>2. \A p \in S : later(p) \in SUBSET S /\ IsFiniteSet(later(p)) /\ Cardinality(later(p)) \in Nat
  BY FS_Subset, FS_CardinalityType
<1>3. WindowSize \in Nat \ {0}
  BY MailboxAssumption DEF Reading!ConversationsAssumption
<1>4. ASSUME S # {}
      PROVE  Reading!LastOf(S) # {}
  <2>1. PICK h \in S : \A q \in S : q = h \/ Reading!Before(q, h)
    BY <1>4, HighestIs
  <2>2. later(h) = {}
    BY <2>1, PlacesAreOrdered
  <2>3. Cardinality(later(h)) = 0
    BY <2>2, FS_EmptySet
  <2>4. QED
    BY <1>1, <1>3, <2>3
<1>5. ASSUME NEW p \in S \ Reading!LastOf(S), NEW l \in Reading!LastOf(S)
      PROVE  Reading!Before(p, l)
  <2>1. l \in S /\ l # p /\ p \in Pairs /\ l \in Pairs
    BY <1>1, <1>5
  <2>2. SUFFICES ASSUME Reading!Before(l, p) PROVE FALSE
    BY <2>1, PlacesAreOrdered
  <2>3. later(p) \in SUBSET later(l)
    BY <2>1, <2>2, PlacesAreOrdered
  <2> HIDE DEF later
  <2>4. Cardinality(later(p)) <= Cardinality(later(l))
    BY <1>2, <2>1, <2>3, FS_Subset
  <2>5. QED
    BY <1>1, <1>2, <1>3, <2>1, <2>4
<1>6. QED
  BY <1>1, <1>4, <1>5

\* And at the other end.
LEMMA FirstOfIs ==
  ASSUME NEW S, S \subseteq Pairs, IsFiniteSet(S)
  PROVE  /\ Reading!FirstOf(S) \subseteq S /\ (S # {} => Reading!FirstOf(S) # {})
         /\ \A p \in S \ Reading!FirstOf(S), l \in Reading!FirstOf(S) : Reading!Before(l, p)
<1> DEFINE earlier(p) == {q \in S : Reading!Before(q, p)}
<1>1. /\ Reading!FirstOf(S) \subseteq S
      /\ \A p \in S : p \in Reading!FirstOf(S) <=> Cardinality(earlier(p)) < WindowSize
  BY SameCountOfReading DEF Reading!FirstOf
<1>2. \A p \in S : earlier(p) \in SUBSET S /\ IsFiniteSet(earlier(p)) /\ Cardinality(earlier(p)) \in Nat
  BY FS_Subset, FS_CardinalityType
<1>3. WindowSize \in Nat \ {0}
  BY MailboxAssumption DEF Reading!ConversationsAssumption
<1>4. ASSUME S # {}
      PROVE  Reading!FirstOf(S) # {}
  <2>1. PICK h \in S : \A q \in S : q = h \/ Reading!Before(h, q)
    BY <1>4, LowestIs
  <2>2. earlier(h) = {}
    BY <2>1, PlacesAreOrdered
  <2>3. Cardinality(earlier(h)) = 0
    BY <2>2, FS_EmptySet
  <2>4. QED
    BY <1>1, <1>3, <2>3
<1>5. ASSUME NEW p \in S \ Reading!FirstOf(S), NEW l \in Reading!FirstOf(S)
      PROVE  Reading!Before(l, p)
  <2>1. l \in S /\ l # p /\ p \in Pairs /\ l \in Pairs
    BY <1>1, <1>5
  <2>2. SUFFICES ASSUME Reading!Before(p, l) PROVE FALSE
    BY <2>1, PlacesAreOrdered
  <2>3. earlier(p) \in SUBSET earlier(l)
    BY <2>1, <2>2, PlacesAreOrdered
  <2> HIDE DEF earlier
  <2>4. Cardinality(earlier(p)) <= Cardinality(earlier(l))
    BY <1>2, <2>1, <2>3, FS_Subset
  <2>5. QED
    BY <1>1, <1>2, <1>3, <2>1, <2>4
<1>6. QED
  BY <1>1, <1>4, <1>5

\* The mirrored mail: every message is one, under its own key.
MailHeld ==
  /\ IsFiniteSet(mail) /\ mailMade \in Nat
  /\ \A m \in mail : /\ m = [id |-> m.id, conv |-> m.conv, date |-> m.date, send |-> m.send, seen |-> m.seen]
                     /\ m.id \in Nat /\ m.id <= mailMade /\ m.conv \in Convs /\ m.date \in Dates
  /\ \A m, n \in mail : m.id = n.id => m = n
DatesHeld == draftDates \in [Convs -> Nat] /\ IsFiniteSet({c \in Convs : draftDates[c] # 0})

\* A request knows the keys of the outbox rows it has read.
ActsHeld ==
  /\ acts = [h \in Readers |-> acts[h]]
  /\ \A h \in Readers :
       /\ acts[h] = [step |-> acts[h].step, op |-> acts[h].op, conv |-> acts[h].conv, keys |-> acts[h].keys,
                     rows |-> acts[h].rows, key |-> acts[h].key]
       /\ \A p \in acts[h].rows : p[2] \in acts[h].keys

\* The walk has passed a row that stayed where it was once it is at or before the cursor.
Passed(c) == Reading!BeforeOrAtCursor(Reading!Row(c), walk.cursor)
WalkHeld ==
  /\ walk = [at |-> walk.at, cursor |-> walk.cursor, got |-> walk.got, kept |-> walk.kept]
  /\ walk.at \in {"none", "start", "more", "done"} /\ walk.cursor \in Pairs /\ walk.got \in [Convs -> Nat]
  /\ walk.kept \subseteq Reading!Listed
  /\ \A c \in walk.kept :
       /\ walk.at = "start" => walk.got[c] = 0
       /\ walk.at = "more" => (Passed(c) => walk.got[c] = 1) /\ (~Passed(c) => walk.got[c] = 0)
       /\ walk.at = "done" => walk.got[c] = 1

\* What a window has lies between its ends, which it has unless it is empty ...
Spans(w) ==
  /\ w.got \subseteq Pairs /\ IsFiniteSet(w.got) /\ w.oldest \in Pairs /\ w.newest \in Pairs
  /\ ~Reading!Before(w.newest, w.oldest)
  /\ w.got # {} => w.oldest \in w.got /\ w.newest \in w.got
  /\ \A q \in w.got : ~Reading!Before(q, w.oldest) /\ ~Reading!Before(w.newest, q)

\* ... what stayed is there, or lies where there is more ...
Covers(w, messages) ==
  \A p \in messages : \/ p \in w.got
                      \/ Reading!Before(p, w.oldest) /\ w.more
                      \/ Reading!Before(w.newest, p) /\ w.newer

\* ... and an answer of a refresh has what the window has, unless the ends have moved apart for good.
Fits(r) ==
  /\ r.ends[1] \in Pairs /\ r.ends[2] \in Pairs
  /\ \/ window.oldest = r.ends[1] /\ window.newest = r.ends[2] /\ (window.got \cap window.kept) \subseteq r.got
     \/ window.got # {} /\ (Reading!Before(window.oldest, r.ends[1]) \/ Reading!Before(r.ends[2], window.newest))

WindowShape ==
  window = [conv |-> window.conv, refresh |-> window.refresh, oldest |-> window.oldest, newest |-> window.newest,
            got |-> window.got, kept |-> window.kept, more |-> window.more, newer |-> window.newer]
Held(r) == Spans(r) /\ Covers(r, window.kept) /\ Fits(r)
WindowHeld ==
  /\ WindowShape
  /\ window.conv # 0 =>
       /\ Spans(window) /\ Covers(window, window.kept) /\ window.kept \subseteq Reading!Places(window.conv)
       /\ window.conv \in Convs
       /\ window.refresh # Reading!NoRefresh => Held(window.refresh)

ReadInv == MailHeld /\ DatesHeld /\ ActsHeld /\ WalkHeld /\ WindowHeld

\* The places of the messages of a conversation.
LEMMA PlacesHeld ==
  ASSUME MailHeld, NEW c
  PROVE  /\ Reading!Places(c) \subseteq Pairs /\ IsFiniteSet(Reading!Places(c))
         /\ \A p \in Reading!Places(c) : p[2] \in Nat /\ p[2] <= mailMade
         /\ \A p : p \in Reading!Places(c) <=> \E m \in mail : m.conv = c /\ p = <<m.date, m.id>>
<1>1. \A p : p \in Reading!Places(c) <=> \E m \in mail : m.conv = c /\ p = <<m.date, m.id>>
  BY DEF Reading!Places, Reading!MessagesOf, Reading!Place
<1>2. \A d \in Dates : d \in Nat
  BY MailboxAssumption DEF Reading!ConversationsAssumption
<1>3. \A m \in mail : m.date \in Int /\ m.id \in Nat /\ m.id <= mailMade
  BY <1>2 DEF MailHeld
<1>4. Reading!Places(c) \subseteq Pairs /\ \A p \in Reading!Places(c) : p[2] \in Nat /\ p[2] <= mailMade
  BY <1>1, <1>3 DEF Pairs
<1>5. IsFiniteSet(Reading!Places(c))
  <2> DEFINE S == {m \in mail : m.conv = c}
             f == [m \in S |-> <<m.date, m.id>>]
  <2>1. IsFiniteSet(S)
    BY FS_Subset DEF MailHeld
  <2>2. f \in Surjection(S, Reading!Places(c))
    BY <1>1 DEF Surjection
  <2>3. QED
    BY <2>1, <2>2, FS_Surjection
<1>6. QED
  BY <1>1, <1>4, <1>5

\* The rows of the list.
LEMMA RowsAreListed ==
  ASSUME MailHeld, DatesHeld
  PROVE  /\ IsFiniteSet(Reading!Listed) /\ Reading!Listed \subseteq Convs
         /\ \A c \in Convs : Reading!Row(c) \in Pairs /\ Reading!Row(c)[2] = c
<1>1. Convs \subseteq Int /\ \A d \in Dates : d \in Nat
  BY MailboxAssumption DEF Reading!ConversationsAssumption
<1>2. ASSUME NEW c \in Convs
      PROVE  Reading!Latest(c) \in Int
  <2>1. CASE Reading!MessagesOf(c) = {}
    BY <2>1 DEF Reading!Latest, DatesHeld
  <2>2. CASE Reading!MessagesOf(c) # {}
    <3> DEFINE S == Reading!MessagesOf(c)
    <3>1. S \subseteq mail /\ Reading!Places(c) = {<<m.date, m.id>> : m \in S}
      BY DEF Reading!MessagesOf, Reading!Places, Reading!Place
    <3>2. Reading!Places(c) # {}
      BY <2>2, <3>1
    <3>3. PICK p \in Reading!Places(c) : \A q \in Reading!Places(c) : q = p \/ Reading!Before(q, p)
      BY <3>2, PlacesHeld, HighestIs
    <3>4. PICK m \in S : p = <<m.date, m.id>>
      BY <3>1
    <3>5. \A n \in S : n = m \/ Reading!Before(Reading!Place(n), Reading!Place(m))
      <4> SUFFICES ASSUME NEW n \in S, n # m
                   PROVE  Reading!Before(Reading!Place(n), Reading!Place(m))
        OBVIOUS
      <4>1. n.id # m.id
        BY <3>1 DEF MailHeld
      <4>2. <<n.date, n.id>> \in Reading!Places(c) /\ <<n.date, n.id>> # p
        BY <3>1, <3>4, <4>1
      <4>3. QED
        BY <3>3, <3>4, <4>2 DEF Reading!Place
    <3>6. Reading!Last(S) \in S
      BY <3>5 DEF Reading!Last
    <3>7. Reading!Last(S).date \in Dates
      BY <3>1, <3>6 DEF MailHeld
    <3>8. QED
      BY <1>1, <2>2, <3>7 DEF Reading!Latest
  <2>3. QED
    BY <2>1, <2>2
<1>3. \A c \in Convs : Reading!Row(c) \in Pairs /\ Reading!Row(c)[2] = c
  BY <1>1, <1>2 DEF Reading!Row, Pairs
<1>4. Reading!Listed \subseteq Convs
  BY DEF Reading!Listed
<1>5. IsFiniteSet(Reading!Listed)
  <2> DEFINE D == {c \in Convs : draftDates[c] # 0}
             M == {m.conv : m \in mail}
             f == [m \in mail |-> m.conv]
  <2>1. f \in Surjection(mail, M)
    BY DEF Surjection
  <2>2. IsFiniteSet(M)
    BY <2>1, FS_Surjection DEF MailHeld
  <2>3. IsFiniteSet(D \cup M)
    BY <2>2, FS_Union DEF DatesHeld
  <2>4. Reading!Listed \in SUBSET (D \cup M)
    BY DEF Reading!Listed, Reading!MessagesOf
  <2>5. QED
    BY <2>3, <2>4, FS_Subset
<1>6. QED
  BY <1>3, <1>4, <1>5

\* The readers keep what they have while the mailbox changes, and what stayed becomes less.
LEMMA ReadersTrack ==
  ASSUME MailHeld, DatesHeld, WalkHeld, WindowHeld, Reading!Track,
         \A n \in mail' : n.id > mailMade \/ \E m \in mail : n.id = m.id /\ n.conv = m.conv /\ n.date = m.date
  PROVE  WalkHeld' /\ WindowHeld'
<1>1. PICK left : left = {c \in walk.kept : c \in Reading!Listed' /\ Reading!Latest(c)' = Reading!Latest(c)}
  OBVIOUS
<1>2. PICK stay : stay = {p \in window.kept : \E m \in mail' : Reading!Place(m) = p}
  OBVIOUS
<1>3. walk' = [walk EXCEPT !.kept = left] /\ window' = [window EXCEPT !.kept = stay]
  BY <1>1, <1>2 DEF Reading!Track
<1>4. walk' = [at |-> walk.at, cursor |-> walk.cursor, got |-> walk.got, kept |-> left]
  BY <1>3 DEF WalkHeld
<1>5. WalkHeld'
  <2>1. \A c \in left : c \in walk.kept /\ c \in Reading!Listed' /\ Reading!Row(c)' = Reading!Row(c)
    BY <1>1 DEF Reading!Row
  <2>2. /\ walk'.at = walk.at /\ walk'.cursor = walk.cursor /\ walk'.got = walk.got /\ walk'.kept = left
    BY <1>4
  <2>3. \A c \in left : Passed(c)' = Passed(c)
    BY <2>1, <2>2 DEF Passed
  <2>4. QED
    BY <1>4, <2>1, <2>2, <2>3 DEF WalkHeld
<1>6. /\ window' = [conv |-> window.conv, refresh |-> window.refresh, oldest |-> window.oldest, newest |-> window.newest,
                    got |-> window.got, kept |-> stay, more |-> window.more, newer |-> window.newer]
  BY <1>3 DEF WindowHeld, WindowShape
<1>7. /\ window'.conv = window.conv /\ window'.refresh = window.refresh /\ window'.oldest = window.oldest
      /\ window'.newest = window.newest /\ window'.got = window.got /\ window'.kept = stay
      /\ window'.more = window.more /\ window'.newer = window.newer /\ WindowShape'
  BY <1>6 DEF WindowShape
<1>8. stay \subseteq window.kept
  BY <1>2
<1>9. ASSUME window.conv # 0
      PROVE  /\ Spans(window)' /\ Covers(window, window.kept)' /\ window'.kept \subseteq Reading!Places(window.conv)'
             /\ window.refresh # Reading!NoRefresh => Held(window.refresh)'
  <2>1. /\ Spans(window) /\ Covers(window, window.kept) /\ window.kept \subseteq Reading!Places(window.conv)
        /\ window.refresh # Reading!NoRefresh => Held(window.refresh)
    BY <1>9 DEF WindowHeld
  <2>2. Spans(window)'
    BY <1>7, <2>1 DEF Spans
  <2>3. Covers(window, window.kept)'
    BY <1>7, <1>8, <2>1 DEF Covers
  <2>4. ASSUME NEW p \in stay
        PROVE  p \in Reading!Places(window.conv)'
    <3>1. PICK n \in mail' : <<n.date, n.id>> = p
      BY <1>2 DEF Reading!Place
    <3>2. p \in Reading!Places(window.conv)
      BY <1>8, <2>1
    <3>3. PICK m \in mail : m.conv = window.conv /\ p = <<m.date, m.id>>
      BY <3>2, PlacesHeld
    <3>4. n.id = m.id /\ m.id \in Nat /\ m.id <= mailMade /\ mailMade \in Nat
      BY <3>1, <3>3 DEF MailHeld
    <3>5. n.conv = m.conv
      BY <3>4 DEF MailHeld
    <3>6. QED
      BY <1>7, <3>1, <3>3, <3>5 DEF Reading!Places, Reading!MessagesOf, Reading!Place
  <2>5. window.refresh # Reading!NoRefresh => Held(window.refresh)'
    <3>1. (window.got \cap stay) \subseteq (window.got \cap window.kept)
      BY <1>8
    <3>2. QED
      BY <1>7, <1>8, <2>1, <3>1 DEF Held, Spans, Covers, Fits
  <2>6. QED
    BY <1>7, <2>2, <2>3, <2>4, <2>5
<1>10. WindowHeld'
  BY <1>7, <1>9 DEF WindowHeld, Reading!NoRefresh
<1>11. QED
  BY <1>5, <1>10

\* Nothing changes for a reader that does not read.
LEMMA WalkRests ==
  ASSUME WalkHeld, UNCHANGED <<mail, draftDates, walk>>
  PROVE  WalkHeld'
<1>1. /\ Reading!Listed' = Reading!Listed
      /\ \A c : Reading!Row(c)' = Reading!Row(c)
  BY DEF Reading!Listed, Reading!Row, Reading!Latest, Reading!MessagesOf
<1>2. \A c : Passed(c)' = Passed(c)
  BY <1>1 DEF Passed
<1>3. QED
  BY <1>1, <1>2 DEF WalkHeld

\* Nor for a window.
LEMMA WindowRests ==
  ASSUME WindowHeld, UNCHANGED <<mail, window>>
  PROVE  WindowHeld'
BY DEF WindowHeld, WindowShape, Spans, Covers, Held, Fits, Reading!Places, Reading!MessagesOf, Reading!NoRefresh

\* A message comes.
LEMMA MailComes ==
  ASSUME MailHeld, NEW n, mail' = mail \cup {n}, mailMade' = mailMade + 1, n.id = mailMade + 1,
         n = [id |-> n.id, conv |-> n.conv, date |-> n.date, send |-> n.send, seen |-> n.seen],
         n.conv \in Convs, n.date \in Dates
  PROVE  MailHeld' /\ \A m \in mail' : m.id > mailMade \/ \E o \in mail : m.id = o.id /\ m.conv = o.conv /\ m.date = o.date
<1>1. IsFiniteSet(mail')
  BY FS_AddElement DEF MailHeld
<1>2. \A m \in mail' : /\ m = [id |-> m.id, conv |-> m.conv, date |-> m.date, send |-> m.send, seen |-> m.seen]
                       /\ m.id \in Nat /\ m.id <= mailMade' /\ m.conv \in Convs /\ m.date \in Dates
  BY DEF MailHeld
<1>3. \A m \in mail : m.id # n.id
  BY DEF MailHeld
<1>4. \A m, o \in mail' : m.id = o.id => m = o
  BY <1>3 DEF MailHeld
<1>5. QED
  BY <1>1, <1>2, <1>4 DEF MailHeld

\* Messages go, and some change their state.
Altered(n, m) ==
  /\ n = [id |-> n.id, conv |-> n.conv, date |-> n.date, send |-> n.send, seen |-> n.seen]
  /\ n.id = m.id /\ n.conv = m.conv /\ n.date = m.date

\* And every message is one again.
LEMMA MailGoes ==
  ASSUME MailHeld, IsFiniteSet(mail'), mailMade' = mailMade,
         \A n \in mail' : \E m \in mail : Altered(n, m),
         \A n, o \in mail' : n.id = o.id => n = o
  PROVE  MailHeld' /\ \A m \in mail' : m.id > mailMade \/ \E o \in mail : m.id = o.id /\ m.conv = o.conv /\ m.date = o.date
BY DEF MailHeld, Altered

\* Messages only go.
LEMMA MailShrinks ==
  ASSUME MailHeld, mail' \subseteq mail, mailMade' = mailMade
  PROVE  MailHeld' /\ \A m \in mail' : m.id > mailMade \/ \E o \in mail : m.id = o.id /\ m.conv = o.conv /\ m.date = o.date
<1>1. IsFiniteSet(mail')
  BY FS_Subset DEF MailHeld
<1>2. QED
  BY <1>1 DEF MailHeld

\* A draft is saved, or goes.
LEMMA DatesGo ==
  ASSUME DatesHeld, NEW c, NEW d \in Dates \cup {0}, draftDates' = [draftDates EXCEPT ![c] = d]
  PROVE  DatesHeld'
<1>1. d \in Nat
  BY MailboxAssumption DEF Reading!ConversationsAssumption
<1>2. draftDates' \in [Convs -> Nat]
  BY <1>1 DEF DatesHeld
<1>3. {e \in Convs : draftDates'[e] # 0} \in SUBSET ({e \in Convs : draftDates[e] # 0} \cup {c})
  BY DEF DatesHeld
<1>4. IsFiniteSet({e \in Convs : draftDates[e] # 0} \cup {c})
  BY FS_AddElement DEF DatesHeld
<1>5. IsFiniteSet({e \in Convs : draftDates'[e] # 0})
  BY <1>3, <1>4, FS_Subset
<1>6. QED
  BY <1>2, <1>5 DEF DatesHeld

\* The mailbox changes: ReadInv holds again.
LEMMA MailboxMoves ==
  ASSUME ReadInv, Reading!Track, MailHeld', DatesHeld', ActsHeld',
         \A n \in mail' : n.id > mailMade \/ \E m \in mail : n.id = m.id /\ n.conv = m.conv /\ n.date = m.date
  PROVE  ReadInv'
BY ReadersTrack DEF ReadInv

\* A message comes: the list may change, and what stayed is less.
LEMMA ArriveHolds ==
  ASSUME ReadInv, NEW c \in Convs, Reading!Arrive(c)
  PROVE  ReadInv'
<1>1. PICK d \in Dates :
        mail' = mail \cup {[id |-> mailMade', conv |-> c, date |-> d, send |-> "received", seen |-> FALSE]}
  BY DEF Reading!Arrive
<1>2. PICK n : n = [id |-> mailMade', conv |-> c, date |-> d, send |-> "received", seen |-> FALSE]
  OBVIOUS
<1>3. /\ mail' = mail \cup {n} /\ n.id = mailMade' /\ n.conv = c /\ n.date = d
      /\ n = [id |-> n.id, conv |-> n.conv, date |-> n.date, send |-> n.send, seen |-> n.seen]
  BY <1>1, <1>2
<1>4. mailMade' = mailMade + 1 /\ UNCHANGED <<draftDates, acts>> /\ Reading!Track
  BY DEF Reading!Arrive
<1>5. /\ MailHeld'
      /\ \A m \in mail' : m.id > mailMade \/ \E o \in mail : m.id = o.id /\ m.conv = o.conv /\ m.date = o.date
  BY <1>3, <1>4, MailComes DEF ReadInv
<1>6. DatesHeld' /\ ActsHeld'
  BY <1>4 DEF ReadInv, DatesHeld, ActsHeld
<1>7. QED
  BY <1>4, <1>5, <1>6, MailboxMoves

\* A message is sent, and its draft goes.
LEMMA SendingHolds ==
  ASSUME ReadInv, NEW c \in Convs, Reading!Send(c)
  PROVE  ReadInv'
<1>1. Reading!Max(Dates) \in Dates
  <2>1. \E now \in Dates : \A d \in Dates : d <= now
    BY MailboxAssumption DEF Reading!ConversationsAssumption
  <2>2. \A d \in Dates : d \in Nat
    BY MailboxAssumption DEF Reading!ConversationsAssumption
  <2>3. \E now \in Dates : \A d \in Dates : now >= d
    BY <2>1, <2>2
  <2>4. QED
    BY <2>3 DEF Reading!Max
<1>2. PICK n : n = [id |-> mailMade', conv |-> c, date |-> Reading!Max(Dates), send |-> "queued", seen |-> TRUE]
  OBVIOUS
<1>3. /\ mail' = mail \cup {n} /\ n.id = mailMade' /\ n.conv = c /\ n.date \in Dates
      /\ n = [id |-> n.id, conv |-> n.conv, date |-> n.date, send |-> n.send, seen |-> n.seen]
  BY <1>1, <1>2 DEF Reading!Send
<1>4. mailMade' = mailMade + 1 /\ UNCHANGED acts /\ Reading!Track /\ draftDates' = [draftDates EXCEPT ![c] = 0]
  BY DEF Reading!Send
<1>5. /\ MailHeld'
      /\ \A m \in mail' : m.id > mailMade \/ \E o \in mail : m.id = o.id /\ m.conv = o.conv /\ m.date = o.date
  BY <1>3, <1>4, MailComes DEF ReadInv
<1>6. DatesHeld'
  BY <1>4, DatesGo DEF ReadInv
<1>7. ActsHeld'
  BY <1>4 DEF ReadInv, ActsHeld
<1>8. QED
  BY <1>4, <1>5, <1>6, <1>7, MailboxMoves

\* The outbox goes on.
LEMMA DeliverHolds ==
  ASSUME ReadInv, NEW m \in mail, Reading!Deliver(m)
  PROVE  ReadInv'
<1>1. PICK s : mail' = (mail \ {m}) \cup {[m EXCEPT !.send = s]}
  BY DEF Reading!Deliver
<1>2. PICK n : n = [m EXCEPT !.send = s]
  OBVIOUS
<1>3. Altered(n, m)
  BY <1>2 DEF Altered, ReadInv, MailHeld
<1>4. mail' = (mail \ {m}) \cup {n}
  BY <1>1, <1>2
<1>5. mailMade' = mailMade /\ UNCHANGED <<draftDates, acts>> /\ Reading!Track
  BY DEF Reading!Deliver
<1>6. IsFiniteSet(mail')
  BY <1>4, FS_AddElement, FS_RemoveElement DEF ReadInv, MailHeld
<1>7. \A o \in mail' : \E p \in mail : Altered(o, p)
  BY <1>3, <1>4 DEF Altered, ReadInv, MailHeld
<1>8. \A o, p \in mail' : o.id = p.id => o = p
  BY <1>3, <1>4 DEF Altered, ReadInv, MailHeld
<1>9. /\ MailHeld'
      /\ \A q \in mail' : q.id > mailMade \/ \E o \in mail : q.id = o.id /\ q.conv = o.conv /\ q.date = o.date
  BY <1>5, <1>6, <1>7, <1>8, MailGoes DEF ReadInv
<1>10. DatesHeld' /\ ActsHeld'
  BY <1>5 DEF ReadInv, DatesHeld, ActsHeld
<1>11. QED
  BY <1>5, <1>9, <1>10, MailboxMoves

\* A message goes.
LEMMA VanishHolds ==
  ASSUME ReadInv, NEW m \in mail, Reading!Vanish(m)
  PROVE  ReadInv'
<1>1. mail' = mail \ {m} /\ mailMade' = mailMade /\ UNCHANGED <<draftDates, acts>> /\ Reading!Track
  BY DEF Reading!Vanish
<1>2. /\ MailHeld'
      /\ \A q \in mail' : q.id > mailMade \/ \E o \in mail : q.id = o.id /\ q.conv = o.conv /\ q.date = o.date
  BY <1>1, MailShrinks DEF ReadInv
<1>3. DatesHeld' /\ ActsHeld'
  BY <1>1 DEF ReadInv, DatesHeld, ActsHeld
<1>4. QED
  BY <1>1, <1>2, <1>3, MailboxMoves

\* A draft is saved.
LEMMA DraftDateHolds ==
  ASSUME ReadInv, NEW c \in Convs, Reading!SaveDraft(c)
  PROVE  ReadInv'
<1>1. PICK d \in Dates : draftDates' = [draftDates EXCEPT ![c] = d]
  BY DEF Reading!SaveDraft
<1>2. mail' = mail /\ mailMade' = mailMade /\ acts' = acts /\ Reading!Track
  BY DEF Reading!SaveDraft
<1>3. /\ MailHeld'
      /\ \A q \in mail' : q.id > mailMade \/ \E o \in mail : q.id = o.id /\ q.conv = o.conv /\ q.date = o.date
  BY <1>2, MailShrinks DEF ReadInv
<1>4. DatesHeld'
  BY <1>1, DatesGo DEF ReadInv
<1>5. ActsHeld'
  BY <1>2 DEF ReadInv, ActsHeld
<1>6. QED
  BY <1>2, <1>3, <1>4, <1>5, MailboxMoves

\* A handler goes on.
LEMMA ActGoes ==
  ASSUME ActsHeld, NEW h \in Readers, NEW q, acts' = [acts EXCEPT ![h] = q],
         q = [step |-> q.step, op |-> q.op, conv |-> q.conv, keys |-> q.keys, rows |-> q.rows, key |-> q.key],
         \A p \in q.rows : p[2] \in q.keys
  PROVE  ActsHeld'
<1>1. acts' = [k \in Readers |-> IF k = h THEN q ELSE acts[k]]
  BY DEF ActsHeld
<1>2. QED
  BY <1>1 DEF ActsHeld

\* A handler has answered.
LEMMA ActEnds ==
  ASSUME ActsHeld, NEW h \in Readers, acts' = [acts EXCEPT ![h] = Reading!NoRequest]
  PROVE  ActsHeld'
<1>1. PICK q : q = Reading!NoRequest
  OBVIOUS
<1>2. /\ q = [step |-> q.step, op |-> q.op, conv |-> q.conv, keys |-> q.keys, rows |-> q.rows, key |-> q.key]
      /\ q.rows = {}
  BY <1>1 DEF Reading!NoRequest
<1>3. QED
  BY <1>1, <1>2, ActGoes

\* A handler takes its next step.
LEMMA ActSteps ==
  ASSUME ActsHeld, NEW h \in Readers, NEW s, acts' = [acts EXCEPT ![h] = [@ EXCEPT !.step = s]]
  PROVE  ActsHeld'
<1>1. PICK q : q = [acts[h] EXCEPT !.step = s]
  OBVIOUS
<1>2. /\ q = [step |-> q.step, op |-> q.op, conv |-> q.conv, keys |-> q.keys, rows |-> q.rows, key |-> q.key]
      /\ q.rows = acts[h].rows /\ q.keys = acts[h].keys
  BY <1>1 DEF ActsHeld
<1>3. acts' = [acts EXCEPT ![h] = q]
  BY <1>1
<1>4. \A p \in q.rows : p[2] \in q.keys
  BY <1>2 DEF ActsHeld
<1>5. QED
  BY <1>2, <1>3, <1>4, ActGoes

\* A handler reads its conversation.
LEMMA ReadConversationHolds ==
  ASSUME ReadInv, NEW h \in Readers, NEW c \in Convs, Reading!ReadConversation(h, c)
  PROVE  ReadInv'
<1>1. PICK op \in Reading!Ops :
        \E messages \in IF op = "message" THEN {{m} : m \in Reading!MessagesOf(c)} ELSE {Reading!MessagesOf(c)} :
          acts' = [acts EXCEPT ![h] =
            [step |-> "read", op |-> op, conv |-> c, keys |-> {m.id : m \in messages},
             rows |-> {Reading!Place(m) : m \in {n \in messages : n.send # "received"}},
             key |-> Reading!StatusMessageKey(c)]]
  BY DEF Reading!ReadConversation
<1>2. PICK messages : acts' = [acts EXCEPT ![h] =
            [step |-> "read", op |-> op, conv |-> c, keys |-> {m.id : m \in messages},
             rows |-> {Reading!Place(m) : m \in {n \in messages : n.send # "received"}},
             key |-> Reading!StatusMessageKey(c)]]
  BY <1>1
<1>3. PICK keys : keys = {m.id : m \in messages}
  OBVIOUS
<1>4. PICK places : places = {Reading!Place(m) : m \in {n \in messages : n.send # "received"}}
  OBVIOUS
<1>5. PICK q : q = [step |-> "read", op |-> op, conv |-> c, keys |-> keys, rows |-> places,
                    key |-> Reading!StatusMessageKey(c)]
  OBVIOUS
<1>6. /\ q = [step |-> q.step, op |-> q.op, conv |-> q.conv, keys |-> q.keys, rows |-> q.rows, key |-> q.key]
      /\ q.keys = keys /\ q.rows = places
  BY <1>5
<1>7. \A p \in q.rows : p[2] \in q.keys
  BY <1>3, <1>4, <1>6 DEF Reading!Place
<1>8. acts' = [acts EXCEPT ![h] = q]
  BY <1>2, <1>3, <1>4, <1>5
<1>9. ActsHeld'
  BY <1>6, <1>7, <1>8, ActGoes DEF ReadInv
<1>10. UNCHANGED <<mail, draftDates, walk, window, mailMade>>
  BY DEF Reading!ReadConversation
<1>11. QED
  BY <1>9, <1>10, WalkRests, WindowRests DEF ReadInv, MailHeld, DatesHeld

\* A status is given.
LEMMA HandleStatusHolds ==
  ASSUME ReadInv, NEW h \in Readers, Reading!HandleStatus(h)
  PROVE  ReadInv'
<1>1. ActsHeld'
  BY ActEnds DEF ReadInv, Reading!HandleStatus, Reading!Finish
<1>2. UNCHANGED <<mail, draftDates, walk, window, mailMade>>
  BY DEF Reading!HandleStatus
<1>3. QED
  BY <1>1, <1>2, WalkRests, WindowRests DEF ReadInv, MailHeld, DatesHeld

\* Messages are marked as read, or unread.
LEMMA HandleSeenHolds ==
  ASSUME ReadInv, NEW h \in Readers, Reading!HandleSeen(h)
  PROVE  ReadInv'
<1>1. PICK v : v = (acts[h].op = "read")
  OBVIOUS
<1>2. PICK targets : targets = Reading!Targets(h)
  OBVIOUS
<1>3. mail' = (mail \ targets) \cup {[m EXCEPT !.seen = v] : m \in targets}
  BY <1>1, <1>2, Zenon DEF Reading!HandleSeen
<1>4. targets \subseteq mail
  BY <1>2 DEF Reading!Targets
<1>5. \A m \in targets : Altered([m EXCEPT !.seen = v], m)
  BY <1>4 DEF ReadInv, MailHeld, Altered
<1>6. PICK seen : seen = [m \in targets |-> [m EXCEPT !.seen = v]]
  OBVIOUS
<1>7. (\A m \in targets : seen[m] = [m EXCEPT !.seen = v]) /\ DOMAIN seen = targets
  BY <1>6
<1>8. PICK new : new = {[m EXCEPT !.seen = v] : m \in targets}
  OBVIOUS
<1>9. \A n \in new : \E m \in targets : n = seen[m] /\ Altered(n, m)
  BY <1>5, <1>7, <1>8
<1>10. mail' = (mail \ targets) \cup new
  BY <1>3, <1>8
<1>11. IsFiniteSet(mail')
  <2>1. IsFiniteSet(targets) /\ IsFiniteSet(mail \ targets)
    BY <1>4, FS_Subset DEF ReadInv, MailHeld
  <2>2. \A m \in targets : seen[m] \in new
    BY <1>7, <1>8
  <2>3. seen \in [targets -> new]
    BY <1>6, <2>2, <1>7
  <2>4. seen \in Surjection(targets, new)
    BY <1>9, <2>3 DEF Surjection
  <2>5. IsFiniteSet(new)
    BY <2>1, <2>4, FS_Surjection
  <2>6. QED
    BY <1>10, <2>1, <2>5, FS_Union
<1>12. \A n \in mail' : \E m \in mail : Altered(n, m)
  BY <1>4, <1>9, <1>10 DEF Altered, ReadInv, MailHeld
<1>13. \A n, o \in mail' : n.id = o.id => n = o
  BY <1>4, <1>9, <1>10 DEF Altered, ReadInv, MailHeld
<1>14. mailMade' = mailMade /\ draftDates' = draftDates /\ Reading!Track /\ acts' = [acts EXCEPT ![h] = Reading!NoRequest]
  BY DEF Reading!HandleSeen, Reading!Finish
<1>15. /\ MailHeld'
       /\ \A q \in mail' : q.id > mailMade \/ \E o \in mail : q.id = o.id /\ q.conv = o.conv /\ q.date = o.date
  BY <1>11, <1>12, <1>13, <1>14, MailGoes DEF ReadInv
<1>16. DatesHeld' /\ ActsHeld'
  BY <1>14, ActEnds DEF ReadInv, DatesHeld
<1>17. QED
  BY <1>14, <1>15, <1>16, MailboxMoves

\* Outbox rows are deleted.
LEMMA DeleteOutgoingHolds ==
  ASSUME ReadInv, NEW h \in Readers, Reading!DeleteOutgoing(h)
  PROVE  ReadInv'
<1>1. mail' \subseteq mail
  BY DEF Reading!DeleteOutgoing
<1>2. mailMade' = mailMade /\ draftDates' = draftDates /\ Reading!Track
  BY DEF Reading!DeleteOutgoing
<1>3. \/ acts' = [acts EXCEPT ![h] = Reading!NoRequest]
      \/ acts' = [acts EXCEPT ![h] = [@ EXCEPT !.step = "move"]]
  BY DEF Reading!DeleteOutgoing
<1>4. ActsHeld'
  BY <1>3, ActEnds, ActSteps DEF ReadInv
<1>5. /\ MailHeld'
      /\ \A q \in mail' : q.id > mailMade \/ \E o \in mail : q.id = o.id /\ q.conv = o.conv /\ q.date = o.date
  BY <1>1, <1>2, MailShrinks DEF ReadInv
<1>6. DatesHeld'
  BY <1>2 DEF ReadInv, DatesHeld
<1>7. QED
  BY <1>2, <1>4, <1>5, <1>6, MailboxMoves

\* Moves are queued.
LEMMA QueueMovesHolds ==
  ASSUME ReadInv, NEW h \in Readers, Reading!QueueMoves(h)
  PROVE  ReadInv'
<1>1. mail' \subseteq mail
  BY DEF Reading!QueueMoves
<1>2. mailMade' = mailMade /\ draftDates' = draftDates /\ Reading!Track
  BY DEF Reading!QueueMoves
<1>3. \/ acts' = [acts EXCEPT ![h] = Reading!NoRequest]
      \/ acts' = [acts EXCEPT ![h] = [@ EXCEPT !.step = "drafts"]]
  BY DEF Reading!QueueMoves
<1>4. ActsHeld'
  BY <1>3, ActEnds, ActSteps DEF ReadInv
<1>5. /\ MailHeld'
      /\ \A q \in mail' : q.id > mailMade \/ \E o \in mail : q.id = o.id /\ q.conv = o.conv /\ q.date = o.date
  BY <1>1, <1>2, MailShrinks DEF ReadInv
<1>6. DatesHeld'
  BY <1>2 DEF ReadInv, DatesHeld
<1>7. QED
  BY <1>2, <1>4, <1>5, <1>6, MailboxMoves

\* Drafts go with a conversation, or begin one.
LEMMA HandlersOfDraftsHold ==
  ASSUME ReadInv, NEW h \in Readers, Reading!DeleteDrafts(h) \/ Reading!HandleStartConversation(h)
  PROVE  ReadInv'
<1>1. PICK d \in Dates \cup {0} : draftDates' = [draftDates EXCEPT ![acts[h].conv] = d]
  BY DEF Reading!DeleteDrafts, Reading!HandleStartConversation
<1>2. mail' = mail /\ mailMade' = mailMade /\ Reading!Track /\ acts' = [acts EXCEPT ![h] = Reading!NoRequest]
  BY DEF Reading!DeleteDrafts, Reading!HandleStartConversation, Reading!Finish
<1>3. /\ MailHeld'
      /\ \A q \in mail' : q.id > mailMade \/ \E o \in mail : q.id = o.id /\ q.conv = o.conv /\ q.date = o.date
  BY <1>2, MailShrinks DEF ReadInv
<1>4. DatesHeld'
  BY <1>1, DatesGo DEF ReadInv
<1>5. ActsHeld'
  BY <1>2, ActEnds DEF ReadInv
<1>6. QED
  BY <1>2, <1>3, <1>4, <1>5, MailboxMoves

\* Rows are ordered: the latest first, then by their ids.
LEMMA RowsAreOrdered ==
  /\ \A p \in Pairs : Reading!BeforeOrAtCursor(p, p)
  /\ \A p, q, r \in Pairs : Reading!BeforeOrAtCursor(p, q) /\ Reading!BeforeOrAtCursor(q, r)
                              => Reading!BeforeOrAtCursor(p, r)
  /\ \A p, q \in Pairs : Reading!BeforeOrAtCursor(p, q) \/ Reading!BeforeOrAtCursor(q, p)
  /\ \A p, q \in Pairs : Reading!BeforeOrAtCursor(p, q) /\ Reading!BeforeOrAtCursor(q, p) => p[2] = q[2]
BY DEF Pairs, Reading!BeforeOrAtCursor

\* The row of a is at or before the row of b.
Ahead(a, b) == Reading!BeforeOrAtCursor(Reading!Row(a), Reading!Row(b))

\* The order of the rows of conversations.
LEMMA RowsOrder ==
  ASSUME MailHeld, DatesHeld
  PROVE  /\ \A a \in Convs : Ahead(a, a)
         /\ \A a, b, c \in Convs : Ahead(a, b) /\ Ahead(b, c) => Ahead(a, c)
         /\ \A a, b \in Convs : Ahead(a, b) \/ Ahead(b, a)
         /\ \A a, b \in Convs : Ahead(a, b) /\ Ahead(b, a) => a = b
<1>1. \A c \in Convs : Reading!Row(c) \in Pairs /\ Reading!Row(c)[2] = c
  BY RowsAreListed
<1>2. \A a \in Convs : Ahead(a, a)
  BY <1>1, RowsAreOrdered DEF Ahead
<1>3. ASSUME NEW a \in Convs, NEW b \in Convs, NEW c \in Convs, Ahead(a, b), Ahead(b, c)
      PROVE  Ahead(a, c)
  BY <1>1, <1>3, RowsAreOrdered DEF Ahead
<1>4. \A a, b \in Convs : Ahead(a, b) \/ Ahead(b, a)
  BY <1>1, RowsAreOrdered DEF Ahead
<1>5. ASSUME NEW a \in Convs, NEW b \in Convs, Ahead(a, b), Ahead(b, a)
      PROVE  a = b
  <2>1. Reading!Row(a)[2] = Reading!Row(b)[2]
    BY <1>1, <1>5, RowsAreOrdered DEF Ahead
  <2>2. QED
    BY <1>1, <2>1
<1>6. QED
  BY <1>2, <1>3, <1>4, <1>5

\* There is a first row.
LEMMA FirstRow ==
  ASSUME MailHeld, DatesHeld, NEW S, S \subseteq Convs, IsFiniteSet(S), S # {}
  PROVE  \E a \in S : \A b \in S : Ahead(a, b)
<1> DEFINE R == {ab \in S \X S : Ahead(ab[1], ab[2]) /\ ab[1] # ab[2]}
<1>1. \A a, b \in S : <<a, b>> \in R <=> Ahead(a, b) /\ a # b
  OBVIOUS
<1>2. \A a \in S : <<a, a>> \notin R
  BY <1>1
<1> HIDE DEF R
<1>3. ASSUME NEW a \in S, NEW b \in S, NEW c \in S, <<a, b>> \in R, <<b, c>> \in R
      PROVE  <<a, c>> \in R
  <2>1. Ahead(a, b) /\ Ahead(b, c) /\ a # b /\ b # c /\ a \in Convs /\ b \in Convs /\ c \in Convs
    BY <1>1, <1>3
  <2>2. Ahead(a, c) /\ (a = c => a = b)
    BY <2>1, RowsOrder
  <2>3. QED
    BY <1>1, <2>1, <2>2
<1>4. PICK a \in S : \A b \in S : <<b, a>> \notin R
  BY <1>2, <1>3, LeastOf
<1>5. ASSUME NEW b \in S
      PROVE  Ahead(a, b)
  <2>1. a \in Convs /\ b \in Convs /\ (Ahead(b, a) => a = b)
    BY <1>1, <1>4
  <2>2. QED
    BY <2>1, RowsOrder
<1>6. QED
  BY <1>5

\* There is a last row.
LEMMA LastRow ==
  ASSUME MailHeld, DatesHeld, NEW S, S \subseteq Convs, IsFiniteSet(S), S # {}
  PROVE  \E a \in S : \A b \in S : Ahead(b, a)
<1> DEFINE R == {ab \in S \X S : Ahead(ab[2], ab[1]) /\ ab[1] # ab[2]}
<1>1. \A a, b \in S : <<a, b>> \in R <=> Ahead(b, a) /\ a # b
  OBVIOUS
<1>2. \A a \in S : <<a, a>> \notin R
  BY <1>1
<1> HIDE DEF R
<1>3. ASSUME NEW a \in S, NEW b \in S, NEW c \in S, <<a, b>> \in R, <<b, c>> \in R
      PROVE  <<a, c>> \in R
  <2>1. Ahead(b, a) /\ Ahead(c, b) /\ a # b /\ b # c /\ a \in Convs /\ b \in Convs /\ c \in Convs
    BY <1>1, <1>3
  <2>2. Ahead(c, a) /\ (a = c => a = b)
    BY <2>1, RowsOrder
  <2>3. QED
    BY <1>1, <2>1, <2>2
<1>4. PICK a \in S : \A b \in S : <<b, a>> \notin R
  BY <1>2, <1>3, LeastOf
<1>5. ASSUME NEW b \in S
      PROVE  Ahead(b, a)
  <2>1. a \in Convs /\ b \in Convs /\ (Ahead(a, b) => a = b)
    BY <1>1, <1>4
  <2>2. QED
    BY <2>1, RowsOrder
<1>6. QED
  BY <1>5

\* A page is the first rows of the rest.
LEMMA PageIs ==
  ASSUME MailHeld, DatesHeld
  PROVE  /\ Reading!Page \subseteq Reading!Rest /\ Reading!Rest \subseteq Reading!Listed
         /\ IsFiniteSet(Reading!Page)
         /\ Reading!Page = {} => Reading!Rest = {}
         /\ \A a \in Reading!Rest \ Reading!Page, b \in Reading!Page : Ahead(b, a)
<1> DEFINE S == Reading!Rest
           ahead(a) == {b \in S \ {a} : Ahead(b, a)}
<1>1. S \subseteq Reading!Listed
  BY DEF Reading!Rest
<1>2. IsFiniteSet(S) /\ S \subseteq Convs
  BY <1>1, RowsAreListed, FS_Subset
<1>3. /\ Reading!Page \subseteq S
      /\ \A a \in S : a \in Reading!Page <=> Cardinality(ahead(a)) < PageSize
  BY SameCountOfReading DEF Reading!Page, Ahead
<1> HIDE DEF S
<1>4. \A a \in S : ahead(a) \in SUBSET S /\ IsFiniteSet(ahead(a)) /\ Cardinality(ahead(a)) \in Nat
  BY <1>2, FS_Subset, FS_CardinalityType
<1>5. PageSize \in Nat \ {0}
  BY MailboxAssumption DEF Reading!ConversationsAssumption
<1>6. ASSUME S # {}
      PROVE  Reading!Page # {}
  <2>1. PICK a \in S : \A b \in S : Ahead(a, b)
    BY <1>2, <1>6, FirstRow
  <2>2. \A b \in S : Ahead(b, a) => b = a
    <3> SUFFICES ASSUME NEW b \in S, Ahead(b, a) PROVE b = a
      OBVIOUS
    <3>1. Ahead(a, b) /\ a \in Convs /\ b \in Convs
      BY <1>2, <2>1
    <3>2. QED
      BY <3>1, RowsOrder
  <2>3. ahead(a) = {}
    BY <2>2
  <2>4. Cardinality(ahead(a)) = 0
    BY <2>3, FS_EmptySet
  <2>5. QED
    BY <1>3, <1>5, <2>4
<1>7. ASSUME NEW a \in S \ Reading!Page, NEW b \in Reading!Page
      PROVE  Ahead(b, a)
  <2>1. b \in S /\ b # a /\ a \in Convs /\ b \in Convs
    BY <1>2, <1>3, <1>7
  <2>2. SUFFICES ASSUME ~Ahead(b, a) PROVE FALSE
    OBVIOUS
  <2>3. Ahead(a, b)
    BY <2>1, <2>2, RowsOrder
  <2>4. ASSUME NEW c \in ahead(a)
        PROVE  c \in ahead(b)
    <3>1. c \in S /\ c # a /\ Ahead(c, a) /\ c \in Convs
      BY <1>2
    <3>2. Ahead(c, b)
      BY <2>1, <2>3, <3>1, RowsOrder
    <3>3. c # b
      BY <2>2, <3>1
    <3>4. QED
      BY <3>1, <3>2, <3>3
  <2>5. ahead(a) \in SUBSET ahead(b)
    BY <2>4
  <2> HIDE DEF ahead
  <2>6. Cardinality(ahead(a)) <= Cardinality(ahead(b))
    BY <1>4, <2>1, <2>5, FS_Subset
  <2>7. QED
    BY <1>3, <1>4, <1>5, <2>1, <2>6
<1>8. QED
  BY <1>1, <1>2, <1>3, <1>6, <1>7, FS_Subset DEF S

\* The walk begins, and ends.
LEMMA StartWalkHolds ==
  ASSUME ReadInv, Reading!StartWalk
  PROVE  ReadInv'
<1>1. walk' = [at |-> "start", cursor |-> <<0, 0>>, got |-> [c \in Convs |-> 0], kept |-> Reading!Listed]
  BY DEF Reading!StartWalk, Reading!NoWalk
<1>2. UNCHANGED <<mail, draftDates, acts, window, mailMade>>
  BY DEF Reading!StartWalk
<1>3. Reading!Listed' = Reading!Listed
  BY <1>2 DEF Reading!Listed, Reading!MessagesOf
<1>4. PICK got : got = [c \in Convs |-> 0]
  OBVIOUS
<1>5. got \in [Convs -> Nat] /\ \A c \in Convs : got[c] = 0
  BY <1>4
<1>6. walk' = [at |-> "start", cursor |-> <<0, 0>>, got |-> got, kept |-> Reading!Listed]
  BY <1>1, <1>4
<1>7. Reading!Listed \subseteq Convs
  BY DEF Reading!Listed
<1>8. WalkHeld'
  BY <1>3, <1>5, <1>6, <1>7 DEF WalkHeld, Pairs
<1>9. QED
  BY <1>2, <1>8, WindowRests DEF ReadInv, MailHeld, DatesHeld, ActsHeld

\* The walk ends.
LEMMA EndWalkHolds ==
  ASSUME ReadInv, Reading!EndWalk
  PROVE  ReadInv'
<1>1. UNCHANGED <<mail, draftDates, acts, window, mailMade>>
  BY DEF Reading!EndWalk
<1>2. PICK got : got = [c \in Convs |-> 0]
  OBVIOUS
<1>3. got \in [Convs -> Nat]
  BY <1>2
<1>4. walk' = [at |-> "none", cursor |-> <<0, 0>>, got |-> got, kept |-> {}]
  BY <1>2 DEF Reading!EndWalk, Reading!NoWalk
<1>5. WalkHeld'
  BY <1>3, <1>4 DEF WalkHeld, Pairs
<1>6. QED
  BY <1>1, <1>5, WindowRests DEF ReadInv, MailHeld, DatesHeld, ActsHeld

\* What a page makes of the walk.
TurnedTo == IF Reading!Page = Reading!Rest THEN "done" ELSE "more"
CursorAt == IF Reading!Page = {} THEN walk.cursor
            ELSE Reading!Row(CHOOSE c \in Reading!Page :
                   \A d \in Reading!Page : Reading!BeforeOrAtCursor(Reading!Row(d), Reading!Row(c)))
Counted == [c \in Convs |-> IF c \in Reading!Page THEN Reading!Min({2, walk.got[c] + 1}) ELSE walk.got[c]]

\* A page is read: what stayed is passed when it was, or is on the page.
LEMMA NextPageHolds ==
  ASSUME ReadInv, Reading!NextPage
  PROVE  ReadInv'
<1>0. MailHeld /\ DatesHeld /\ WalkHeld
  BY DEF ReadInv
<1>1. UNCHANGED <<mail, draftDates, acts, window, mailMade>> /\ walk.at \in {"start", "more"}
  BY DEF Reading!NextPage
<1>2. PICK read, rest : read = Reading!Page /\ rest = Reading!Rest
  OBVIOUS
<1>3. PICK step : step = TurnedTo
  OBVIOUS
<1>4. PICK cursor : cursor = CursorAt
  OBVIOUS
<1>5. PICK got : got = Counted
  OBVIOUS
<1>6. walk' = [walk EXCEPT !.at = step, !.cursor = cursor, !.got = got]
  <2>1. walk' = [walk EXCEPT !.at = TurnedTo, !.cursor = CursorAt, !.got = Counted]
    BY DEF Reading!NextPage, TurnedTo, CursorAt, Counted
  <2>2. QED
    BY <1>3, <1>4, <1>5, <2>1
<1>7. walk' = [at |-> step, cursor |-> cursor, got |-> got, kept |-> walk.kept]
  BY <1>0, <1>6 DEF WalkHeld
<1>8. /\ read \subseteq rest /\ rest \subseteq Reading!Listed /\ IsFiniteSet(read) /\ (read = {} => rest = {})
      /\ \A a \in rest \ read, b \in read : Ahead(b, a)
  BY <1>0, <1>2, PageIs
<1>9. Reading!Listed \subseteq Convs /\ \A c \in Convs : Reading!Row(c) \in Pairs
  BY <1>0, RowsAreListed
<1>10. \A n \in Nat : Reading!Min({2, n + 1}) \in Nat /\ (n = 0 => Reading!Min({2, n + 1}) = 1)
  <2> SUFFICES ASSUME NEW n \in Nat
               PROVE  Reading!Min({2, n + 1}) \in Nat /\ (n = 0 => Reading!Min({2, n + 1}) = 1)
    OBVIOUS
  <2>1. \E x \in {2, n + 1} : \A y \in {2, n + 1} : x <= y
    OBVIOUS
  <2>2. Reading!Min({2, n + 1}) \in {2, n + 1} /\ \A y \in {2, n + 1} : Reading!Min({2, n + 1}) <= y
    BY <2>1 DEF Reading!Min
  <2>3. QED
    BY <2>2
<1>11. walk.got \in [Convs -> Nat] /\ walk.cursor \in Pairs /\ walk.kept \subseteq Reading!Listed
  BY <1>0 DEF WalkHeld
<1>12. \A c \in Convs : /\ c \in read => got[c] = Reading!Min({2, walk.got[c] + 1})
                        /\ c \notin read => got[c] = walk.got[c]
  BY <1>2, <1>5 DEF Counted
<1>13. got \in [Convs -> Nat]
  <2>1. \A c \in Convs : got[c] \in Nat
    BY <1>10, <1>11, <1>12
  <2>2. QED
    BY <1>5, <2>1 DEF Counted
<1>14. \A c \in Convs : c \in rest => c \in Reading!Listed /\ (walk.at = "more" => ~Passed(c))
  BY <1>2, <1>8 DEF Reading!Rest, Passed
<1>15. \A c \in Reading!Listed : c \notin rest => walk.at = "more" /\ Passed(c)
  BY <1>1, <1>2 DEF Reading!Rest, Passed
<1>16. \A c \in walk.kept : /\ c \in rest => walk.got[c] = 0
                            /\ c \notin rest => walk.at = "more" /\ Passed(c) /\ walk.got[c] = 1
  BY <1>0, <1>1, <1>9, <1>11, <1>14, <1>15 DEF WalkHeld
<1>17. \A c \in walk.kept : /\ c \in read => got[c] = 1
                            /\ c \in rest \ read => got[c] = 0
                            /\ c \notin rest => got[c] = 1
  <2> SUFFICES ASSUME NEW c \in walk.kept
               PROVE  /\ c \in read => got[c] = 1
                      /\ c \in rest \ read => got[c] = 0
                      /\ c \notin rest => got[c] = 1
    OBVIOUS
  <2>1. c \in Convs /\ walk.got[c] \in Nat
    BY <1>9, <1>11
  <2>2. (c \in rest => walk.got[c] = 0) /\ (c \notin rest => walk.got[c] = 1)
    BY <1>16
  <2>3. (c \in read => got[c] = Reading!Min({2, walk.got[c] + 1})) /\ (c \notin read => got[c] = walk.got[c])
    BY <1>12, <2>1
  <2>4. walk.got[c] = 0 => Reading!Min({2, walk.got[c] + 1}) = 1
    BY <1>10, <2>1
  <2>5. QED
    BY <1>8, <2>2, <2>3, <2>4
<1>18. Reading!Listed' = Reading!Listed /\ \A c : Reading!Row(c)' = Reading!Row(c)
  BY <1>1 DEF Reading!Listed, Reading!Row, Reading!Latest, Reading!MessagesOf
<1>19. walk'.at = step /\ walk'.cursor = cursor /\ walk'.got = got /\ walk'.kept = walk.kept
  BY <1>7
<1>20. \A c : Passed(c)' <=> Reading!BeforeOrAtCursor(Reading!Row(c), cursor)
  BY <1>18, <1>19 DEF Passed
<1>21. CASE read = {}
  <2>1. step = "done" /\ rest = {} /\ cursor = walk.cursor
    BY <1>2, <1>3, <1>4, <1>8, <1>21 DEF TurnedTo, CursorAt
  <2>2. \A c \in walk.kept : got[c] = 1
    BY <1>17, <2>1
  <2>3. WalkHeld'
    BY <1>7, <1>11, <1>13, <1>18, <1>19, <2>1, <2>2 DEF WalkHeld
  <2>4. QED
    BY <1>1, <2>3, WindowRests DEF ReadInv, MailHeld, DatesHeld, ActsHeld
<1>22. CASE read # {}
  <2>1. \E c \in read : \A d \in read : Ahead(d, c)
    BY <1>0, <1>8, <1>9, <1>22, LastRow
  <2>2. PICK l \in read : (\A d \in read : Ahead(d, l)) /\ cursor = Reading!Row(l)
    BY <1>2, <1>4, <1>22, <2>1 DEF Ahead, CursorAt
  <2>4. cursor = Reading!Row(l) /\ l \in rest /\ l \in Convs /\ cursor \in Pairs
    BY <1>8, <1>9, <2>2
  <2>5. \A c \in Convs : Passed(c)' <=> Ahead(c, l)
    BY <1>20, <2>4 DEF Ahead
  <2>6. \A c \in rest \ read : ~Ahead(c, l)
    <3> SUFFICES ASSUME NEW c \in rest \ read, Ahead(c, l) PROVE FALSE
      OBVIOUS
    <3>1. Ahead(l, c) /\ c \in Convs
      BY <1>8, <1>9, <2>2
    <3>2. c = l
      BY <1>0, <2>4, <3>1, RowsOrder
    <3>3. QED
      BY <2>2, <3>2
  <2>7. ASSUME NEW c \in walk.kept, c \notin rest
        PROVE  Ahead(c, l)
    <3>1. walk.at = "more" /\ Passed(c) /\ c \in Convs
      BY <1>9, <1>11, <1>16, <2>7
    <3>2. ~Passed(l)
      BY <1>14, <2>4, <3>1
    <3>3. Reading!BeforeOrAtCursor(walk.cursor, Reading!Row(l))
      BY <1>11, <2>4, <3>2, RowsAreOrdered DEF Passed
    <3>4. Reading!BeforeOrAtCursor(Reading!Row(c), walk.cursor) /\ Reading!Row(c) \in Pairs
      BY <1>9, <3>1 DEF Passed
    <3>5. QED
      BY <1>11, <2>4, <3>3, <3>4, RowsAreOrdered DEF Ahead
  <2>8. \A c \in walk.kept : (Ahead(c, l) => got[c] = 1) /\ (~Ahead(c, l) => got[c] = 0)
    BY <1>17, <2>2, <2>6, <2>7
  <2>9. \A c \in walk.kept : c \in Convs
    BY <1>9, <1>11
  <2>10. step = "done" => \A c \in walk.kept : got[c] = 1
    BY <1>2, <1>3, <1>17 DEF TurnedTo
  <2>11. step \in {"more", "done"}
    BY <1>3 DEF TurnedTo
  <2>12. \A c \in walk.kept : (Passed(c)' => got[c] = 1) /\ (~Passed(c)' => got[c] = 0)
    BY <2>5, <2>8, <2>9
  <2>13. WalkHeld'
    BY <1>7, <1>11, <1>13, <1>18, <1>19, <2>4, <2>10, <2>11, <2>12 DEF WalkHeld
  <2>14. QED
    BY <1>1, <2>13, WindowRests DEF ReadInv, MailHeld, DatesHeld, ActsHeld
<1>23. QED
  BY <1>21, <1>22

\* What a page makes of a window.
LowOf(w, read) == IF w.got \cup read = {} THEN w.oldest ELSE Reading!Lowest(w.got \cup read)
HighOf(w, read) == IF w.got \cup read = {} THEN w.newest ELSE Reading!Highest(w.got \cup read)
MoreOf(w, read) == \E p \in Reading!Places(w.conv) : Reading!Before(p, LowOf(w, read))
NewerOf(w, read) == \E p \in Reading!Places(w.conv) : Reading!Before(HighOf(w, read), p)
Form(w) ==
  w = [conv |-> w.conv, refresh |-> w.refresh, oldest |-> w.oldest, newest |-> w.newest,
       got |-> w.got, kept |-> w.kept, more |-> w.more, newer |-> w.newer]

\* The record form of a window with a page.
LEMMA ExtendedIs ==
  ASSUME NEW w, NEW read, Form(w)
  PROVE  /\ Form(Reading!Extended(w, read))
         /\ Reading!Extended(w, read).conv = w.conv /\ Reading!Extended(w, read).refresh = w.refresh
         /\ Reading!Extended(w, read).kept = w.kept /\ Reading!Extended(w, read).got = w.got \cup read
         /\ Reading!Extended(w, read).oldest = LowOf(w, read) /\ Reading!Extended(w, read).newest = HighOf(w, read)
         /\ Reading!Extended(w, read).more = MoreOf(w, read) /\ Reading!Extended(w, read).newer = NewerOf(w, read)
<1>1. Reading!Extended(w, read) =
        [w EXCEPT !.got = w.got \cup read, !.oldest = LowOf(w, read), !.newest = HighOf(w, read),
           !.more = MoreOf(w, read), !.newer = NewerOf(w, read)]
  BY DEF Reading!Extended, LowOf, HighOf, MoreOf, NewerOf
<1>2. PICK more : more = MoreOf(w, read)
  OBVIOUS
<1>3. PICK newer : newer = NewerOf(w, read)
  OBVIOUS
<1>4. Reading!Extended(w, read) =
        [w EXCEPT !.got = w.got \cup read, !.oldest = LowOf(w, read), !.newest = HighOf(w, read),
           !.more = more, !.newer = newer]
  BY <1>1, <1>2, <1>3, Zenon
<1>5. PICK e : e = Reading!Extended(w, read)
  OBVIOUS
<1>6. e = [conv |-> w.conv, refresh |-> w.refresh, oldest |-> LowOf(w, read), newest |-> HighOf(w, read),
           got |-> w.got \cup read, kept |-> w.kept, more |-> more, newer |-> newer]
  BY <1>4, <1>5 DEF Form
<1>7. /\ e.conv = w.conv /\ e.refresh = w.refresh /\ e.kept = w.kept /\ e.got = w.got \cup read
      /\ e.oldest = LowOf(w, read) /\ e.newest = HighOf(w, read) /\ e.more = more /\ e.newer = newer /\ Form(e)
  BY <1>6 DEF Form
<1>8. QED
  BY <1>2, <1>3, <1>5, <1>7, Zenon

\* The ends of what a window has with a page.
LEMMA EndsOf ==
  ASSUME NEW w, NEW read, w.got \subseteq Pairs, IsFiniteSet(w.got), w.oldest \in Pairs, w.newest \in Pairs,
         ~Reading!Before(w.newest, w.oldest), read \subseteq Pairs, IsFiniteSet(read)
  PROVE  /\ w.got \cup read \subseteq Pairs /\ IsFiniteSet(w.got \cup read)
         /\ LowOf(w, read) \in Pairs /\ HighOf(w, read) \in Pairs
         /\ w.got \cup read = {} => LowOf(w, read) = w.oldest /\ HighOf(w, read) = w.newest
         /\ w.got \cup read # {} => LowOf(w, read) \in w.got \cup read /\ HighOf(w, read) \in w.got \cup read
         /\ \A q \in w.got \cup read :
              ~Reading!Before(q, LowOf(w, read)) /\ ~Reading!Before(HighOf(w, read), q)
         /\ ~Reading!Before(HighOf(w, read), LowOf(w, read))
<1>1. PICK got : got = w.got \cup read
  OBVIOUS
<1>2. got \subseteq Pairs /\ IsFiniteSet(got)
  BY <1>1, FS_Union
<1>3. CASE got = {}
  BY <1>1, <1>2, <1>3 DEF LowOf, HighOf
<1>4. CASE got # {}
  <2>1. PICK low : low = Reading!Lowest(got)
    OBVIOUS
  <2>2. PICK high : high = Reading!Highest(got)
    OBVIOUS
  <2>3. /\ low \in got /\ \A q \in got : q = low \/ Reading!Before(low, q)
        /\ high \in got /\ \A q \in got : q = high \/ Reading!Before(q, high)
    BY <1>2, <1>4, <2>1, <2>2, LowestIs, HighestIs
  <2>4. \A q \in got : ~Reading!Before(q, low)
    <3> SUFFICES ASSUME NEW q \in got, Reading!Before(q, low) PROVE FALSE
      OBVIOUS
    <3>1. q \in Pairs /\ low \in Pairs /\ (q = low \/ Reading!Before(low, q))
      BY <1>2, <2>3
    <3>2. QED
      BY <3>1 DEF Pairs, Reading!Before
  <2>5. \A q \in got : ~Reading!Before(high, q)
    <3> SUFFICES ASSUME NEW q \in got, Reading!Before(high, q) PROVE FALSE
      OBVIOUS
    <3>1. q \in Pairs /\ high \in Pairs /\ (q = high \/ Reading!Before(q, high))
      BY <1>2, <2>3
    <3>2. QED
      BY <3>1 DEF Pairs, Reading!Before
  <2>6. LowOf(w, read) = low /\ HighOf(w, read) = high
    BY <1>1, <1>4, <2>1, <2>2 DEF LowOf, HighOf
  <2>7. low \in Pairs /\ high \in Pairs
    BY <1>2, <2>3
  <2>8. QED
    BY <1>1, <1>2, <1>4, <2>3, <2>4, <2>5, <2>6, <2>7
<1>5. QED
  BY <1>3, <1>4

\* Places of a conversation that are not shown lie on a side where there is more.
LEMMA BeforeIsAnOrder ==
  /\ \A p, q, r \in Pairs : Reading!Before(p, q) /\ ~Reading!Before(r, q) => Reading!Before(p, r)
  /\ \A p, q, r \in Pairs : ~Reading!Before(q, p) /\ Reading!Before(q, r) => Reading!Before(p, r)
  /\ \A p, q \in Pairs : Reading!Before(p, q) => ~Reading!Before(q, p) /\ p # q
BY DEF Pairs, Reading!Before

\* A conversation is opened: what is not on its page lies on a side where there is more.
LEMMA OpenConversationHolds ==
  ASSUME ReadInv, NEW c \in Convs, Reading!OpenConversation(c)
  PROVE  ReadInv'
<1>1. PICK read \in {Reading!LastOf(Reading!Places(c))} \cup {{p} : p \in Reading!Places(c)} :
        window' = Reading!Extended([Reading!NoWindow EXCEPT !.conv = c, !.kept = Reading!Places(c)], read)
  BY DEF Reading!OpenConversation
<1>2. UNCHANGED <<mail, draftDates, acts, walk, mailMade>> /\ Reading!MessagesOf(c) # {}
  BY DEF Reading!OpenConversation
<1>3. PICK places : places = Reading!Places(c)
  OBVIOUS
<1>4. places \subseteq Pairs /\ IsFiniteSet(places) /\ places # {}
  BY <1>2, <1>3, PlacesHeld DEF ReadInv, Reading!Places
<1>5. PICK w : w = [Reading!NoWindow EXCEPT !.conv = c, !.kept = places]
  OBVIOUS
<1>6. /\ Form(w) /\ w.conv = c /\ w.kept = places /\ w.got = {} /\ w.oldest = <<0, 0>> /\ w.newest = <<0, 0>>
      /\ w.refresh = Reading!NoRefresh
  BY <1>5 DEF Form, Reading!NoWindow
<1>7. window' = Reading!Extended(w, read)
  BY <1>1, <1>3, <1>5
<1>8. /\ Form(window') /\ window'.conv = c /\ window'.refresh = Reading!NoRefresh /\ window'.kept = places
      /\ window'.got = w.got \cup read /\ window'.oldest = LowOf(w, read) /\ window'.newest = HighOf(w, read)
      /\ window'.more = MoreOf(w, read) /\ window'.newer = NewerOf(w, read)
  BY <1>6, <1>7, ExtendedIs, Zenon
<1>9. /\ read \subseteq places /\ read # {}
      /\ \A p \in places \ read, q \in read : Reading!Before(p, q) \/ read = {q}
  <2>1. CASE read = Reading!LastOf(places)
    BY <1>4, <2>1, LastOfIs
  <2>2. CASE \E p \in places : read = {p}
    BY <2>2
  <2>3. QED
    BY <1>1, <1>3, <2>1, <2>2
<1>10. read \subseteq Pairs /\ IsFiniteSet(read)
  BY <1>4, <1>9, FS_Subset
<1>11. <<0, 0>> \in Pairs /\ ~Reading!Before(<<0, 0>>, <<0, 0>>) /\ IsFiniteSet(w.got)
  BY <1>6, FS_EmptySet DEF Pairs, Reading!Before
<1>12. PICK low, high : low = LowOf(w, read) /\ high = HighOf(w, read)
  OBVIOUS
<1>13. /\ w.got \cup read = read
       /\ low \in Pairs /\ high \in Pairs /\ low \in read /\ high \in read /\ ~Reading!Before(high, low)
       /\ \A q \in read : ~Reading!Before(q, low) /\ ~Reading!Before(high, q)
  BY <1>6, <1>9, <1>10, <1>11, <1>12, EndsOf
<1>14. window'.got = read /\ window'.oldest = low /\ window'.newest = high
  BY <1>8, <1>12, <1>13
<1>15. Spans(window)'
  BY <1>10, <1>13, <1>14 DEF Spans
<1>16. \A p \in places : (Reading!Before(p, low) => window'.more) /\ (Reading!Before(high, p) => window'.newer)
  BY <1>3, <1>6, <1>8, <1>12 DEF MoreOf, NewerOf
<1>17. \A p \in places : p \in read \/ Reading!Before(p, low) \/ Reading!Before(high, p)
  <2> SUFFICES ASSUME NEW p \in places, p \notin read
               PROVE  Reading!Before(p, low) \/ Reading!Before(high, p)
    OBVIOUS
  <2>1. CASE read = {low}
    <3>1. p \in Pairs /\ p # low /\ high = low
      BY <1>4, <1>13, <2>1
    <3>2. QED
      BY <1>13, <3>1, PlacesAreOrdered
  <2>2. CASE read # {low}
    BY <1>9, <1>13, <2>2
  <2>3. QED
    BY <2>1, <2>2
<1>18. Covers(window, window.kept)'
  BY <1>8, <1>14, <1>16, <1>17 DEF Covers
<1>19. Reading!Places(c)' = Reading!Places(c)
  BY <1>2 DEF Reading!Places, Reading!MessagesOf
<1>20. WindowHeld'
  BY <1>3, <1>8, <1>15, <1>18, <1>19 DEF WindowHeld, WindowShape, Form, Reading!NoRefresh
<1>21. QED
  BY <1>2, <1>20, WalkRests DEF ReadInv, MailHeld, DatesHeld, ActsHeld

\* The window of an open conversation changes.
LEMMA WindowTurns ==
  ASSUME ReadInv, window.conv # 0, UNCHANGED <<mail, draftDates, acts, walk, mailMade>>,
         Form(window'), window'.conv = window.conv, window'.kept = window.kept,
         Spans(window)', Covers(window, window.kept)',
         window'.refresh # Reading!NoRefresh => Held(window.refresh)'
  PROVE  ReadInv'
<1>1. Reading!Places(window.conv)' = Reading!Places(window.conv)
  BY DEF Reading!Places, Reading!MessagesOf
<1>2. window.kept \subseteq Reading!Places(window.conv) /\ window.conv \in Convs
  BY DEF ReadInv, WindowHeld
<1>3. WindowHeld'
  BY <1>1, <1>2 DEF WindowHeld, WindowShape, Form, Reading!NoRefresh
<1>4. QED
  BY <1>3, WalkRests DEF ReadInv, MailHeld, DatesHeld, ActsHeld

\* An older page: what it leaves out lies before it.
LEMMA LoadOlderHolds ==
  ASSUME ReadInv, Reading!LoadOlder
  PROVE  ReadInv'
<1>1. UNCHANGED <<mail, draftDates, acts, walk, mailMade>> /\ window.conv # 0
  BY DEF Reading!LoadOlder
<1>2. PICK places, side, read :
        places = Reading!Places(window.conv) /\ side = Reading!Older /\ read = Reading!LastOf(side)
  OBVIOUS
<1>3. PICK e : e = Reading!Extended(window, read)
  OBVIOUS
<1>4. PICK more : more = (side # {} /\ side # read)
  OBVIOUS
<1>5. window' = [e EXCEPT !.newer = window.newer, !.more = more]
  <2>1. window' = [Reading!Extended(window, Reading!LastOf(Reading!Older)) EXCEPT !.newer = window.newer,
                     !.more = Reading!Older # {} /\ Reading!Older # Reading!LastOf(Reading!Older)]
    BY DEF Reading!LoadOlder
  <2>2. (Reading!Older # {} /\ Reading!Older # Reading!LastOf(Reading!Older)) = more
    BY <1>2, <1>4, Zenon
  <2>3. Reading!Extended(window, Reading!LastOf(Reading!Older)) = e
    BY <1>2, <1>3
  <2>4. QED
    BY <2>1, <2>2, <2>3, Zenon
<1>6. /\ Form(window) /\ Spans(window) /\ Covers(window, window.kept) /\ window.kept \subseteq places
      /\ window.refresh # Reading!NoRefresh => Held(window.refresh)
  BY <1>1, <1>2 DEF ReadInv, WindowHeld, WindowShape, Form
<1>7. PICK low, high : low = LowOf(window, read) /\ high = HighOf(window, read)
  OBVIOUS
<1>8. /\ Form(e) /\ e.conv = window.conv /\ e.refresh = window.refresh /\ e.kept = window.kept
      /\ e.got = window.got \cup read /\ e.oldest = low /\ e.newest = high
  BY <1>3, <1>6, <1>7, ExtendedIs, Zenon
<1>9. /\ Form(window') /\ window'.conv = window.conv /\ window'.refresh = window.refresh
      /\ window'.kept = window.kept /\ window'.got = window.got \cup read /\ window'.oldest = low
      /\ window'.newest = high /\ window'.more = more /\ window'.newer = window.newer
  BY <1>5, <1>8 DEF Form
<1>10. places \subseteq Pairs /\ IsFiniteSet(places)
  BY <1>2, PlacesHeld DEF ReadInv
<1>11. \A p : p \in side <=> p \in places /\ Reading!Before(p, window.oldest)
  BY <1>2 DEF Reading!Older
<1>12. side \subseteq Pairs /\ IsFiniteSet(side)
  BY <1>10, <1>11, FS_Subset
<1>13. /\ read \subseteq side /\ (side # {} => read # {})
       /\ \A p \in side \ read, q \in read : Reading!Before(p, q)
  BY <1>2, <1>12, LastOfIs
<1>14. read \subseteq Pairs /\ IsFiniteSet(read)
  BY <1>12, <1>13, FS_Subset
<1>15. /\ window.got \subseteq Pairs /\ IsFiniteSet(window.got) /\ window.oldest \in Pairs /\ window.newest \in Pairs
       /\ ~Reading!Before(window.newest, window.oldest)
       /\ window.got # {} => window.oldest \in window.got /\ window.newest \in window.got
       /\ \A q \in window.got : ~Reading!Before(q, window.oldest) /\ ~Reading!Before(window.newest, q)
  BY <1>6 DEF Spans
<1>16. PICK got : got = window.got \cup read
  OBVIOUS
<1>17. /\ got \subseteq Pairs /\ IsFiniteSet(got) /\ low \in Pairs /\ high \in Pairs
       /\ got = {} => low = window.oldest /\ high = window.newest
       /\ got # {} => low \in got /\ high \in got
       /\ \A q \in got : ~Reading!Before(q, low) /\ ~Reading!Before(high, q)
       /\ ~Reading!Before(high, low)
  BY <1>7, <1>14, <1>15, <1>16, EndsOf
<1>18. Spans(window)'
  BY <1>9, <1>16, <1>17 DEF Spans
<1>19. \A q \in read : Reading!Before(q, window.oldest)
  BY <1>11, <1>13
<1>20. ~Reading!Before(window.newest, high)
  <2>1. CASE got = {}
    BY <1>15, <1>17, <2>1, PlacesAreOrdered
  <2>2. CASE high \in window.got
    BY <1>15, <2>2
  <2>3. CASE high \in read
    BY <1>15, <1>17, <1>19, <2>3, BeforeIsAnOrder
  <2>4. QED
    BY <1>16, <1>17, <2>1, <2>2, <2>3
<1>21. ASSUME NEW p \in side \ read
       PROVE  Reading!Before(p, low)
  <2>1. read # {} /\ p \in Pairs /\ Reading!Before(p, window.oldest) /\ got # {}
    BY <1>11, <1>12, <1>13, <1>16, <1>21
  <2>2. CASE low \in window.got
    BY <1>15, <1>17, <2>1, <2>2, BeforeIsAnOrder
  <2>3. CASE low \in read
    BY <1>13, <1>21, <2>3
  <2>4. QED
    BY <1>16, <1>17, <2>1, <2>2, <2>3
<1>22. Covers(window, window.kept)'
  <2> SUFFICES ASSUME NEW p \in window.kept
               PROVE  p \in got \/ (Reading!Before(p, low) /\ more) \/ (Reading!Before(high, p) /\ window.newer)
    BY <1>9, <1>16 DEF Covers
  <2>1. CASE p \in window.got
    BY <1>16, <2>1
  <2>2. CASE Reading!Before(p, window.oldest)
    <3>1. p \in side
      BY <1>6, <1>11, <2>2
    <3>2. CASE p \in read
      BY <1>16, <3>2
    <3>3. CASE p \notin read
      BY <1>4, <1>21, <3>1, <3>3
    <3>4. QED
      BY <3>2, <3>3
  <2>3. CASE Reading!Before(window.newest, p) /\ window.newer
    <3>1. p \in Pairs
      BY <1>6, <1>10
    <3>2. Reading!Before(high, p)
      BY <1>15, <1>17, <1>20, <2>3, <3>1, BeforeIsAnOrder
    <3>3. QED
      BY <2>3, <3>2
  <2>4. QED
    BY <1>6, <2>1, <2>2, <2>3 DEF Covers
<1>23. read # {} => Reading!Before(low, window.oldest)
  <2> SUFFICES ASSUME NEW q \in read PROVE Reading!Before(low, window.oldest)
    OBVIOUS
  <2>1. Reading!Before(q, window.oldest) /\ ~Reading!Before(q, low) /\ q \in Pairs
    BY <1>14, <1>16, <1>17, <1>19
  <2>2. QED
    BY <1>15, <1>17, <2>1 DEF Pairs, Reading!Before
<1>24. ASSUME window.refresh # Reading!NoRefresh
       PROVE  Held(window.refresh)'
  <2>1. Spans(window.refresh) /\ Covers(window.refresh, window.kept) /\ Fits(window.refresh)
    BY <1>6, <1>24 DEF Held
  <2>2. PICK r : r = window.refresh
    OBVIOUS
  <2>3. r.ends[1] \in Pairs /\ r.ends[2] \in Pairs
    BY <2>1, <2>2 DEF Fits
  <2>4. \/ low = r.ends[1] /\ high = r.ends[2] /\ (got \cap window.kept) \subseteq r.got
        \/ got # {} /\ (Reading!Before(low, r.ends[1]) \/ Reading!Before(r.ends[2], high))
    <3>1. CASE window.oldest = r.ends[1] /\ window.newest = r.ends[2] /\ (window.got \cap window.kept) \subseteq r.got
      <4>1. CASE read # {}
        BY <1>16, <1>23, <3>1, <4>1
      <4>2. CASE read = {}
        <5>1. got = window.got
          BY <1>16, <4>2
        <5>2. low = window.oldest /\ high = window.newest
          <6>1. CASE got = {}
            BY <1>17, <6>1
          <6>2. CASE got # {}
            <7>1. /\ window.oldest \in got /\ window.newest \in got /\ low \in got /\ high \in got
                  /\ ~Reading!Before(window.oldest, low) /\ ~Reading!Before(high, window.newest)
                  /\ ~Reading!Before(low, window.oldest) /\ ~Reading!Before(window.newest, high)
              BY <1>15, <1>17, <5>1, <6>2
            <7>2. QED
              BY <1>15, <1>17, <7>1, PlacesAreOrdered
          <6>3. QED
            BY <6>1, <6>2
        <5>3. QED
          BY <3>1, <5>1, <5>2
      <4>3. QED
        BY <4>1, <4>2
    <3>2. CASE window.got # {} /\ (Reading!Before(window.oldest, r.ends[1]) \/ Reading!Before(r.ends[2], window.newest))
      <4>1. /\ got # {} /\ window.oldest \in got /\ window.newest \in got
            /\ ~Reading!Before(window.oldest, low) /\ ~Reading!Before(high, window.newest)
        BY <1>15, <1>16, <1>17, <3>2
      <4>2. QED
        BY <1>15, <1>17, <2>3, <3>2, <4>1, BeforeIsAnOrder
    <3>3. QED
      BY <2>1, <2>2, <3>1, <3>2 DEF Fits
  <2>5. window'.refresh = r
    BY <1>9, <2>2
  <2>6. Fits(window.refresh)'
    BY <1>9, <1>16, <2>3, <2>4, <2>5 DEF Fits
  <2>7. Spans(window.refresh)' /\ Covers(window.refresh, window.kept)'
    BY <1>9, <2>1 DEF Spans, Covers
  <2>8. QED
    BY <2>6, <2>7 DEF Held
<1>25. QED
  BY <1>1, <1>9, <1>18, <1>22, <1>24, WindowTurns DEF Reading!NoRefresh

\* A newer page: what it leaves out lies after it.
LEMMA LoadNewerHolds ==
  ASSUME ReadInv, Reading!LoadNewer
  PROVE  ReadInv'
<1>1. UNCHANGED <<mail, draftDates, acts, walk, mailMade>> /\ window.conv # 0
  BY DEF Reading!LoadNewer
<1>2. PICK places, side, read :
        places = Reading!Places(window.conv) /\ side = Reading!Newer /\ read = Reading!FirstOf(side)
  OBVIOUS
<1>3. PICK e : e = Reading!Extended(window, read)
  OBVIOUS
<1>4. PICK newer : newer = (side # {} /\ side # read)
  OBVIOUS
<1>5. window' = [e EXCEPT !.more = window.more, !.newer = newer]
  <2>1. window' = [Reading!Extended(window, Reading!FirstOf(Reading!Newer)) EXCEPT !.more = window.more,
                     !.newer = Reading!Newer # {} /\ Reading!Newer # Reading!FirstOf(Reading!Newer)]
    BY DEF Reading!LoadNewer
  <2>2. (Reading!Newer # {} /\ Reading!Newer # Reading!FirstOf(Reading!Newer)) = newer
    BY <1>2, <1>4, Zenon
  <2>3. Reading!Extended(window, Reading!FirstOf(Reading!Newer)) = e
    BY <1>2, <1>3
  <2>4. QED
    BY <2>1, <2>2, <2>3, Zenon
<1>6. /\ Form(window) /\ Spans(window) /\ Covers(window, window.kept) /\ window.kept \subseteq places
      /\ window.refresh # Reading!NoRefresh => Held(window.refresh)
  BY <1>1, <1>2 DEF ReadInv, WindowHeld, WindowShape, Form
<1>7. PICK low, high : low = LowOf(window, read) /\ high = HighOf(window, read)
  OBVIOUS
<1>8. /\ Form(e) /\ e.conv = window.conv /\ e.refresh = window.refresh /\ e.kept = window.kept
      /\ e.got = window.got \cup read /\ e.oldest = low /\ e.newest = high
  BY <1>3, <1>6, <1>7, ExtendedIs, Zenon
<1>9. /\ Form(window') /\ window'.conv = window.conv /\ window'.refresh = window.refresh
      /\ window'.kept = window.kept /\ window'.got = window.got \cup read /\ window'.oldest = low
      /\ window'.newest = high /\ window'.more = window.more /\ window'.newer = newer
  BY <1>5, <1>8 DEF Form
<1>10. places \subseteq Pairs /\ IsFiniteSet(places)
  BY <1>2, PlacesHeld DEF ReadInv
<1>11. \A p : p \in side <=> p \in places /\ Reading!Before(window.newest, p)
  BY <1>2 DEF Reading!Newer
<1>12. side \subseteq Pairs /\ IsFiniteSet(side)
  BY <1>10, <1>11, FS_Subset
<1>13. /\ read \subseteq side /\ (side # {} => read # {})
       /\ \A p \in side \ read, q \in read : Reading!Before(q, p)
  BY <1>2, <1>12, FirstOfIs
<1>14. read \subseteq Pairs /\ IsFiniteSet(read)
  BY <1>12, <1>13, FS_Subset
<1>15. /\ window.got \subseteq Pairs /\ IsFiniteSet(window.got) /\ window.oldest \in Pairs /\ window.newest \in Pairs
       /\ ~Reading!Before(window.newest, window.oldest)
       /\ window.got # {} => window.oldest \in window.got /\ window.newest \in window.got
       /\ \A q \in window.got : ~Reading!Before(q, window.oldest) /\ ~Reading!Before(window.newest, q)
  BY <1>6 DEF Spans
<1>16. PICK got : got = window.got \cup read
  OBVIOUS
<1>17. /\ got \subseteq Pairs /\ IsFiniteSet(got) /\ low \in Pairs /\ high \in Pairs
       /\ got = {} => low = window.oldest /\ high = window.newest
       /\ got # {} => low \in got /\ high \in got
       /\ \A q \in got : ~Reading!Before(q, low) /\ ~Reading!Before(high, q)
       /\ ~Reading!Before(high, low)
  BY <1>7, <1>14, <1>15, <1>16, EndsOf
<1>18. Spans(window)'
  BY <1>9, <1>16, <1>17 DEF Spans
<1>19. \A q \in read : Reading!Before(window.newest, q)
  BY <1>11, <1>13
<1>20. ~Reading!Before(low, window.oldest)
  <2>1. CASE got = {}
    BY <1>15, <1>17, <2>1, PlacesAreOrdered
  <2>2. CASE low \in window.got
    BY <1>15, <2>2
  <2>3. CASE low \in read
    BY <1>15, <1>17, <1>19, <2>3, BeforeIsAnOrder
  <2>4. QED
    BY <1>16, <1>17, <2>1, <2>2, <2>3
<1>21. ASSUME NEW p \in side \ read
       PROVE  Reading!Before(high, p)
  <2>1. read # {} /\ p \in Pairs /\ Reading!Before(window.newest, p) /\ got # {}
    BY <1>11, <1>12, <1>13, <1>16, <1>21
  <2>2. CASE high \in window.got
    BY <1>15, <1>17, <2>1, <2>2, BeforeIsAnOrder
  <2>3. CASE high \in read
    BY <1>13, <1>21, <2>3
  <2>4. QED
    BY <1>16, <1>17, <2>1, <2>2, <2>3
<1>22. Covers(window, window.kept)'
  <2> SUFFICES ASSUME NEW p \in window.kept
               PROVE  p \in got \/ (Reading!Before(p, low) /\ window.more) \/ (Reading!Before(high, p) /\ newer)
    BY <1>9, <1>16 DEF Covers
  <2>1. CASE p \in window.got
    BY <1>16, <2>1
  <2>2. CASE Reading!Before(window.newest, p)
    <3>1. p \in side
      BY <1>6, <1>11, <2>2
    <3>2. CASE p \in read
      BY <1>16, <3>2
    <3>3. CASE p \notin read
      BY <1>4, <1>21, <3>1, <3>3
    <3>4. QED
      BY <3>2, <3>3
  <2>3. CASE Reading!Before(p, window.oldest) /\ window.more
    <3>1. p \in Pairs
      BY <1>6, <1>10
    <3>2. Reading!Before(p, low)
      BY <1>15, <1>17, <1>20, <2>3, <3>1, BeforeIsAnOrder
    <3>3. QED
      BY <2>3, <3>2
  <2>4. QED
    BY <1>6, <2>1, <2>2, <2>3 DEF Covers
<1>23. read # {} => Reading!Before(window.newest, high)
  <2> SUFFICES ASSUME NEW q \in read PROVE Reading!Before(window.newest, high)
    OBVIOUS
  <2>1. Reading!Before(window.newest, q) /\ ~Reading!Before(high, q) /\ q \in Pairs
    BY <1>14, <1>16, <1>17, <1>19
  <2>2. QED
    BY <1>15, <1>17, <2>1 DEF Pairs, Reading!Before
<1>24. ASSUME window.refresh # Reading!NoRefresh
       PROVE  Held(window.refresh)'
  <2>1. Spans(window.refresh) /\ Covers(window.refresh, window.kept) /\ Fits(window.refresh)
    BY <1>6, <1>24 DEF Held
  <2>2. PICK r : r = window.refresh
    OBVIOUS
  <2>3. r.ends[1] \in Pairs /\ r.ends[2] \in Pairs
    BY <2>1, <2>2 DEF Fits
  <2>4. \/ low = r.ends[1] /\ high = r.ends[2] /\ (got \cap window.kept) \subseteq r.got
        \/ got # {} /\ (Reading!Before(low, r.ends[1]) \/ Reading!Before(r.ends[2], high))
    <3>1. CASE window.oldest = r.ends[1] /\ window.newest = r.ends[2] /\ (window.got \cap window.kept) \subseteq r.got
      <4>1. CASE read # {}
        BY <1>16, <1>23, <3>1, <4>1
      <4>2. CASE read = {}
        <5>1. got = window.got
          BY <1>16, <4>2
        <5>2. low = window.oldest /\ high = window.newest
          <6>1. CASE got = {}
            BY <1>17, <6>1
          <6>2. CASE got # {}
            <7>1. /\ window.oldest \in got /\ window.newest \in got /\ low \in got /\ high \in got
                  /\ ~Reading!Before(window.oldest, low) /\ ~Reading!Before(high, window.newest)
                  /\ ~Reading!Before(low, window.oldest) /\ ~Reading!Before(window.newest, high)
              BY <1>15, <1>17, <5>1, <6>2
            <7>2. QED
              BY <1>15, <1>17, <7>1, PlacesAreOrdered
          <6>3. QED
            BY <6>1, <6>2
        <5>3. QED
          BY <3>1, <5>1, <5>2
      <4>3. QED
        BY <4>1, <4>2
    <3>2. CASE window.got # {} /\ (Reading!Before(window.oldest, r.ends[1]) \/ Reading!Before(r.ends[2], window.newest))
      <4>1. /\ got # {} /\ window.oldest \in got /\ window.newest \in got
            /\ ~Reading!Before(window.oldest, low) /\ ~Reading!Before(high, window.newest)
        BY <1>15, <1>16, <1>17, <3>2
      <4>2. QED
        BY <1>15, <1>17, <2>3, <3>2, <4>1, BeforeIsAnOrder
    <3>3. QED
      BY <2>1, <2>2, <3>1, <3>2 DEF Fits
  <2>5. window'.refresh = r
    BY <1>9, <2>2
  <2>6. Fits(window.refresh)'
    BY <1>9, <1>16, <2>3, <2>4, <2>5 DEF Fits
  <2>7. Spans(window.refresh)' /\ Covers(window.refresh, window.kept)'
    BY <1>9, <2>1 DEF Spans, Covers
  <2>8. QED
    BY <2>6, <2>7 DEF Held
<1>25. QED
  BY <1>1, <1>9, <1>18, <1>22, <1>24, WindowTurns DEF Reading!NoRefresh

\* The server answers a refresh: it has what the window has, and what came between.
LEMMA AnswerRefreshHolds ==
  ASSUME ReadInv, Reading!AnswerRefresh
  PROVE  ReadInv'
<1>1. UNCHANGED <<mail, draftDates, acts, walk, mailMade>> /\ window.conv # 0
  BY DEF Reading!AnswerRefresh
<1>2. PICK places, read : places = Reading!Places(window.conv) /\ read = Reading!Between(window)
  OBVIOUS
<1>3. PICK w : w = [window EXCEPT !.got = {}]
  OBVIOUS
<1>4. PICK e : e = Reading!Extended(w, read)
  OBVIOUS
<1>5. PICK r : r = [ends |-> Reading!Ends, got |-> e.got, oldest |-> e.oldest, newest |-> e.newest,
                    more |-> e.more, newer |-> e.newer]
  OBVIOUS
<1>6. window' = [window EXCEPT !.refresh = r]
  <2>1. Reading!Extended([window EXCEPT !.got = {}], Reading!Between(window)) = e
    BY <1>2, <1>3, <1>4
  <2>2. QED
    BY <1>5, <2>1 DEF Reading!AnswerRefresh
<1>7. /\ Form(window) /\ Spans(window) /\ Covers(window, window.kept) /\ window.kept \subseteq places
  BY <1>1, <1>2 DEF ReadInv, WindowHeld, WindowShape, Form
<1>8. /\ Form(w) /\ w.conv = window.conv /\ w.got = {} /\ w.oldest = window.oldest /\ w.newest = window.newest
  BY <1>3, <1>7 DEF Form
<1>9. PICK low, high : low = LowOf(w, read) /\ high = HighOf(w, read)
  OBVIOUS
<1>10. e.got = read /\ e.oldest = low /\ e.newest = high /\ e.more = MoreOf(w, read) /\ e.newer = NewerOf(w, read)
  <2>1. e.got = w.got \cup read
    BY <1>4, <1>8, ExtendedIs, Zenon
  <2>2. e.oldest = low /\ e.newest = high /\ e.more = MoreOf(w, read) /\ e.newer = NewerOf(w, read)
    BY <1>4, <1>8, <1>9, ExtendedIs, Zenon
  <2>3. QED
    BY <1>8, <2>1, <2>2
<1>11. places \subseteq Pairs /\ IsFiniteSet(places)
  BY <1>2, PlacesHeld DEF ReadInv
<1>12. /\ \A p \in places : ~Reading!Before(p, window.oldest) /\ ~Reading!Before(window.newest, p) => p \in read
       /\ \A p \in read : ~Reading!Before(p, window.oldest) \/ p \in Reading!LastOf(places)
       /\ window.newer => \A p \in read : ~Reading!Before(p, window.oldest) /\ ~Reading!Before(window.newest, p)
       /\ ~window.newer => \A p \in places : ~Reading!Before(p, window.oldest) => p \in read
       /\ ~window.newer => Reading!LastOf(places) \subseteq read
       /\ read \subseteq places
  BY <1>2, <1>11, LastOfIs DEF Reading!Between
<1>13. read \subseteq Pairs /\ IsFiniteSet(read)
  BY <1>11, <1>12, FS_Subset
<1>14. /\ window.got \subseteq Pairs /\ window.oldest \in Pairs /\ window.newest \in Pairs
       /\ ~Reading!Before(window.newest, window.oldest)
       /\ \A q \in window.got : ~Reading!Before(q, window.oldest) /\ ~Reading!Before(window.newest, q)
  BY <1>7 DEF Spans
<1>15. w.got \cup read = read /\ w.got \subseteq Pairs /\ IsFiniteSet(w.got)
  BY <1>8, FS_EmptySet
<1>16. /\ low \in Pairs /\ high \in Pairs
       /\ read = {} => low = window.oldest /\ high = window.newest
       /\ read # {} => low \in read /\ high \in read
       /\ \A q \in read : ~Reading!Before(q, low) /\ ~Reading!Before(high, q)
       /\ ~Reading!Before(high, low)
  BY <1>8, <1>9, <1>13, <1>14, <1>15, EndsOf
<1>17. /\ r.ends = Reading!Ends /\ r.got = read /\ r.oldest = low /\ r.newest = high
       /\ r.more = e.more /\ r.newer = e.newer
  BY <1>5, <1>10
<1>18. Spans(r)
  BY <1>13, <1>16, <1>17 DEF Spans
<1>19. \A p \in places : (Reading!Before(p, low) => r.more) /\ (Reading!Before(high, p) => r.newer)
  BY <1>2, <1>8, <1>9, <1>10, <1>17 DEF MoreOf, NewerOf
<1>20. ASSUME NEW p \in places, p \notin read
       PROVE  Reading!Before(p, low) \/ Reading!Before(high, p)
  <2>1. p \in Pairs
    BY <1>11
  <2>2. CASE Reading!Before(p, window.oldest)
    <3>1. CASE read = {}
      BY <1>16, <2>2, <3>1
    <3>2. CASE read # {} /\ ~Reading!Before(low, window.oldest)
      BY <1>14, <1>16, <2>1, <2>2, <3>2, BeforeIsAnOrder
    <3>3. CASE read # {} /\ Reading!Before(low, window.oldest)
      <4>1. ~window.newer /\ low \in Reading!LastOf(places) /\ p \notin Reading!LastOf(places)
        BY <1>12, <1>16, <1>20, <3>3
      <4>2. QED
        BY <1>11, <4>1, LastOfIs
    <3>4. QED
      BY <3>1, <3>2, <3>3
  <2>3. CASE ~Reading!Before(p, window.oldest)
    <3>1. window.newer /\ Reading!Before(window.newest, p)
      BY <1>12, <1>20, <2>3
    <3>2. ~Reading!Before(window.newest, high)
      <4>1. CASE read = {}
        BY <1>14, <1>16, <4>1, PlacesAreOrdered
      <4>2. CASE read # {}
        BY <1>12, <1>16, <3>1, <4>2
      <4>3. QED
        BY <4>1, <4>2
    <3>3. QED
      BY <1>14, <1>16, <2>1, <3>1, <3>2, BeforeIsAnOrder
  <2>4. QED
    BY <2>2, <2>3
<1>21. Covers(r, window.kept)
  BY <1>7, <1>17, <1>19, <1>20 DEF Covers
<1>22. /\ Form(window') /\ window'.conv = window.conv /\ window'.refresh = r /\ window'.kept = window.kept
       /\ window'.got = window.got /\ window'.oldest = window.oldest /\ window'.newest = window.newest
       /\ window'.more = window.more /\ window'.newer = window.newer
  BY <1>6, <1>7 DEF Form
<1>23. Fits(window.refresh)'
  <2>1. r.ends[1] = window.oldest /\ r.ends[2] = window.newest
    BY <1>17 DEF Reading!Ends
  <2>2. (window.got \cap window.kept) \subseteq r.got
    BY <1>7, <1>12, <1>14, <1>17
  <2>3. QED
    BY <1>14, <1>22, <2>1, <2>2 DEF Fits
<1>24. Held(window.refresh)'
  BY <1>18, <1>21, <1>22, <1>23 DEF Held, Spans, Covers
<1>25. Spans(window)' /\ Covers(window, window.kept)'
  BY <1>7, <1>22 DEF Spans, Covers
<1>26. QED
  BY <1>1, <1>22, <1>24, <1>25, WindowTurns

\* The answer replaces the window, or is thrown away.
LEMMA ApplyRefreshHolds ==
  ASSUME ReadInv, Reading!ApplyRefresh
  PROVE  ReadInv'
<1>1. UNCHANGED <<mail, draftDates, acts, walk, mailMade>> /\ window.refresh # Reading!NoRefresh
  BY DEF Reading!ApplyRefresh
<1>2. PICK r : r = window.refresh
  OBVIOUS
<1>3. PICK none : none = Reading!NoRefresh
  OBVIOUS
<1>4. Form(window)
  BY DEF ReadInv, WindowHeld, WindowShape, Form
<1>5. \/ /\ Reading!SameEnds(r)
         /\ window' = [window EXCEPT !.refresh = none, !.got = r.got, !.oldest = r.oldest,
                         !.newest = r.newest, !.more = r.more, !.newer = r.newer]
      \/ window' = [window EXCEPT !.refresh = none]
  BY <1>2, <1>3 DEF Reading!ApplyRefresh
<1>6. Form(window') /\ window'.conv = window.conv /\ window'.kept = window.kept /\ window'.refresh = none
  BY <1>4, <1>5 DEF Form
<1>7. CASE window.conv = 0
  <2>1. WindowHeld'
    BY <1>6, <1>7 DEF WindowHeld, WindowShape, Form
  <2>2. QED
    BY <1>1, <2>1, WalkRests DEF ReadInv, MailHeld, DatesHeld, ActsHeld
<1>8. CASE window.conv # 0
  <2>1. Spans(window) /\ Covers(window, window.kept) /\ Spans(r) /\ Covers(r, window.kept)
    BY <1>1, <1>2, <1>8 DEF ReadInv, WindowHeld, Held
  <2>2. \/ /\ window'.got = r.got /\ window'.oldest = r.oldest /\ window'.newest = r.newest
           /\ window'.more = r.more /\ window'.newer = r.newer
        \/ /\ window'.got = window.got /\ window'.oldest = window.oldest /\ window'.newest = window.newest
           /\ window'.more = window.more /\ window'.newer = window.newer
    BY <1>4, <1>5 DEF Form
  <2>3. Spans(window)' /\ Covers(window, window.kept)'
    BY <1>6, <2>1, <2>2 DEF Spans, Covers
  <2>4. QED
    BY <1>1, <1>3, <1>6, <1>8, <2>3, WindowTurns DEF Reading!NoRefresh
<1>9. QED
  BY <1>7, <1>8

\* A conversation is closed.
LEMMA CloseConversationHolds ==
  ASSUME ReadInv, Reading!CloseConversation
  PROVE  ReadInv'
<1>1. UNCHANGED <<mail, draftDates, acts, walk, mailMade>> /\ window' = Reading!NoWindow
  BY DEF Reading!CloseConversation
<1>2. Form(window') /\ window'.conv = 0
  BY <1>1 DEF Form, Reading!NoWindow
<1>3. WindowHeld'
  BY <1>2 DEF WindowHeld, WindowShape, Form
<1>4. QED
  BY <1>1, <1>3, WalkRests DEF ReadInv, MailHeld, DatesHeld, ActsHeld

\* The conversations begin and keep to their invariant.
LEMMA ReadBegins ==
  ASSUME Reading!Init
  PROVE  ReadInv
<1>1. MailHeld
  BY FS_EmptySet DEF Reading!Init, MailHeld
<1>2. DatesHeld
  <2>1. {c \in Convs : draftDates[c] # 0} = {} /\ draftDates \in [Convs -> Nat]
    BY DEF Reading!Init
  <2>2. QED
    BY <2>1, FS_EmptySet DEF DatesHeld
<1>3. ActsHeld
  <2>1. PICK q : q = Reading!NoRequest
    OBVIOUS
  <2>2. /\ q = [step |-> q.step, op |-> q.op, conv |-> q.conv, keys |-> q.keys, rows |-> q.rows, key |-> q.key]
        /\ q.rows = {}
    BY <2>1 DEF Reading!NoRequest
  <2>3. acts = [h \in Readers |-> q]
    BY <2>1 DEF Reading!Init
  <2>4. QED
    BY <2>2, <2>3 DEF ActsHeld
<1>4. WalkHeld
  <2>1. PICK got : got = [c \in Convs |-> 0]
    OBVIOUS
  <2>2. got \in [Convs -> Nat]
    BY <2>1
  <2>3. walk = [at |-> "none", cursor |-> <<0, 0>>, got |-> got, kept |-> {}]
    BY <2>1 DEF Reading!Init, Reading!NoWalk
  <2>4. QED
    BY <2>2, <2>3 DEF WalkHeld, Pairs
<1>5. WindowHeld
  BY DEF Reading!Init, Reading!NoWindow, WindowHeld, WindowShape
<1>6. QED
  BY <1>1, <1>2, <1>3, <1>4, <1>5 DEF ReadInv

\* Every step of the conversations keeps the invariant.
LEMMA ReadStep ==
  ASSUME ReadInv, Reading!Next
  PROVE  ReadInv'
<1>1. ASSUME NEW c \in Convs, Reading!Arrive(c) \/ Reading!Send(c) \/ Reading!SaveDraft(c) \/ Reading!OpenConversation(c)
      PROVE  ReadInv'
  BY <1>1, ArriveHolds, SendingHolds, DraftDateHolds, OpenConversationHolds
<1>2. ASSUME NEW m \in mail, Reading!Deliver(m) \/ Reading!Vanish(m)
      PROVE  ReadInv'
  BY <1>2, DeliverHolds, VanishHolds
<1>3. ASSUME NEW h \in Readers,
             \/ Reading!HandleStatus(h) \/ Reading!HandleSeen(h) \/ Reading!DeleteOutgoing(h)
             \/ Reading!QueueMoves(h) \/ Reading!DeleteDrafts(h) \/ Reading!HandleStartConversation(h)
      PROVE  ReadInv'
  BY <1>3, HandleStatusHolds, HandleSeenHolds, DeleteOutgoingHolds, QueueMovesHolds, HandlersOfDraftsHold
<1>4. ASSUME NEW h \in Readers, NEW c \in Convs, Reading!ReadConversation(h, c)
      PROVE  ReadInv'
  BY <1>4, ReadConversationHolds
<1>5. ASSUME Reading!StartWalk \/ Reading!NextPage \/ Reading!EndWalk
      PROVE  ReadInv'
  BY <1>5, StartWalkHolds, NextPageHolds, EndWalkHolds
<1>6. ASSUME \/ Reading!LoadOlder \/ Reading!LoadNewer \/ Reading!AnswerRefresh \/ Reading!ApplyRefresh
             \/ Reading!CloseConversation
      PROVE  ReadInv'
  BY <1>6, LoadOlderHolds, LoadNewerHolds, AnswerRefreshHolds, ApplyRefreshHolds, CloseConversationHolds
<1>7. QED
  BY <1>1, <1>2, <1>3, <1>4, <1>5, <1>6 DEF Reading!Next

\* The invariant says what the readers rely on.
LEMMA PagesAreCovered ==
  ASSUME ReadInv
  PROVE  Reading!PagesCoverAll
BY DEF ReadInv, WalkHeld, WindowHeld, Covers, Reading!PagesCoverAll

\* Only what a request has read changes with it.
LEMMA RequestsLeaveNewMail ==
  ASSUME ReadInv, Reading!Next
  PROVE  Reading!NewMailUntouched
<1> SUFFICES ASSUME NEW k \in Readers, acts[k].op # "none", acts'[k] # acts[k], NEW m \in mail, m.id \notin acts[k].keys
             PROVE  m \in mail'
  BY DEF Reading!NewMailUntouched
<1>1. ActsHeld /\ MailHeld
  BY DEF ReadInv
<1>2. acts' # acts
  OBVIOUS
<1>3. PICK h \in Readers :
        \/ Reading!HandleStatus(h) \/ Reading!HandleSeen(h) \/ Reading!DeleteOutgoing(h) \/ Reading!QueueMoves(h)
        \/ Reading!DeleteDrafts(h) \/ Reading!HandleStartConversation(h)
        \/ \E c \in Convs : Reading!ReadConversation(h, c)
  BY <1>2 DEF Reading!Next, Reading!Arrive, Reading!Send, Reading!SaveDraft, Reading!OpenConversation, Reading!Deliver,
     Reading!Vanish, Reading!StartWalk, Reading!NextPage, Reading!EndWalk, Reading!LoadOlder, Reading!LoadNewer,
     Reading!AnswerRefresh, Reading!ApplyRefresh, Reading!CloseConversation
<1>4. \E q : acts' = [acts EXCEPT ![h] = q]
  BY <1>3 DEF Reading!HandleStatus, Reading!HandleSeen, Reading!DeleteOutgoing, Reading!QueueMoves,
     Reading!DeleteDrafts, Reading!HandleStartConversation, Reading!ReadConversation, Reading!Finish
<1>5. k = h
  <2> SUFFICES ASSUME k # h PROVE FALSE
    OBVIOUS
  <2>1. PICK q : acts' = [acts EXCEPT ![h] = q]
    BY <1>4
  <2>2. acts' = [g \in Readers |-> IF g = h THEN q ELSE acts[g]]
    BY <1>1, <2>1 DEF ActsHeld
  <2>3. acts'[k] = acts[k]
    BY <2>2
  <2>4. QED
    BY <2>3
<1>6. CASE Reading!HandleStatus(h) \/ Reading!DeleteDrafts(h) \/ Reading!HandleStartConversation(h)
  BY <1>6 DEF Reading!HandleStatus, Reading!DeleteDrafts, Reading!HandleStartConversation
<1>7. CASE \E c \in Convs : Reading!ReadConversation(h, c)
  <2>1. acts[h] = Reading!NoRequest
    BY <1>7 DEF Reading!ReadConversation
  <2>2. acts[h].op = "none"
    BY <2>1 DEF Reading!NoRequest
  <2>3. QED
    BY <1>5, <2>2
<1>8. CASE Reading!HandleSeen(h)
  <2>1. PICK targets, new : mail' = (mail \ targets) \cup new /\ targets = Reading!Targets(h)
    BY <1>8, Zenon DEF Reading!HandleSeen
  <2>2. m \notin targets
    BY <1>5, <2>1 DEF Reading!Targets
  <2>3. QED
    BY <2>1, <2>2
<1>9. CASE Reading!QueueMoves(h)
  <2>1. mail' = mail \ Reading!Targets(h)
    BY <1>9 DEF Reading!QueueMoves
  <2>2. m \notin Reading!Targets(h)
    BY <1>5 DEF Reading!Targets
  <2>3. QED
    BY <2>1, <2>2
<1>10. CASE Reading!DeleteOutgoing(h)
  <2>1. PICK gone : mail' = mail \ gone /\ \A n \in gone : Reading!Place(n) \in acts[h].rows
    <3>1. PICK free : free = {n \in mail : Reading!Place(n) \in acts[h].rows /\ n.send # "sending"}
      OBVIOUS
    <3>2. PICK busy : busy = acts[h].rows \ {Reading!Place(n) : n \in free}
      OBVIOUS
    <3>3. PICK gone : gone = {n \in free : \A p \in busy : Reading!Before(Reading!Place(n), p)}
      OBVIOUS
    <3>4. mail' = mail \ gone
      BY <1>10, <3>1, <3>2, <3>3, Zenon DEF Reading!DeleteOutgoing
    <3>5. \A n \in gone : Reading!Place(n) \in acts[h].rows
      BY <3>1, <3>3
    <3>6. QED
      BY <3>4, <3>5
  <2>2. Reading!Place(m)[2] = m.id
    BY DEF Reading!Place
  <2>3. m \notin gone
    BY <1>1, <1>5, <2>1, <2>2 DEF ActsHeld
  <2>4. QED
    BY <2>1, <2>3
<1>11. QED
  BY <1>3, <1>6, <1>7, <1>8, <1>9, <1>10

\* A window keeps what it has loaded.
LEMMA LoadedMailStays ==
  ASSUME ReadInv, Reading!Next
  PROVE  Reading!LoadedStays
<1> SUFFICES ASSUME window.conv # 0, window'.conv # 0
             PROVE  (window.got \cap window'.kept) \subseteq window'.got
  BY DEF Reading!LoadedStays
<1>1. Form(window) /\ Spans(window) /\ (window.refresh # Reading!NoRefresh => Held(window.refresh))
  BY DEF ReadInv, WindowHeld, WindowShape, Form
<1>2. CASE window' = window
  BY <1>2
<1>3. CASE Reading!Track
  <2>1. PICK stay : stay = {p \in window.kept : \E m \in mail' : Reading!Place(m) = p}
    OBVIOUS
  <2>2. window' = [window EXCEPT !.kept = stay]
    BY <1>3, <2>1 DEF Reading!Track
  <2>3. window'.got = window.got
    BY <1>1, <2>2 DEF Form
  <2>4. QED
    BY <2>3
<1>4. CASE Reading!LoadOlder
  <2>1. PICK e : e = Reading!Extended(window, Reading!LastOf(Reading!Older))
    OBVIOUS
  <2>2. Form(e) /\ e.got = window.got \cup Reading!LastOf(Reading!Older)
    BY <1>1, <2>1, ExtendedIs, Zenon
  <2>3. \E a, b : window' = [e EXCEPT !.newer = a, !.more = b]
    BY <1>4, <2>1 DEF Reading!LoadOlder
  <2>4. window'.got = e.got
    BY <2>2, <2>3 DEF Form
  <2>5. QED
    BY <2>2, <2>4
<1>5. CASE Reading!LoadNewer
  <2>1. PICK e : e = Reading!Extended(window, Reading!FirstOf(Reading!Newer))
    OBVIOUS
  <2>2. Form(e) /\ e.got = window.got \cup Reading!FirstOf(Reading!Newer)
    BY <1>1, <2>1, ExtendedIs, Zenon
  <2>3. \E a, b : window' = [e EXCEPT !.more = a, !.newer = b]
    BY <1>5, <2>1 DEF Reading!LoadNewer
  <2>4. window'.got = e.got
    BY <2>2, <2>3 DEF Form
  <2>5. QED
    BY <2>2, <2>4
<1>6. CASE Reading!AnswerRefresh
  <2>1. \E r : window' = [window EXCEPT !.refresh = r]
    BY <1>6 DEF Reading!AnswerRefresh
  <2>2. window'.got = window.got
    BY <1>1, <2>1 DEF Form
  <2>3. QED
    BY <2>2
<1>7. CASE Reading!ApplyRefresh
  <2>1. PICK r : r = window.refresh
    OBVIOUS
  <2>2. PICK none : none = Reading!NoRefresh
    OBVIOUS
  <2>3. window.refresh # none
    BY <1>7, <2>2 DEF Reading!ApplyRefresh
  <2>4. Fits(r)
    BY <1>1, <2>1, <2>2, <2>3 DEF Held
  <2>5. CASE /\ Reading!SameEnds(r)
             /\ window' = [window EXCEPT !.refresh = none, !.got = r.got, !.oldest = r.oldest,
                             !.newest = r.newest, !.more = r.more, !.newer = r.newer]
    <3>1. window'.got = r.got /\ window'.kept = window.kept
      BY <1>1, <2>5 DEF Form
    <3>2. r.ends[1] = window.oldest /\ r.ends[2] = window.newest
      BY <2>5 DEF Reading!SameEnds, Reading!Ends
    <3>3. ~Reading!Before(window.oldest, r.ends[1]) /\ ~Reading!Before(r.ends[2], window.newest)
      BY <1>1, <3>2, PlacesAreOrdered DEF Spans
    <3>4. QED
      BY <2>4, <3>1, <3>3 DEF Fits
  <2>6. CASE window' = [window EXCEPT !.refresh = none]
    <3>1. window'.got = window.got
      BY <1>1, <2>6 DEF Form
    <3>2. QED
      BY <3>1
  <2>7. QED
    BY <1>7, <2>1, <2>2, <2>5, <2>6 DEF Reading!ApplyRefresh
<1>8. CASE \E c \in Convs : Reading!OpenConversation(c)
  BY <1>8 DEF Reading!OpenConversation
<1>9. CASE Reading!CloseConversation
  BY <1>9 DEF Reading!CloseConversation, Reading!NoWindow
<1>10. QED
  BY <1>2, <1>3, <1>4, <1>5, <1>6, <1>7, <1>8, <1>9
     DEF Reading!Next, Reading!Arrive, Reading!Send, Reading!SaveDraft, Reading!Deliver, Reading!Vanish,
     Reading!HandleStatus, Reading!HandleSeen, Reading!DeleteOutgoing, Reading!QueueMoves, Reading!DeleteDrafts,
     Reading!HandleStartConversation, Reading!ReadConversation, Reading!StartWalk, Reading!NextPage, Reading!EndWalk

-----------------------------------------------------------------------------
(* The variables keep to their values *)

\* The accounts and the loops.
LEMMA LoopTypes ==
  ASSUME LoopInv
  PROVE  Loops!TypeOK
<1>1. /\ IsFiniteSet(rows) /\ used \in 0..MaxAccounts
      /\ \A r \in rows : AccountRow(r, used)
      /\ \A r, s \in rows : r.id = s.id \/ r.box = s.box => r = s
  BY DEF LoopInv, RowsHeld
<1>2. Cardinality(Loops!Known) = Cardinality(rows)
  <2>1. ExistsBijection(rows, Loops!Known)
    <3> DEFINE f == [r \in rows |-> r.id]
    <3>1. f \in [rows -> Loops!Known] /\ \A i \in Loops!Known : \E r \in rows : f[r] = i
      BY DEF Loops!Known
    <3>2. \A r, s \in rows : f[r] = f[s] => r = s
      BY <1>1
    <3> HIDE DEF f
    <3>3. f \in Bijection(rows, Loops!Known)
      BY <3>1, <3>2 DEF Bijection, Injection, Surjection, IsInjective
    <3>4. QED
      BY <3>3 DEF ExistsBijection
  <2>2. QED
    BY <1>1, <2>1, FS_Bijection
<1>3. Cardinality({r.box : r \in rows}) = Cardinality(rows)
  <2> DEFINE boxes == {r.box : r \in rows}
  <2>1. ExistsBijection(rows, boxes)
    <3> DEFINE f == [r \in rows |-> r.box]
    <3>1. f \in [rows -> boxes] /\ \A b \in boxes : \E r \in rows : f[r] = b
      OBVIOUS
    <3>2. \A r, s \in rows : f[r] = f[s] => r = s
      BY <1>1
    <3> HIDE DEF boxes, f
    <3>3. f \in Bijection(rows, boxes)
      BY <3>1, <3>2 DEF Bijection, Injection, Surjection, IsInjective
    <3>4. QED
      BY <3>3 DEF ExistsBijection
  <2> HIDE DEF boxes
  <2>2. Cardinality(boxes) = Cardinality(rows)
    BY <1>1, <2>1, FS_Bijection
  <2>3. QED
    BY <2>2 DEF boxes
<1>4. \A r \in rows : r.id \in 1..used /\ r.box \in Mailboxes /\ r.default \in BOOLEAN
  BY <1>1 DEF AccountRow
<1>5. /\ DOMAIN registry = Loops!AccountIds /\ \A i \in Loops!AccountIds : registry[i] \in 0..Len(loops)
      /\ \A l \in DOMAIN loops :
           /\ loops[l].id \in Loops!AccountIds /\ loops[l].pc \in {"pass", "wait", "over"}
           /\ loops[l].stop \in BOOLEAN /\ loops[l].wake \in BOOLEAN
  <2>1. loops \in Seq(AccountLoop) /\ registry = [i \in 1..MaxAccounts |-> registry[i]]
        /\ \A i \in 1..MaxAccounts : registry[i] \in 0..Len(loops)
    BY DEF LoopInv, LoopsHeld
  <2>2. \A l \in DOMAIN loops : loops[l] \in AccountLoop
    BY <2>1
  <2>3. QED
    BY <2>1, <2>2 DEF Loops!AccountIds, AccountLoop
<1>6. \A h \in Handlers : \A k \in DOMAIN handlers[h].todo : handlers[h].todo[k] \in Loops!Statements
  <2>1. \A h \in Handlers : handlers[h].todo \in Seq(Statements)
    BY DEF LoopInv, RequestsHeld, AccountRequest, Left
  <2>2. \A list \in Seq(Statements) : \A k \in DOMAIN list : list[k] \in Statements
    OBVIOUS
  <2>3. QED
    BY <2>1, <2>2 DEF Statements
<1>7. QED
  BY <1>1, <1>2, <1>3, <1>4, <1>5, <1>6, SameCount DEF Loops!TypeOK

\* A list, or an answer on its way, is of a change that was made.
ListsAreOld ==
  /\ changed \in 1..MaxChanges + 1
  /\ \A t \in Tabs : cache[t].data <= changed /\ fetches[t].data <= changed
\* A stream holds its buffer of events, and in front of it the frame it begins with.
StreamFits(x) == Len(x.frames) <= Buffer + 1 /\ (x.phase = "joined" => Len(x.frames) <= Buffer)
WatchersAndSessions ==
  /\ running \subseteq Events!Stops /\ early \subseteq Tabs
  /\ sessions \in [Tabs -> {"in", "out", "gone"}]
EventBounds == ListsAreOld /\ WatchersAndSessions /\ \A t \in Tabs : StreamFits(streams[t])

\* A list stays old.
LEMMA ListsStayOld ==
  ASSUME EventTypes, ListsAreOld, Events!RealtimeAssumption, Events!Next
  PROVE  ListsAreOld'
<1>1. /\ MaxChanges \in Nat /\ changed \in Nat
      /\ cache \in [Tabs -> ListForm] /\ fetches \in [Tabs -> FetchForm]
      /\ \A t \in Tabs : cache[t].data \in Nat /\ fetches[t].data \in Nat
  BY DEF Events!RealtimeAssumption, EventTypes, ListForm, FetchForm
<1>2. changed' = changed \/ (changed' = changed + 1 /\ changed <= MaxChanges /\ UNCHANGED <<cache, fetches>>)
  BY DEF Events!Next, Events!BumpRevision, Events!HandleMutation, Events!MutationEvents, Events!Answer,
         Events!SyncFolder, Events!PublishAccountEvent, Events!SaveDraft, Events!Crash, Events!Connect,
         Events!Subscribe, Events!StartWatcher, Events!StartStream, Events!CloseStream, Events!Logout,
         Events!DisconnectUser, Events!LoadPage, Events!Receive, Events!Refetch, Events!ReadList, Events!Land,
         Events!EndWatcher, Events!Commit, Events!browser
<1>3. \/ UNCHANGED <<cache, fetches>>
      \/ changed' = changed /\ fetches' = [u \in Tabs |-> Events!NoFetch] /\ cache' = cache
      \/ /\ changed' = changed
         /\ \E t \in Tabs : Events!LoadPage(t) \/ Events!Refetch(t) \/ Events!ReadList(t) \/ Events!Land(t)
  BY DEF Events!Next, Events!BumpRevision, Events!HandleMutation, Events!MutationEvents, Events!Answer,
         Events!SyncFolder, Events!PublishAccountEvent, Events!SaveDraft, Events!Crash, Events!Connect,
         Events!Subscribe, Events!StartWatcher, Events!StartStream, Events!CloseStream, Events!Logout,
         Events!DisconnectUser, Events!LoadPage, Events!Receive, Events!Refetch, Events!ReadList, Events!Land,
         Events!EndWatcher, Events!browser
<1>4. CASE UNCHANGED <<cache, fetches>>
  BY <1>1, <1>2, <1>4 DEF ListsAreOld
<1>5. CASE changed' = changed /\ fetches' = [u \in Tabs |-> Events!NoFetch] /\ cache' = cache
  BY <1>1, <1>5 DEF ListsAreOld, Events!NoFetch
<1>6. ASSUME NEW t \in Tabs, changed' = changed,
             \A u \in Tabs : u # t => cache'[u] = cache[u] /\ fetches'[u] = fetches[u],
             cache'[t].data \in {0, cache[t].data, fetches[t].data},
             fetches'[t].data \in {0, fetches[t].data, changed}
      PROVE  ListsAreOld'
  BY <1>1, <1>6 DEF ListsAreOld
<1>7. ASSUME NEW t \in Tabs, changed' = changed, Events!LoadPage(t)
      PROVE  ListsAreOld'
  <2>1. cache' = [cache EXCEPT ![t] = Events!NoList]
        /\ fetches' = [fetches EXCEPT ![t] = [Events!NoFetch EXCEPT !.step = "reading", !.rev = revision]]
    BY <1>7 DEF Events!LoadPage
  <2>2. Events!NoList.data = 0 /\ [Events!NoFetch EXCEPT !.step = "reading", !.rev = revision].data = 0
    BY DEF Events!NoList, Events!NoFetch
  <2>3. QED
    BY <1>1, <1>6, <1>7, <2>1, <2>2
<1>8. ASSUME NEW t \in Tabs, changed' = changed, Events!Refetch(t)
      PROVE  ListsAreOld'
  <2>1. /\ fetches'[t].data \in {0, fetches[t].data}
        /\ \A u \in Tabs : u # t => fetches'[u] = fetches[u]
    <3>1. CASE cache[t] = Events!NoList /\ fetches[t] # Events!NoFetch
      <4>1. fetches' = [fetches EXCEPT ![t] = fetches[t]]
        BY <1>8, <3>1, Zenon DEF Events!Refetch
      <4>2. QED
        BY <1>1, <4>1
    <3>2. CASE ~(cache[t] = Events!NoList /\ fetches[t] # Events!NoFetch)
      <4>1. PICK s : fetches' = [fetches EXCEPT ![t] = [step |-> s, rev |-> revision, data |-> 0]]
        BY <1>8, <3>2, Zenon DEF Events!Refetch
      <4>2. QED
        BY <1>1, <4>1
    <3>3. QED
      BY <3>1, <3>2
  <2>2. cache' = cache
    BY <1>8 DEF Events!Refetch
  <2>3. QED
    BY <1>1, <1>6, <1>8, <2>1, <2>2
<1>9. ASSUME NEW t \in Tabs, changed' = changed, Events!ReadList(t)
      PROVE  ListsAreOld'
  <2>1. fetches' = [fetches EXCEPT ![t].step = "listed", ![t].data = changed] /\ cache' = cache
    BY <1>9 DEF Events!ReadList
  <2>2. fetches[t] \in FetchForm
    BY <1>1
  <2>3. fetches'[t].data = changed
    BY <1>1, <2>1, <2>2 DEF FetchForm
  <2>4. QED
    BY <1>1, <1>6, <1>9, <2>1, <2>3
<1>10. ASSUME NEW t \in Tabs, changed' = changed, Events!Land(t)
       PROVE  ListsAreOld'
  <2>1. /\ fetches' = [fetches EXCEPT ![t] = Events!NoFetch]
        /\ cache' = [cache EXCEPT ![t] = IF fetches[t].step = "same" THEN @
                                         ELSE [rev |-> fetches[t].rev, data |-> fetches[t].data]]
    BY <1>10 DEF Events!Land
  <2>2. Events!NoFetch.data = 0
    BY DEF Events!NoFetch
  <2>3. QED
    BY <1>1, <1>6, <1>10, <2>1, <2>2
<1>11. QED
  BY <1>3, <1>4, <1>5, <1>7, <1>8, <1>9, <1>10

\* Nor do the watchers and the sessions change otherwise.
LEMMA WatchersRemain ==
  ASSUME WatchersAndSessions, Events!Next
  PROVE  WatchersAndSessions'
<1>1. running' \subseteq Events!Stops
  <2>1. \/ running' = running \/ running' = {} \/ (\E k : running' = running \ {k})
        \/ \E k \in Events!Stops : running' = running \cup {k}
    BY DEF Events!Next, Events!BumpRevision, Events!HandleMutation, Events!MutationEvents, Events!Answer,
           Events!SyncFolder, Events!PublishAccountEvent, Events!SaveDraft, Events!Crash, Events!Connect,
           Events!Subscribe, Events!StartWatcher, Events!StartStream, Events!CloseStream, Events!Logout,
           Events!DisconnectUser, Events!LoadPage, Events!Receive, Events!Refetch, Events!ReadList, Events!Land,
           Events!EndWatcher, Events!hub
  <2>2. QED
    BY <2>1 DEF WatchersAndSessions
<1>2. early' \subseteq Tabs
  <2>1. early' = early \/ \E t \in Tabs : early' = early \cup {t} \/ early' = early \ {t}
    BY DEF Events!Next, Events!BumpRevision, Events!HandleMutation, Events!MutationEvents, Events!Answer,
           Events!SyncFolder, Events!PublishAccountEvent, Events!SaveDraft, Events!Crash, Events!Connect,
           Events!Subscribe, Events!StartWatcher, Events!StartStream, Events!CloseStream, Events!Logout,
           Events!DisconnectUser, Events!LoadPage, Events!Receive, Events!Refetch, Events!ReadList, Events!Land,
           Events!EndWatcher, Events!browser
  <2>2. QED
    BY <2>1 DEF WatchersAndSessions
<1>3. sessions' \in [Tabs -> {"in", "out", "gone"}]
  <2>1. sessions' = sessions \/ \E t \in Tabs, s \in {"out", "gone"} : sessions' = [sessions EXCEPT ![t] = s]
    BY DEF Events!Next, Events!BumpRevision, Events!HandleMutation, Events!MutationEvents, Events!Answer,
           Events!SyncFolder, Events!PublishAccountEvent, Events!SaveDraft, Events!Crash, Events!Connect,
           Events!Subscribe, Events!StartWatcher, Events!StartStream, Events!CloseStream, Events!Logout,
           Events!DisconnectUser, Events!LoadPage, Events!Receive, Events!Refetch, Events!ReadList, Events!Land,
           Events!EndWatcher
  <2>2. QED
    BY <2>1 DEF WatchersAndSessions
<1>4. QED
  BY <1>1, <1>2, <1>3 DEF WatchersAndSessions, Events!Stops

\* A frame in a buffer that is not full.
LEMMA FrameFits ==
  ASSUME NEW f, NEW x, StreamFits(x), x \in StreamForm, Buffer \in Nat
  PROVE  StreamFits(Events!Sent(x, f)) /\ StreamFits([x EXCEPT !.overflow = TRUE])
<1>1. x.frames \in Seq(Frames) /\ Len(x.frames) \in Nat
  BY DEF StreamForm
<1>2. StreamFits([x EXCEPT !.overflow = TRUE])
  <2>1. [x EXCEPT !.overflow = TRUE].frames = x.frames /\ [x EXCEPT !.overflow = TRUE].phase = x.phase
    BY DEF StreamForm
  <2>2. QED
    BY <2>1 DEF StreamFits
<1>3. CASE Len(x.frames) < Buffer
  <2>1. PICK y : y = Append(x.frames, f)
    OBVIOUS
  <2>2. Len(y) = Len(x.frames) + 1
    BY <1>1, <2>1
  <2>3. Events!Sent(x, f) = [x EXCEPT !.frames = y]
    BY <1>3, <2>1 DEF Events!Sent
  <2>4. [x EXCEPT !.frames = y].frames = y
    BY DEF StreamForm
  <2>5. StreamFits([x EXCEPT !.frames = y])
    BY <1>1, <1>3, <2>2, <2>4 DEF StreamFits
  <2>6. QED
    BY <1>2, <2>3, <2>5
<1>4. CASE ~(Len(x.frames) < Buffer)
  BY <1>2, <1>4 DEF Events!Sent
<1>5. QED
  BY <1>3, <1>4

\* The streams stay within their buffers.
LEMMA StreamsFit ==
  ASSUME EventTypes, \A t \in Tabs : StreamFits(streams[t]), Events!RealtimeAssumption, Events!Next
  PROVE  \A t \in Tabs : StreamFits(streams'[t])
<1>1. Buffer \in Nat /\ streams \in [Tabs -> StreamForm]
  BY DEF Events!RealtimeAssumption, EventTypes
<1>2. StreamFits(Events!Off)
  <2>1. Events!Off.frames = <<>> /\ Events!Off.phase = "off" /\ Len(<<>>) = 0
    BY DEF Events!Off
  <2>2. QED
    BY <1>1, <2>1 DEF StreamFits
<1>3. ASSUME NEW t \in Tabs, NEW x, streams' = [streams EXCEPT ![t] = x], StreamFits(x)
      PROVE  \A u \in Tabs : StreamFits(streams'[u])
  BY <1>1, <1>3
<1>4. CASE streams' = streams
  BY <1>4
<1>5. ASSUME NEW origin, Events!Publish(origin)
      PROVE  \A u \in Tabs : StreamFits(streams'[u])
  <2> SUFFICES ASSUME NEW u \in Tabs
               PROVE  StreamFits(streams'[u])
    OBVIOUS
  <2>1. streams'[u] = IF u \in Events!Subscribed THEN Events!Sent(streams[u], Events!Changed(origin)) ELSE streams[u]
    BY <1>5 DEF Events!Publish
  <2>2. QED
    BY <1>1, <2>1, FrameFits
<1>6. ASSUME NEW t \in Tabs, Events!Connect(t)
      PROVE  \A u \in Tabs : StreamFits(streams'[u])
  <2>1. PICK x : x = [streams[t] EXCEPT !.phase = "asked"]
    OBVIOUS
  <2>2. x.frames = streams[t].frames /\ x.phase = "asked"
    BY <1>1, <2>1 DEF StreamForm
  <2>3. streams' = [streams EXCEPT ![t] = x]
    BY <1>6, <2>1 DEF Events!Connect
  <2>4. StreamFits(x)
    BY <2>2 DEF StreamFits
  <2>5. QED
    BY <1>3, <2>3, <2>4
<1>7. ASSUME NEW t \in Tabs, Events!Subscribe(t)
      PROVE  \A u \in Tabs : StreamFits(streams'[u])
  <2>1. PICK p \in {"joined", "off"} : streams' = [streams EXCEPT ![t] = [Events!Off EXCEPT !.phase = p]]
    BY <1>7, Zenon DEF Events!Subscribe
  <2>2. [Events!Off EXCEPT !.phase = p].frames = <<>> /\ Len(<<>>) = 0
    BY DEF Events!Off
  <2>3. StreamFits([Events!Off EXCEPT !.phase = p])
    BY <1>1, <2>2 DEF StreamFits
  <2>4. QED
    BY <1>3, <2>1, <2>3
<1>8. ASSUME NEW t \in Tabs, Events!StartStream(t)
      PROVE  \A u \in Tabs : StreamFits(streams'[u])
  <2>1. PICK list : list = <<Events!Resync(revision)>> \o streams[t].frames
    OBVIOUS
  <2>2. Len(list) = Len(streams[t].frames) + 1 /\ Len(streams[t].frames) \in Nat
    <3>1. streams[t].frames \in Seq(Frames)
      BY <1>1 DEF StreamForm
    <3>2. QED
      BY <2>1, <3>1
  <2>3. PICK x : x = [streams[t] EXCEPT !.phase = "open", !.frames = list]
    OBVIOUS
  <2>4. x.frames = list /\ x.phase = "open"
    BY <1>1, <2>3 DEF StreamForm
  <2>5. streams' = [streams EXCEPT ![t] = x] /\ streams[t].phase = "joined"
    BY <1>1, <1>8, <2>1, <2>3 DEF Events!StartStream
  <2>6. StreamFits(x)
    BY <1>1, <2>2, <2>4, <2>5 DEF StreamFits
  <2>7. QED
    BY <1>3, <2>5, <2>6
<1>9. ASSUME NEW t \in Tabs, Events!Receive(t)
      PROVE  \A u \in Tabs : StreamFits(streams'[u])
  <2>1. PICK list : list = Tail(streams[t].frames)
    OBVIOUS
  <2>2. Len(list) = Len(streams[t].frames) - 1 /\ Len(streams[t].frames) \in Nat
    <3>1. streams[t].frames \in Seq(Frames) /\ streams[t].frames # <<>>
      BY <1>1, <1>9 DEF StreamForm, Events!Receive
    <3>2. QED
      BY <2>1, <3>1
  <2>3. PICK x : x = [streams[t] EXCEPT !.frames = list]
    OBVIOUS
  <2>4. x.frames = list /\ x.phase = streams[t].phase
    BY <1>1, <2>3 DEF StreamForm
  <2>5. streams' = [streams EXCEPT ![t] = x]
    BY <1>1, <1>9, <2>1, <2>3 DEF Events!Receive
  <2>6. StreamFits(x)
    BY <1>1, <2>2, <2>4 DEF StreamFits
  <2>7. QED
    BY <1>3, <2>5, <2>6
<1>10. ASSUME NEW t \in Tabs, Events!DisconnectUser(t)
       PROVE  \A u \in Tabs : StreamFits(streams'[u])
  <2> SUFFICES ASSUME NEW u \in Tabs
               PROVE  StreamFits(streams'[u])
    OBVIOUS
  <2>1. streams'[u] = IF u \in Events!Subscribed THEN [streams[u] EXCEPT !.overflow = TRUE] ELSE streams[u]
    BY <1>10 DEF Events!DisconnectUser
  <2>2. QED
    BY <1>1, <2>1, FrameFits
<1>11. CASE Events!Crash
  BY <1>2, <1>11 DEF Events!Crash
<1>12. ASSUME NEW t \in Tabs, Events!CloseStream(t)
       PROVE  \A u \in Tabs : StreamFits(streams'[u])
  BY <1>2, <1>3, <1>12 DEF Events!CloseStream
<1>13. ASSUME NEW w \in Writers,
              \/ Events!BumpRevision(w) \/ Events!HandleMutation(w) \/ Events!MutationEvents(w)
              \/ Events!Answer(w) \/ Events!SyncFolder(w) \/ Events!PublishAccountEvent(w)
       PROVE  \A u \in Tabs : StreamFits(streams'[u])
  <2>1. streams' = streams \/ \E origin : Events!Publish(origin)
    BY <1>13 DEF Events!BumpRevision, Events!HandleMutation, Events!MutationEvents, Events!Answer,
                 Events!SyncFolder, Events!PublishAccountEvent
  <2>2. QED
    BY <1>4, <1>5, <2>1
<1>14. ASSUME \/ Events!SaveDraft \/ \E k \in Events!Stops : Events!EndWatcher(k)
              \/ \E t \in Tabs : \/ Events!StartWatcher(t) \/ Events!Logout(t) \/ Events!LoadPage(t)
                                 \/ Events!Refetch(t) \/ Events!ReadList(t) \/ Events!Land(t)
       PROVE  streams' = streams
  BY <1>14 DEF Events!SaveDraft, Events!EndWatcher, Events!StartWatcher, Events!Logout, Events!LoadPage,
               Events!Refetch, Events!ReadList, Events!Land
<1>15. QED
  BY <1>4, <1>6, <1>7, <1>8, <1>9, <1>10, <1>11, <1>12, <1>13, <1>14 DEF Events!Next

\* All of it together: at first ...
LEMMA EventBoundsBegin ==
  ASSUME Events!Init, Events!RealtimeAssumption
  PROVE  EventBounds
<1>1. MaxChanges \in Nat /\ Buffer \in Nat
  BY DEF Events!RealtimeAssumption
<1>2. ListsAreOld
  BY <1>1 DEF Events!Init, ListsAreOld, Events!NoList, Events!NoFetch
<1>3. WatchersAndSessions
  BY DEF Events!Init, WatchersAndSessions
<1>4. ASSUME NEW t \in Tabs
      PROVE  StreamFits(streams[t])
  <2>1. streams[t].frames = <<>> /\ streams[t].phase = "off" /\ Len(<<>>) = 0
    BY DEF Events!Init, Events!Off
  <2>2. QED
    BY <1>1, <2>1 DEF StreamFits
<1>5. QED
  BY <1>2, <1>3, <1>4 DEF EventBounds

\* ... at every step ...
LEMMA EventBoundsStep ==
  ASSUME EventInv, EventBounds, Events!RealtimeAssumption, Events!Next
  PROVE  EventBounds'
BY ListsStayOld, WatchersRemain, StreamsFit DEF EventBounds, EventInv

\* ... and where nothing happens.
LEMMA EventBoundsRest ==
  ASSUME EventBounds, UNCHANGED eventVars
  PROVE  EventBounds'
BY DEF eventVars, EventBounds, ListsAreOld, WatchersAndSessions, StreamFits, Events!Stops

\* The tabs and the watchers.
LEMMA EventsKeepTypes ==
  ASSUME EventInv, EventBounds
  PROVE  Events!TypeOK
<1>1. EventTypes /\ WatchersHeld /\ ListsAreOld /\ WatchersAndSessions
  BY DEF EventInv, EventBounds
<1>2. ASSUME NEW t \in Tabs
      PROVE  /\ streams[t].phase \in {"off", "asked", "joined", "open"} /\ streams[t].overflow \in BOOLEAN
             /\ Len(streams[t].frames) <= Buffer + 1
             /\ cache[t].data \in 0..changed /\ due[t] \in BOOLEAN /\ sessions[t] \in {"in", "out", "gone"}
             /\ fetches[t].step \in {"none", "reading", "listed", "same"}
  <2>1. streams[t] \in StreamForm /\ fetches[t] \in FetchForm /\ cache[t] \in ListForm
    BY <1>1 DEF EventTypes
  <2>2. cache[t].data \in 0..changed
    BY <1>1, <2>1 DEF ListForm, ListsAreOld
  <2>3. Len(streams[t].frames) <= Buffer + 1
    BY DEF EventBounds, StreamFits
  <2>4. QED
    BY <1>1, <2>1, <2>2, <2>3 DEF StreamForm, FetchForm, EventTypes, WatchersAndSessions
<1>3. \A w \in Writers : writers[w].step \in {"idle", "handling", "written", "syncing", "synced", "answered"}
  BY <1>1 DEF EventTypes, WriterForm
<1>4. QED
  BY <1>1, <1>2, <1>3 DEF Events!TypeOK, EventTypes, WatchersHeld, ListsAreOld, WatchersAndSessions

\* A message of the mirror or of the outbox.
MailFits(m) == m.id # 0 /\ m.seen \in BOOLEAN /\ m.send \in {"received", "queued", "sending", "sent"}
\* A status is one a person gave, for a message.
StatusesFit ==
  /\ statuses = [c \in Convs |-> statuses[c]]
  /\ \A c \in Convs : statuses[c].key # 0 => statuses[c].status \in {"answered", "unanswered", "no_action"}
DraftDatesFit == draftDates \in [Convs -> Dates \cup {0}]
\* A request has read messages that there were.
KeysFit == \A h \in Readers : acts[h].keys \subseteq 1..mailMade
CountsFit == mailMade \in 0..MaxMail /\ actsAsked \in 0..MaxActs /\ changes \in 0..MaxChanges
ReadBounds == StatusesFit /\ DraftDatesFit /\ KeysFit /\ CountsFit /\ \A m \in mail : MailFits(m)

\* The messages stay what they are.
LEMMA MailStaysFit ==
  ASSUME MailHeld, \A m \in mail : MailFits(m), Reading!Next
  PROVE  \A m \in mail' : MailFits(m)
<1>1. CASE mail' \subseteq mail
  BY <1>1
<1>2. ASSUME NEW c \in Convs, Reading!Arrive(c)
      PROVE  \A m \in mail' : MailFits(m)
  <2>1. PICK d \in Dates :
          mail' = mail \cup {[id |-> mailMade', conv |-> c, date |-> d, send |-> "received", seen |-> FALSE]}
    BY <1>2 DEF Reading!Arrive
  <2>2. PICK n : n = [id |-> mailMade', conv |-> c, date |-> d, send |-> "received", seen |-> FALSE]
    OBVIOUS
  <2>3. mailMade' # 0
    BY <1>2 DEF Reading!Arrive, MailHeld
  <2>4. MailFits(n)
    BY <2>2, <2>3 DEF MailFits
  <2>5. QED
    BY <2>1, <2>2, <2>4
<1>3. ASSUME NEW c \in Convs, Reading!Send(c)
      PROVE  \A m \in mail' : MailFits(m)
  <2>1. PICK n : n = [id |-> mailMade', conv |-> c, date |-> Reading!Max(Dates), send |-> "queued", seen |-> TRUE]
    OBVIOUS
  <2>2. mailMade' # 0
    BY <1>3 DEF Reading!Send, MailHeld
  <2>3. MailFits(n)
    BY <2>1, <2>2 DEF MailFits
  <2>4. mail' = mail \cup {n}
    BY <1>3, <2>1 DEF Reading!Send
  <2>5. QED
    BY <2>3, <2>4
<1>4. ASSUME NEW m \in mail, Reading!Deliver(m)
      PROVE  \A n \in mail' : MailFits(n)
  <2>1. PICK s \in {"sending", "sent"} : mail' = (mail \ {m}) \cup {[m EXCEPT !.send = s]}
    <3>1. mail' = (mail \ {m}) \cup {[m EXCEPT !.send = IF m.send = "queued" THEN "sending" ELSE "sent"]}
      BY <1>4 DEF Reading!Deliver
    <3>2. QED
      BY <3>1
  <2>2. PICK n : n = [m EXCEPT !.send = s]
    OBVIOUS
  <2>3. n.id = m.id /\ n.seen = m.seen /\ n.send = s
    BY <2>2 DEF MailHeld
  <2>4. MailFits(n)
    BY <2>3 DEF MailFits
  <2>5. QED
    BY <2>1, <2>2, <2>4
<1>5. ASSUME NEW h \in Readers, Reading!HandleSeen(h)
      PROVE  \A n \in mail' : MailFits(n)
  <2>1. PICK v : v = (acts[h].op = "read")
    OBVIOUS
  <2>2. PICK targets : targets = Reading!Targets(h)
    OBVIOUS
  <2>3. mail' = (mail \ targets) \cup {[m EXCEPT !.seen = v] : m \in targets}
    BY <1>5, <2>1, <2>2, Zenon DEF Reading!HandleSeen
  <2>4. targets \subseteq mail /\ v \in BOOLEAN
    BY <2>1, <2>2 DEF Reading!Targets
  <2>5. ASSUME NEW m \in targets
        PROVE  MailFits([m EXCEPT !.seen = v])
    <3>1. PICK n : n = [m EXCEPT !.seen = v]
      OBVIOUS
    <3>2. n.id = m.id /\ n.seen = v /\ n.send = m.send
      BY <2>4, <3>1 DEF MailHeld
    <3>3. MailFits(n)
      BY <2>4, <3>2 DEF MailFits
    <3>4. QED
      BY <3>1, <3>3
  <2>6. QED
    BY <2>3, <2>4, <2>5
<1>6. ASSUME \/ \E c \in Convs : Reading!SaveDraft(c) \/ Reading!OpenConversation(c)
             \/ \E m \in mail : Reading!Vanish(m)
             \/ \E h \in Readers : \/ Reading!HandleStatus(h) \/ Reading!DeleteOutgoing(h) \/ Reading!QueueMoves(h)
                                   \/ Reading!DeleteDrafts(h) \/ Reading!HandleStartConversation(h)
                                   \/ \E c \in Convs : Reading!ReadConversation(h, c)
             \/ Reading!StartWalk \/ Reading!NextPage \/ Reading!EndWalk
             \/ Reading!LoadOlder \/ Reading!LoadNewer \/ Reading!AnswerRefresh \/ Reading!ApplyRefresh
             \/ Reading!CloseConversation
      PROVE  mail' \subseteq mail
  BY <1>6 DEF Reading!SaveDraft, Reading!OpenConversation, Reading!Vanish, Reading!HandleStatus,
              Reading!DeleteOutgoing, Reading!QueueMoves, Reading!DeleteDrafts, Reading!HandleStartConversation,
              Reading!ReadConversation, Reading!StartWalk, Reading!NextPage, Reading!EndWalk, Reading!LoadOlder,
              Reading!LoadNewer, Reading!AnswerRefresh, Reading!ApplyRefresh, Reading!CloseConversation
<1>7. QED
  BY <1>1, <1>2, <1>3, <1>4, <1>5, <1>6 DEF Reading!Next

\* A status is given for the message that was read last.
LEMMA StatusesStayFit ==
  ASSUME StatusesFit, Reading!Next
  PROVE  StatusesFit'
<1>1. CASE statuses' = statuses
  BY <1>1 DEF StatusesFit
<1>2. ASSUME NEW h \in Readers, Reading!HandleStatus(h)
      PROVE  StatusesFit'
  <2>1. PICK s \in {"answered", "unanswered", "no_action"} :
          statuses' = IF acts[h].key = 0 THEN statuses
                      ELSE [statuses EXCEPT ![acts[h].conv] = [status |-> s, key |-> acts[h].key]]
    BY <1>2 DEF Reading!HandleStatus
  <2>2. CASE acts[h].key # 0
    <3>1. PICK x : x = [status |-> s, key |-> acts[h].key]
      OBVIOUS
    <3>2. x.status = s /\ statuses' = [statuses EXCEPT ![acts[h].conv] = x]
      BY <2>1, <2>2, <3>1
    <3>3. statuses' = [c \in Convs |-> IF c = acts[h].conv THEN x ELSE statuses[c]]
      BY <3>2 DEF StatusesFit
    <3>4. QED
      BY <3>2, <3>3 DEF StatusesFit
  <2>3. QED
    BY <1>1, <2>1, <2>2
<1>3. statuses' = statuses \/ \E h \in Readers : Reading!HandleStatus(h)
  BY DEF Reading!Next, Reading!Arrive, Reading!Send, Reading!Deliver, Reading!HandleSeen, Reading!SaveDraft,
         Reading!OpenConversation, Reading!Vanish, Reading!DeleteOutgoing, Reading!QueueMoves, Reading!DeleteDrafts,
         Reading!HandleStartConversation, Reading!ReadConversation, Reading!StartWalk, Reading!NextPage,
         Reading!EndWalk, Reading!LoadOlder, Reading!LoadNewer, Reading!AnswerRefresh, Reading!ApplyRefresh,
         Reading!CloseConversation
<1>4. QED
  BY <1>1, <1>2, <1>3

\* A draft has a date, or there is none.
LEMMA DraftDatesStayFit ==
  ASSUME DraftDatesFit, Reading!Next
  PROVE  DraftDatesFit'
<1>1. draftDates' = draftDates \/ \E c, d : d \in Dates \cup {0} /\ draftDates' = [draftDates EXCEPT ![c] = d]
  BY DEF Reading!Next, Reading!Arrive, Reading!Send, Reading!Deliver, Reading!HandleSeen, Reading!SaveDraft,
         Reading!OpenConversation, Reading!Vanish, Reading!DeleteOutgoing, Reading!QueueMoves, Reading!DeleteDrafts,
         Reading!HandleStartConversation, Reading!ReadConversation, Reading!StartWalk, Reading!NextPage,
         Reading!EndWalk, Reading!LoadOlder, Reading!LoadNewer, Reading!AnswerRefresh, Reading!ApplyRefresh,
         Reading!CloseConversation, Reading!HandleStatus
<1>2. QED
  BY <1>1 DEF DraftDatesFit

\* The counters keep within their bounds.
LEMMA CountsStayFit ==
  ASSUME CountsFit, Reading!Next
  PROVE  CountsFit'
<1>1. /\ mailMade' = mailMade \/ (mailMade < MaxMail /\ mailMade' = mailMade + 1)
      /\ actsAsked' = actsAsked \/ (actsAsked < MaxActs /\ actsAsked' = actsAsked + 1)
      /\ changes' = changes \/ (changes < MaxChanges /\ changes' = changes + 1)
  BY DEF Reading!Next, Reading!Arrive, Reading!Send, Reading!Deliver, Reading!HandleSeen, Reading!SaveDraft,
         Reading!OpenConversation, Reading!Vanish, Reading!DeleteOutgoing, Reading!QueueMoves, Reading!DeleteDrafts,
         Reading!HandleStartConversation, Reading!ReadConversation, Reading!StartWalk, Reading!NextPage,
         Reading!EndWalk, Reading!LoadOlder, Reading!LoadNewer, Reading!AnswerRefresh, Reading!ApplyRefresh,
         Reading!CloseConversation, Reading!HandleStatus, Reading!Change
<1>2. MaxMail \in Nat /\ MaxActs \in Nat /\ MaxChanges \in Nat
  BY MailboxAssumption DEF Reading!ConversationsAssumption
<1>3. QED
  BY <1>1, <1>2 DEF CountsFit

\* A request has read messages that there were.
LEMMA KeysStayFit ==
  ASSUME MailHeld, ActsHeld, KeysFit, CountsFit, \A m \in mail : MailFits(m), Reading!Next
  PROVE  KeysFit'
<1>1. mailMade \in Nat /\ (mailMade' = mailMade \/ mailMade' = mailMade + 1)
  BY DEF MailHeld, Reading!Next, Reading!Arrive, Reading!Send, Reading!Deliver, Reading!HandleSeen, Reading!SaveDraft,
         Reading!OpenConversation, Reading!Vanish, Reading!DeleteOutgoing, Reading!QueueMoves, Reading!DeleteDrafts,
         Reading!HandleStartConversation, Reading!ReadConversation, Reading!StartWalk, Reading!NextPage,
         Reading!EndWalk, Reading!LoadOlder, Reading!LoadNewer, Reading!AnswerRefresh, Reading!ApplyRefresh,
         Reading!CloseConversation, Reading!HandleStatus
<1>2. \A h \in Readers : acts[h].keys \subseteq 1..mailMade'
  BY <1>1 DEF KeysFit
<1>3. ASSUME NEW h \in Readers, NEW q, acts' = [acts EXCEPT ![h] = q], q.keys \subseteq 1..mailMade'
      PROVE  KeysFit'
  <2>1. acts' = [k \in Readers |-> IF k = h THEN q ELSE acts[k]]
    BY <1>3 DEF ActsHeld
  <2>2. QED
    BY <1>2, <1>3, <2>1 DEF KeysFit
<1>4. CASE acts' = acts
  BY <1>2, <1>4 DEF KeysFit
<1>5. ASSUME NEW h \in Readers, acts' = [acts EXCEPT ![h] = Reading!NoRequest]
      PROVE  KeysFit'
  <2>1. Reading!NoRequest.keys = {}
    BY DEF Reading!NoRequest
  <2>2. QED
    BY <1>3, <1>5, <2>1
<1>6. ASSUME NEW h \in Readers, NEW s, acts' = [acts EXCEPT ![h] = [@ EXCEPT !.step = s]]
      PROVE  KeysFit'
  <2>1. PICK q : q = [acts[h] EXCEPT !.step = s]
    OBVIOUS
  <2>2. q.keys = acts[h].keys
    BY <2>1 DEF ActsHeld
  <2>3. acts' = [acts EXCEPT ![h] = q]
    BY <1>6, <2>1
  <2>4. QED
    BY <1>2, <1>3, <2>2, <2>3
<1>7. ASSUME NEW h \in Readers, NEW c \in Convs, Reading!ReadConversation(h, c)
      PROVE  KeysFit'
  <2>1. PICK op \in Reading!Ops :
          \E messages \in IF op = "message" THEN {{m} : m \in Reading!MessagesOf(c)} ELSE {Reading!MessagesOf(c)} :
            acts' = [acts EXCEPT ![h] =
              [step |-> "read", op |-> op, conv |-> c, keys |-> {m.id : m \in messages},
               rows |-> {Reading!Place(m) : m \in {n \in messages : n.send # "received"}},
               key |-> Reading!StatusMessageKey(c)]]
    BY <1>7, Zenon DEF Reading!ReadConversation
  <2>2. PICK messages \in IF op = "message" THEN {{m} : m \in Reading!MessagesOf(c)} ELSE {Reading!MessagesOf(c)} :
            acts' = [acts EXCEPT ![h] =
              [step |-> "read", op |-> op, conv |-> c, keys |-> {m.id : m \in messages},
               rows |-> {Reading!Place(m) : m \in {n \in messages : n.send # "received"}},
               key |-> Reading!StatusMessageKey(c)]]
    BY <2>1
  <2>3. messages \subseteq mail
    BY <2>2 DEF Reading!MessagesOf
  <2>4. PICK q : q = [step |-> "read", op |-> op, conv |-> c, keys |-> {m.id : m \in messages},
               rows |-> {Reading!Place(m) : m \in {n \in messages : n.send # "received"}},
               key |-> Reading!StatusMessageKey(c)]
    OBVIOUS
  <2>5. q.keys = {m.id : m \in messages} /\ acts' = [acts EXCEPT ![h] = q]
    BY <2>2, <2>4
  <2>6. \A m \in messages : m.id \in 1..mailMade'
    BY <1>1, <2>3 DEF MailHeld, MailFits
  <2>7. QED
    BY <1>3, <2>5, <2>6
<1>8. \/ acts' = acts
      \/ \E h \in Readers, c \in Convs : Reading!ReadConversation(h, c)
      \/ \E h \in Readers : Reading!DeleteOutgoing(h) \/ Reading!QueueMoves(h)
      \/ \E h \in Readers : acts' = [acts EXCEPT ![h] = Reading!NoRequest]
  BY DEF Reading!Next, Reading!Arrive, Reading!Send, Reading!Deliver, Reading!HandleSeen, Reading!SaveDraft,
         Reading!OpenConversation, Reading!Vanish, Reading!DeleteDrafts, Reading!Finish,
         Reading!HandleStartConversation, Reading!StartWalk, Reading!NextPage,
         Reading!EndWalk, Reading!LoadOlder, Reading!LoadNewer, Reading!AnswerRefresh, Reading!ApplyRefresh,
         Reading!CloseConversation, Reading!HandleStatus
<1>9. ASSUME NEW h \in Readers, Reading!DeleteOutgoing(h) \/ Reading!QueueMoves(h)
      PROVE  \/ acts' = [acts EXCEPT ![h] = Reading!NoRequest]
             \/ \E s : acts' = [acts EXCEPT ![h] = [@ EXCEPT !.step = s]]
  BY <1>9, Zenon DEF Reading!DeleteOutgoing, Reading!QueueMoves
<1>10. QED
  BY <1>4, <1>5, <1>6, <1>7, <1>8, <1>9

\* All of it together: at first ...
LEMMA ReadBoundsBegin ==
  ASSUME Reading!Init
  PROVE  ReadBounds
<1>1. MaxMail \in Nat /\ MaxActs \in Nat /\ MaxChanges \in Nat
  BY MailboxAssumption DEF Reading!ConversationsAssumption
<1>2. QED
  BY <1>1 DEF Reading!Init, Reading!NoStatus, Reading!NoRequest, ReadBounds, StatusesFit, DraftDatesFit, KeysFit, CountsFit

\* ... at every step ...
LEMMA ReadBoundsStep ==
  ASSUME ReadInv, ReadBounds, Reading!Next
  PROVE  ReadBounds'
BY MailStaysFit, StatusesStayFit, DraftDatesStayFit, CountsStayFit, KeysStayFit DEF ReadBounds, ReadInv

\* ... and where nothing happens.
LEMMA ReadBoundsRest ==
  ASSUME ReadBounds, UNCHANGED readingVars
  PROVE  ReadBounds'
BY DEF readingVars, ReadBounds, StatusesFit, DraftDatesFit, KeysFit, CountsFit, MailFits

\* What is shown of a conversation is one of four words.
LEMMA ShownIsAWord ==
  ASSUME MailHeld, ReadBounds, NEW c \in Convs
  PROVE  Reading!Shown(c) \in {"draft", "answered", "unanswered", "no_action"}
<1>1. CASE draftDates[c] # 0 \/ Reading!Settled(c) = {}
  BY <1>1 DEF Reading!Shown
<1>2. CASE draftDates[c] = 0 /\ Reading!Settled(c) # {}
  <2> DEFINE S == Reading!Settled(c)
             P == {<<m.date, m.id>> : m \in S}
  <2>1. S \subseteq Reading!MessagesOf(c) /\ S \subseteq mail
    BY DEF Reading!Settled, Reading!MessagesOf
  <2>2. P \subseteq Reading!Places(c) /\ P # {}
    BY <1>2, <2>1 DEF Reading!Places, Reading!Place
  <2>3. P \subseteq Pairs /\ IsFiniteSet(P)
    <3>1. Reading!Places(c) \subseteq Pairs /\ IsFiniteSet(Reading!Places(c))
      BY PlacesHeld
    <3>2. P \in SUBSET Reading!Places(c)
      BY <2>2
    <3>3. QED
      BY <3>1, <3>2, FS_Subset
  <2>4. PICK p \in P : \A q \in P : q = p \/ Reading!Before(q, p)
    BY <2>2, <2>3, HighestIs
  <2>5. PICK m \in S : p = <<m.date, m.id>>
    OBVIOUS
  <2>6. \A n \in S : n = m \/ Reading!Before(Reading!Place(n), Reading!Place(m))
    <3> SUFFICES ASSUME NEW n \in S, n # m
                 PROVE  Reading!Before(Reading!Place(n), Reading!Place(m))
      OBVIOUS
    <3>1. n.id # m.id
      BY <2>1 DEF MailHeld
    <3>2. <<n.date, n.id>> \in P /\ <<n.date, n.id>> # p
      BY <2>5, <3>1
    <3>3. QED
      BY <2>4, <2>5, <3>2 DEF Reading!Place
  <2>7. Reading!Last(S) \in S
    BY <2>6 DEF Reading!Last
  <2>8. Reading!StatusMessageKey(c) # 0
    BY <1>2, <2>1, <2>7 DEF Reading!StatusMessageKey, ReadBounds, MailFits
  <2>9. statuses[c].key = Reading!StatusMessageKey(c) =>
          statuses[c].status \in {"answered", "unanswered", "no_action"}
    BY <2>8 DEF ReadBounds, StatusesFit
  <2>10. QED
    BY <1>2, <2>9 DEF Reading!Shown
<1>3. QED
  BY <1>1, <1>2

\* The conversations and their readers.
LEMMA ReadingKeepsTypes ==
  ASSUME ReadInv, ReadBounds
  PROVE  Reading!TypeOK
<1>1. MailHeld /\ WalkHeld /\ DatesHeld
  BY DEF ReadInv
<1>2. \A m \in mail : /\ m.id \in 1..mailMade /\ m.conv \in Convs /\ m.date \in Dates /\ m.seen \in BOOLEAN
                      /\ m.send \in {"received", "queued", "sending", "sent"}
  BY <1>1 DEF MailHeld, ReadBounds, MailFits
<1>3. \A c \in Reading!Listed : Reading!Shown(c) \in {"draft", "answered", "unanswered", "no_action"}
  BY <1>1, RowsAreListed, ShownIsAWord
<1>4. QED
  BY <1>1, <1>2, <1>3 DEF Reading!TypeOK, ReadBounds, DraftDatesFit, KeysFit, CountsFit, WalkHeld

\* The bounds of the instance that works.
Typable == IF working = "drafts" THEN FewTexts ELSE MaxTexts
Losable == IF working = "drafts" THEN MaxLosses ELSE MaxLosses + 1
SmallText(x) == x.window <= MaxWindows /\ x.n <= Typable
SmallWindow(x) ==
  /\ x.window <= MaxWindows /\ x.draftId <= MaxDrafts
  /\ SmallText(x.text) /\ SmallText(x.lastSaved) /\ SmallText(x.kept)
\* What is queued comes from a window.
SmallRequest(r) ==
  /\ r.window <= MaxWindows /\ r.id <= MaxDrafts /\ SmallText(r.text)
  /\ r.kind = "queue" => r.window # 0
SmallRow(x) == x = Drafts!NoDraft \/ (x.conversation \in Peers /\ SmallText(x.text))
RowsAreSmall == minted <= MaxDrafts /\ \A i \in 1..MaxDrafts : SmallRow(drafts[i])
WindowsAreSmall ==
  /\ windows <= MaxWindows /\ thrown \subseteq 1..MaxWindows
  /\ \A t \in Windows : SmallWindow(tabs[t])
RequestsAreSmall == \A r \in draftRequests : SmallRequest(r)
DraftBounds == RowsAreSmall /\ WindowsAreSmall /\ RequestsAreSmall

\* The bounds are numbers, and what is empty is small.
LEMMA BoundsAreNumbers ==
  /\ MaxWindows \in Nat /\ MaxDrafts \in Nat /\ MaxLosses \in Nat /\ Typable \in Nat
  /\ SmallText(Drafts!Blank) /\ SmallWindow(Drafts!Closed)
<1>1. MaxWindows \in Nat /\ MaxDrafts \in Nat /\ MaxLosses \in Nat /\ MaxTexts \in Nat /\ FewTexts \in Nat
  BY MailboxAssumption DEF Drafts!DraftsAssumption, Typing!DraftsAssumption
<1>2. Typable \in Nat
  BY <1>1 DEF Typable
<1>3. SmallText(Drafts!Blank)
  BY <1>1, <1>2 DEF SmallText, Drafts!Blank
<1>4. SmallWindow(Drafts!Closed)
  BY <1>1, <1>3 DEF SmallWindow, Drafts!Closed
<1>5. QED
  BY <1>1, <1>2, <1>3, <1>4

\* The helpers keep a window small, and what they send.
LEMMA SmallForms ==
  ASSUME NEW x \in WindowForm, SmallWindow(x)
  PROVE  /\ SmallWindow(Drafts!AfterSave(x)) /\ SmallWindow(Drafts!Forgotten(x))
         /\ \A t \in Windows \cup {Nobody}, k \in {"save", "delete", "queue"} :
              (k = "queue" => x.window # 0) => SmallRequest(Drafts!Request(k, t, x))
<1>1. SmallWindow(Drafts!AfterSave(x))
  <2>1. CASE ~Drafts!Unsaved(x)
    BY <2>1 DEF Drafts!AfterSave
  <2>2. CASE Drafts!Unsaved(x) /\ Drafts!Postponed(x)
    <3>1. PICK y : y = [x EXCEPT !.pending = TRUE]
      OBVIOUS
    <3>2. y.window = x.window /\ y.draftId = x.draftId /\ y.text = x.text /\ y.lastSaved = x.lastSaved /\ y.kept = x.kept
      BY <3>1 DEF WindowForm
    <3>3. SmallWindow(y)
      BY <3>2 DEF SmallWindow
    <3>4. QED
      BY <2>2, <3>1, <3>3 DEF Drafts!AfterSave
  <2>3. CASE Drafts!Unsaved(x) /\ ~Drafts!Postponed(x)
    <3>1. PICK y : y = [x EXCEPT !.saving = TRUE]
      OBVIOUS
    <3>2. y.window = x.window /\ y.draftId = x.draftId /\ y.text = x.text /\ y.lastSaved = x.lastSaved /\ y.kept = x.kept
      BY <3>1 DEF WindowForm
    <3>3. SmallWindow(y)
      BY <3>2 DEF SmallWindow
    <3>4. QED
      BY <2>3, <3>1, <3>3 DEF Drafts!AfterSave
  <2>4. QED
    BY <2>1, <2>2, <2>3
<1>2. SmallWindow(Drafts!Forgotten(x))
  <2>1. PICK b : b = Drafts!Blank
    OBVIOUS
  <2>2. PICK y : y = [x EXCEPT !.discarded = TRUE, !.draftId = 0, !.lastSaved = b, !.text = b,
                               !.saving = FALSE, !.pending = FALSE, !.window = 0]
    OBVIOUS
  <2>3. y.window = 0 /\ y.draftId = 0 /\ y.text = b /\ y.lastSaved = b /\ y.kept = x.kept
    BY <2>2 DEF WindowForm
  <2>4. SmallWindow(y)
    BY <2>1, <2>3, BoundsAreNumbers DEF SmallWindow
  <2>5. QED
    BY <2>1, <2>2, <2>4 DEF Drafts!Forgotten
<1>3. ASSUME NEW t \in Windows \cup {Nobody}, NEW k \in {"save", "delete", "queue"}, k = "queue" => x.window # 0
      PROVE  SmallRequest(Drafts!Request(k, t, x))
  <2>1. PICK r : r = Drafts!Request(k, t, x)
    OBVIOUS
  <2>2. r.kind = k /\ r.window = x.window /\ r.id = x.draftId /\ r.text = x.text
    BY <2>1 DEF Drafts!Request
  <2>3. SmallRequest(r)
    BY <1>3, <2>2 DEF SmallRequest, SmallWindow
  <2>4. QED
    BY <2>1, <2>3
<1>4. QED
  BY <1>1, <1>2, <1>3

\* A request that goes on stays small.
LEMMA SmallStep ==
  ASSUME NEW r \in DraftRequestForm, SmallRequest(r), NEW s
  PROVE  /\ SmallRequest([r EXCEPT !.step = s]) /\ SmallRequest([r EXCEPT !.tab = s])
         /\ SmallRequest([r EXCEPT !.kind = "delete", !.step = s])
         /\ \A i \in 1..MaxDrafts : SmallRequest([r EXCEPT !.id = i, !.step = s])
<1>1. SmallRequest([r EXCEPT !.step = s]) /\ SmallRequest([r EXCEPT !.tab = s])
  BY DEF DraftRequestForm, SmallRequest
<1>2. SmallRequest([r EXCEPT !.kind = "delete", !.step = s])
  BY DEF DraftRequestForm, SmallRequest
<1>3. ASSUME NEW i \in 1..MaxDrafts
      PROVE  SmallRequest([r EXCEPT !.id = i, !.step = s])
  <2>1. PICK q : q = [r EXCEPT !.id = i, !.step = s]
    OBVIOUS
  <2>2. q.id = i /\ q.window = r.window /\ q.text = r.text /\ q.kind = r.kind
    BY <2>1 DEF DraftRequestForm
  <2>3. SmallRequest(q)
    BY <2>2, BoundsAreNumbers DEF SmallRequest
  <2>4. QED
    BY <2>1, <2>3
<1>4. QED
  BY <1>1, <1>2, <1>3

\* A window changes, and sends something.
LEMMA SmallGoes ==
  ASSUME DraftTypes, DraftBounds, working' = working, NEW t \in Windows, NEW x, tabs' = [tabs EXCEPT ![t] = x],
         SmallWindow(x), windows' = windows \/ (windows' = windows + 1 /\ windows < MaxWindows),
         thrown' \subseteq 1..MaxWindows, UNCHANGED <<drafts, minted>>,
         \A r \in draftRequests' : r \in draftRequests \/ SmallRequest(r)
  PROVE  DraftBounds'
<1>1. /\ Typable' = Typable /\ \A y : SmallText(y)' <=> SmallText(y)
  BY DEF Typable, SmallText
<1>2. /\ \A y : SmallWindow(y)' <=> SmallWindow(y)
      /\ \A y : SmallRequest(y)' <=> SmallRequest(y)
      /\ \A y : SmallRow(y)' <=> SmallRow(y)
  BY <1>1 DEF SmallWindow, SmallRequest, SmallRow
<1>3. \A u \in Windows : tabs'[u] = tabs[u] \/ tabs'[u] = x
  BY DEF DraftTypes
<1>4. windows' <= MaxWindows
  BY BoundsAreNumbers DEF DraftBounds, WindowsAreSmall, DraftTypes
<1>5. QED
  BY <1>2, <1>3, <1>4 DEF DraftBounds, RowsAreSmall, WindowsAreSmall, RequestsAreSmall

\* A request goes on, and may write a row.
LEMMA SmallServed ==
  ASSUME DraftBounds, working' = working, tabs' = tabs, windows' = windows,
         minted' = minted \/ minted' <= MaxDrafts, thrown' \subseteq 1..MaxWindows,
         \A i \in 1..MaxDrafts : drafts'[i] = drafts[i] \/ SmallRow(drafts'[i]),
         \A r \in draftRequests' : r \in draftRequests \/ SmallRequest(r)
  PROVE  DraftBounds'
<1>1. /\ Typable' = Typable /\ \A y : SmallText(y)' <=> SmallText(y)
  BY DEF Typable, SmallText
<1>2. /\ \A y : SmallWindow(y)' <=> SmallWindow(y)
      /\ \A y : SmallRequest(y)' <=> SmallRequest(y)
      /\ \A y : SmallRow(y)' <=> SmallRow(y)
  BY <1>1 DEF SmallWindow, SmallRequest, SmallRow
<1>3. QED
  BY <1>2 DEF DraftBounds, RowsAreSmall, WindowsAreSmall, RequestsAreSmall

\* Somebody types: the text is one of those the instance allows.
LEMMA SmallType ==
  ASSUME DraftTypes, DraftBounds, working' = working, NEW t \in Windows,
         (working = "drafts" /\ Drafts!Type(t)) \/ (working # "drafts" /\ Typing!Type(t))
  PROVE  DraftBounds'
<1>1. PICK n : /\ n = IF tabs[t].text.window = tabs[t].window THEN tabs[t].text.n + 1 ELSE 1
               /\ n <= Typable /\ tabs' = [tabs EXCEPT ![t].text = [window |-> tabs[t].window, n |-> n]]
  BY DEF Drafts!Type, Typing!Type, Typable
<1>2. UNCHANGED <<drafts, minted, draftRequests, windows, thrown>>
  BY DEF Drafts!Type, Typing!Type
<1>3. PICK x : x = [tabs[t] EXCEPT !.text = [window |-> tabs[t].window, n |-> n]]
  OBVIOUS
<1>4. tabs' = [tabs EXCEPT ![t] = x]
  BY <1>1, <1>3
<1>5. tabs[t] \in WindowForm /\ SmallWindow(tabs[t])
  BY DEF DraftTypes, DraftBounds, WindowsAreSmall
<1>6. /\ x.window = tabs[t].window /\ x.draftId = tabs[t].draftId /\ x.lastSaved = tabs[t].lastSaved
      /\ x.kept = tabs[t].kept /\ x.text.window = tabs[t].window /\ x.text.n = n
  BY <1>3, <1>5 DEF WindowForm
<1>7. SmallWindow(x)
  BY <1>1, <1>5, <1>6 DEF SmallWindow, SmallText
<1>8. thrown' \subseteq 1..MaxWindows
  BY <1>2 DEF DraftBounds, WindowsAreSmall
<1>9. QED
  BY <1>2, <1>4, <1>7, <1>8, SmallGoes

\* A window opens.
LEMMA SmallOpen ==
  ASSUME DraftTypes, DraftBounds, working' = working, NEW t \in Windows, Drafts!Open(t)
  PROVE  DraftBounds'
<1>a. PICK c \in Peers : \E id \in {0} \cup {i \in Drafts!DraftIds : Drafts!Exists(i) /\ drafts[i].conversation = c} :
        LET text == IF id = 0 THEN Drafts!Blank ELSE drafts[id].text IN
        tabs' = [tabs EXCEPT ![t] = [@ EXCEPT !.window = windows', !.conversation = c, !.text = text,
                   !.lastSaved = text, !.draftId = id, !.discarded = FALSE, !.kept = Drafts!Blank]]
  BY Zenon DEF Drafts!Open
<1>b. PICK id \in {0} \cup {i \in Drafts!DraftIds : Drafts!Exists(i) /\ drafts[i].conversation = c} :
        LET text == IF id = 0 THEN Drafts!Blank ELSE drafts[id].text IN
        tabs' = [tabs EXCEPT ![t] = [@ EXCEPT !.window = windows', !.conversation = c, !.text = text,
                   !.lastSaved = text, !.draftId = id, !.discarded = FALSE, !.kept = Drafts!Blank]]
  BY <1>a
<1>1. id <= MaxDrafts /\ (id # 0 => id \in 1..MaxDrafts /\ drafts[id] # Drafts!NoDraft)
  <2>1. id = 0 \/ (id \in Drafts!DraftIds /\ Drafts!Exists(id))
    BY <1>b, Zenon
  <2>2. QED
    BY <2>1, BoundsAreNumbers DEF Drafts!DraftIds, Drafts!Exists
<1>2. PICK text : /\ text = IF id = 0 THEN Drafts!Blank ELSE drafts[id].text
                  /\ tabs' = [tabs EXCEPT ![t] = [@ EXCEPT !.window = windows', !.conversation = c, !.text = text,
                   !.lastSaved = text, !.draftId = id, !.discarded = FALSE, !.kept = Drafts!Blank]]
  BY <1>b
<1>3. SmallText(text)
  <2>1. id # 0 => SmallRow(drafts[id])
    BY <1>1 DEF DraftBounds, RowsAreSmall
  <2>2. QED
    BY <1>1, <1>2, <2>1, BoundsAreNumbers DEF SmallRow
<1>4. PICK b : b = Drafts!Blank
  OBVIOUS
<1>5. PICK x : /\ x = [tabs[t] EXCEPT !.window = windows', !.conversation = c, !.text = text,
                   !.lastSaved = text, !.draftId = id, !.discarded = FALSE, !.kept = b]
               /\ tabs' = [tabs EXCEPT ![t] = x]
  BY <1>2, <1>4
<1>6. /\ UNCHANGED <<drafts, minted, draftRequests, thrown>> /\ windows < MaxWindows /\ windows' = windows + 1
      /\ windows \in Nat /\ tabs[t] \in WindowForm
  BY DEF Drafts!Open, DraftTypes
<1>7. x.window = windows' /\ x.text = text /\ x.lastSaved = text /\ x.draftId = id /\ x.kept = b
  BY <1>5, <1>6 DEF WindowForm
<1>8. SmallWindow(x)
  <2>1. windows' <= MaxWindows
    BY <1>6, BoundsAreNumbers
  <2>2. QED
    BY <1>1, <1>3, <1>4, <1>7, <2>1, BoundsAreNumbers DEF SmallWindow
<1>9. thrown' \subseteq 1..MaxWindows
  BY <1>6 DEF DraftBounds, WindowsAreSmall
<1>10. QED
  BY <1>5, <1>6, <1>8, <1>9, SmallGoes

\* A window saves, and stays or closes.
LEMMA SmallSave ==
  ASSUME DraftTypes, DraftBounds, working' = working, NEW t \in Windows, Drafts!Autosave(t) \/ Drafts!Close(t)
  PROVE  DraftBounds'
<1>1. tabs[t] \in WindowForm /\ SmallWindow(tabs[t]) /\ SmallWindow(Drafts!AfterSave(tabs[t]))
  <2>1. tabs[t] \in WindowForm /\ SmallWindow(tabs[t])
    BY DEF DraftTypes, DraftBounds, WindowsAreSmall
  <2>2. QED
    BY <2>1, SmallForms
<1>2. PICK y : y = Drafts!AfterSave(tabs[t])
  OBVIOUS
<1>3. y \in WindowForm /\ SmallWindow(y)
  BY <1>1, <1>2, DraftForms
<1>4. /\ UNCHANGED <<drafts, minted, windows, thrown>>
      /\ draftRequests' = draftRequests \cup Drafts!SaveRequest(t, tabs[t])
  BY DEF Drafts!Autosave, Drafts!Close
<1>5. \A r \in draftRequests' : r \in draftRequests \/ SmallRequest(r)
  BY <1>1, <1>4, SmallForms, SaveSent
<1>6. PICK x : tabs' = [tabs EXCEPT ![t] = x] /\ SmallWindow(x)
  <2>1. CASE Drafts!Autosave(t)
    BY <1>2, <1>3, <2>1 DEF Drafts!Autosave
  <2>2. CASE Drafts!Close(t)
    <3>1. PICK k : k = IF tabs[t].text.window = tabs[t].window THEN tabs[t].text ELSE Drafts!Blank
      OBVIOUS
    <3>2. PICK x : x = [y EXCEPT !.window = 0, !.kept = k]
      OBVIOUS
    <3>3. tabs' = [tabs EXCEPT ![t] = x]
      BY <1>2, <2>2, <3>1, <3>2 DEF Drafts!Close
    <3>4. SmallText(k)
      BY <1>1, <3>1, BoundsAreNumbers DEF SmallWindow
    <3>5. x.window = 0 /\ x.draftId = y.draftId /\ x.text = y.text /\ x.lastSaved = y.lastSaved /\ x.kept = k
      BY <1>3, <3>2 DEF WindowForm
    <3>6. SmallWindow(x)
      BY <1>3, <3>4, <3>5, BoundsAreNumbers DEF SmallWindow
    <3>7. QED
      BY <3>3, <3>6
  <2>3. QED
    BY <2>1, <2>2
<1>7. thrown' \subseteq 1..MaxWindows
  BY <1>4 DEF DraftBounds, WindowsAreSmall
<1>8. QED
  BY <1>4, <1>5, <1>6, <1>7, SmallGoes

\* A deletion is small.
LEMMA SmallDeletion ==
  ASSUME DraftTypes, DraftBounds, NEW t \in Windows
  PROVE  \A r \in Drafts!Deleting(t) : SmallRequest(r)
<1>1. tabs[t] \in WindowForm /\ SmallWindow(tabs[t])
  BY DEF DraftTypes, DraftBounds, WindowsAreSmall
<1>2. \A r \in Drafts!Deleting(t) : r = Drafts!Request("delete", t, tabs[t])
  BY DEF Drafts!Deleting
<1>3. SmallRequest(Drafts!Request("delete", t, tabs[t]))
  BY <1>1, SmallForms
<1>4. QED
  BY <1>2, <1>3

\* A window is discarded.
LEMMA SmallDiscard ==
  ASSUME DraftTypes, DraftBounds, working' = working, NEW t \in Windows, Discarded(t)
  PROVE  DraftBounds'
<1>1. tabs[t] \in WindowForm /\ SmallWindow(tabs[t])
  BY DEF DraftTypes, DraftBounds, WindowsAreSmall
<1>2. PICK x : x = Drafts!Forgotten(tabs[t])
  OBVIOUS
<1>3. SmallWindow(x) /\ tabs' = [tabs EXCEPT ![t] = x]
  BY <1>1, <1>2, SmallForms DEF Discarded
<1>4. tabs[t].window \in 1..MaxWindows
  BY <1>1, BoundsAreNumbers DEF Discarded, SmallWindow, WindowForm
<1>5. thrown' \subseteq 1..MaxWindows
  BY <1>4 DEF Discarded, DraftBounds, WindowsAreSmall
<1>6. \A r \in draftRequests' : r \in draftRequests \/ SmallRequest(r)
  BY SmallDeletion DEF Discarded
<1>7. QED
  BY <1>3, <1>5, <1>6, SmallGoes DEF Discarded

\* A window is sent.
LEMMA SmallSubmit ==
  ASSUME DraftTypes, DraftBounds, working' = working, NEW t \in Windows, Submitted(t), tabs[t].window # 0
  PROVE  DraftBounds'
<1>1. tabs[t] \in WindowForm /\ SmallWindow(tabs[t])
  BY DEF DraftTypes, DraftBounds, WindowsAreSmall
<1>2. SmallRequest(Drafts!Request("queue", t, tabs[t]))
  BY <1>1, SmallForms
<1>3. PICK x : x = [tabs[t] EXCEPT !.sending = TRUE]
  OBVIOUS
<1>4. /\ x.window = tabs[t].window /\ x.draftId = tabs[t].draftId /\ x.text = tabs[t].text
      /\ x.lastSaved = tabs[t].lastSaved /\ x.kept = tabs[t].kept
  BY <1>1, <1>3 DEF WindowForm
<1>5. SmallWindow(x) /\ tabs' = [tabs EXCEPT ![t] = x]
  BY <1>1, <1>3, <1>4 DEF SmallWindow, Submitted
<1>6. \A r \in draftRequests' : r \in draftRequests \/ SmallRequest(r)
  BY <1>2 DEF Submitted
<1>7. thrown' \subseteq 1..MaxWindows
  BY DEF Submitted, DraftBounds, WindowsAreSmall
<1>8. QED
  BY <1>5, <1>6, <1>7, SmallGoes DEF Submitted

\* The answer to a message.
LEMMA SmallQueueReturns ==
  ASSUME DraftTypes, DraftBounds, working' = working, NEW t \in Windows, Drafts!QueueReturns(t)
  PROVE  DraftBounds'
<1>1. PICK r \in draftRequests :
        /\ draftRequests' = (draftRequests \ {r}) \cup (IF r.step = "answered" THEN Drafts!Deleting(t) ELSE {})
        /\ tabs' = [tabs EXCEPT ![t] = [(IF r.step = "answered" THEN Drafts!Forgotten(@) ELSE @) EXCEPT !.sending = FALSE]]
        /\ UNCHANGED <<drafts, minted, windows, thrown>>
  BY DEF Drafts!QueueReturns
<1>2. tabs[t] \in WindowForm /\ SmallWindow(tabs[t])
  BY DEF DraftTypes, DraftBounds, WindowsAreSmall
<1>3. PICK y : y = IF r.step = "answered" THEN Drafts!Forgotten(tabs[t]) ELSE tabs[t]
  OBVIOUS
<1>4. y \in WindowForm /\ SmallWindow(y)
  BY <1>2, <1>3, SmallForms, DraftForms
<1>5. PICK x : x = [y EXCEPT !.sending = FALSE]
  OBVIOUS
<1>6. x.window = y.window /\ x.draftId = y.draftId /\ x.text = y.text /\ x.lastSaved = y.lastSaved /\ x.kept = y.kept
  BY <1>4, <1>5 DEF WindowForm
<1>7. SmallWindow(x) /\ tabs' = [tabs EXCEPT ![t] = x]
  BY <1>1, <1>3, <1>4, <1>5, <1>6 DEF SmallWindow
<1>8. \A q \in draftRequests' : q \in draftRequests \/ SmallRequest(q)
  BY <1>1, SmallDeletion
<1>9. thrown' \subseteq 1..MaxWindows
  BY <1>1 DEF DraftBounds, WindowsAreSmall
<1>10. QED
  BY <1>1, <1>7, <1>8, <1>9, SmallGoes

\* The answer to a save.
LEMMA SmallSaveReturns ==
  ASSUME DraftTypes, DraftBounds, working' = working, NEW t \in Windows, Drafts!SaveReturns(t)
  PROVE  DraftBounds'
<1> DEFINE tab == tabs[t]
           Ok(r) == r.step = "answered"
           Adopted(r) == IF Ok(r) /\ ~tab.discarded /\ tab.window = r.window
                           THEN [tab EXCEPT !.draftId = r.id, !.lastSaved = r.text] ELSE tab
           Settled(r) == [Adopted(r) EXCEPT !.saving = FALSE, !.pending = FALSE]
           Deletion(r) == IF Ok(r) /\ tab.discarded THEN {[r EXCEPT !.kind = "delete", !.step = "sent"]} ELSE {}
           Saving(r) == IF tab.pending THEN Drafts!SaveRequest(t, Settled(r)) ELSE {}
<1>1. PICK r \in draftRequests :
        /\ tabs' = [tabs EXCEPT ![t] = IF tab.pending THEN Drafts!AfterSave(Settled(r)) ELSE Settled(r)]
        /\ draftRequests' = (draftRequests \ {r}) \cup Deletion(r) \cup Saving(r)
  BY Zenon DEF Drafts!SaveReturns
<1>2. UNCHANGED <<drafts, minted, windows, thrown>>
  BY DEF Drafts!SaveReturns
<1>3. tab \in WindowForm /\ SmallWindow(tab) /\ r \in DraftRequestForm /\ SmallRequest(r)
  BY DEF DraftTypes, DraftBounds, WindowsAreSmall, RequestsAreSmall
<1>4. PICK a : a = Adopted(r)
  OBVIOUS
<1>5. a \in WindowForm /\ SmallWindow(a)
  <2>1. CASE Ok(r) /\ ~tab.discarded /\ tab.window = r.window
    <3>1. a = [tab EXCEPT !.draftId = r.id, !.lastSaved = r.text]
      BY <1>4, <2>1
    <3>2. /\ a \in WindowForm /\ a.window = tab.window /\ a.draftId = r.id /\ a.text = tab.text
          /\ a.lastSaved = r.text /\ a.kept = tab.kept
      BY <1>3, <3>1 DEF WindowForm, DraftRequestForm
    <3>3. QED
      BY <1>3, <3>2 DEF SmallWindow, SmallRequest
  <2>2. CASE ~(Ok(r) /\ ~tab.discarded /\ tab.window = r.window)
    BY <1>3, <1>4, <2>2
  <2>3. QED
    BY <2>1, <2>2
<1>6. PICK s : s = [a EXCEPT !.saving = FALSE, !.pending = FALSE]
  OBVIOUS
<1>7. s = Settled(r)
  BY <1>4, <1>6
<1>8. s \in WindowForm /\ SmallWindow(s)
  <2>1. /\ s \in WindowForm /\ s.window = a.window /\ s.draftId = a.draftId /\ s.text = a.text
        /\ s.lastSaved = a.lastSaved /\ s.kept = a.kept
    BY <1>5, <1>6 DEF WindowForm
  <2>2. QED
    BY <1>5, <2>1 DEF SmallWindow
<1>9. PICK x : x = IF tab.pending THEN Drafts!AfterSave(s) ELSE s
  OBVIOUS
<1>10. SmallWindow(x) /\ tabs' = [tabs EXCEPT ![t] = x]
  BY <1>1, <1>7, <1>8, <1>9, SmallForms
<1>11. \A q \in Deletion(r) : SmallRequest(q)
  BY <1>3, SmallStep
<1>12. \A q \in Saving(r) : SmallRequest(q)
  <2>1. \A q \in Saving(r) : q \in Drafts!SaveRequest(t, s)
    BY <1>7
  <2>2. \A q \in Drafts!SaveRequest(t, s) : q = Drafts!Request("save", t, s)
    BY <1>8, SaveSent
  <2>3. SmallRequest(Drafts!Request("save", t, s))
    BY <1>8, SmallForms
  <2>4. QED
    BY <2>1, <2>2, <2>3
<1>13. \A q \in draftRequests' : q \in draftRequests \/ SmallRequest(q)
  BY <1>1, <1>11, <1>12
<1>14. thrown' \subseteq 1..MaxWindows
  BY <1>2 DEF DraftBounds, WindowsAreSmall
<1>15. QED
  BY <1>2, <1>10, <1>13, <1>14, SmallGoes

\* A tab dies.
LEMMA SmallDie ==
  ASSUME DraftTypes, DraftBounds, working' = working, NEW t \in Windows, Died(t)
  PROVE  DraftBounds'
<1>1. PICK x : x = Drafts!Closed
  OBVIOUS
<1>2. SmallWindow(x) /\ tabs' = [tabs EXCEPT ![t] = x]
  BY <1>1, BoundsAreNumbers DEF Died
<1>3. ASSUME NEW r \in draftRequests
      PROVE  SmallRequest(Orphan(r, t))
  <2>1. r \in DraftRequestForm /\ SmallRequest(r)
    BY DEF DraftTypes, DraftBounds, RequestsAreSmall
  <2>2. QED
    BY <2>1, SmallStep DEF Orphan
<1>4. \A q \in draftRequests' : SmallRequest(q)
  <2>1. \A q \in draftRequests' : \E r \in draftRequests : q = Orphan(r, t)
    BY DEF Died
  <2>2. QED
    BY <1>3, <2>1
<1>5. thrown' \subseteq 1..MaxWindows
  BY DEF Died, DraftBounds, WindowsAreSmall
<1>6. QED
  BY <1>2, <1>4, <1>5, SmallGoes DEF Died

\* Another handler of the server saves an empty draft, or deletes a stored one.
LEMMA SmallJoin ==
  ASSUME DraftTypes, DraftBounds, working' = working,
         \/ Drafts!StartConversation \/ Typing!StartConversation
         \/ Drafts!PurgeConversation \/ Typing!PurgeConversation
  PROVE  DraftBounds'
<1>0. \A i \in 1..MaxDrafts : i <= MaxDrafts
  BY BoundsAreNumbers
<1>1. UNCHANGED <<drafts, minted, tabs, windows, thrown>>
  BY DEF Drafts!StartConversation, Typing!StartConversation, Drafts!PurgeConversation, Typing!PurgeConversation
<1>2. /\ Drafts!Closed \in WindowForm /\ SmallWindow(Drafts!Closed) /\ Nobody \in Windows \cup {Nobody}
      /\ "save" \in {"save", "delete", "queue"} /\ "delete" \in {"save", "delete", "queue"}
  BY DraftForms, BoundsAreNumbers
<1>3. PICK p : p = Drafts!Request("save", Nobody, Drafts!Closed)
  OBVIOUS
<1>4. PICK q : q = Drafts!Request("delete", Nobody, Drafts!Closed)
  OBVIOUS
<1>5. p \in DraftRequestForm /\ SmallRequest(p)
  BY <1>2, <1>3, DraftForms, SmallForms
<1>6. q \in DraftRequestForm /\ SmallRequest(q)
  BY <1>2, <1>4, DraftForms, SmallForms
<1>7. CASE Drafts!StartConversation \/ Typing!StartConversation
  <2>1. PICK c \in Peers \ {""} : draftRequests' = draftRequests \cup {[p EXCEPT !.conversation = c]}
    BY <1>3, <1>7, SameDrafts DEF Drafts!StartConversation, Typing!StartConversation
  <2>2. PICK s : s = [p EXCEPT !.conversation = c]
    OBVIOUS
  <2>3. s.window = p.window /\ s.id = p.id /\ s.text = p.text /\ s.kind = p.kind
    BY <1>5, <2>2 DEF DraftRequestForm
  <2>4. SmallRequest(s)
    BY <1>5, <2>3 DEF SmallRequest
  <2>5. \A r \in draftRequests' : r \in draftRequests \/ SmallRequest(r)
    BY <2>1, <2>2, <2>4
  <2>6. QED
    BY <1>1, <2>5, SmallServed DEF DraftBounds, WindowsAreSmall
<1>8. CASE Drafts!PurgeConversation \/ Typing!PurgeConversation
  <2>1. PICK c \in Peers \ {""} : \E id \in Drafts!OfConversation(c) :
          draftRequests' = draftRequests \cup {[Drafts!Request("delete", Nobody, Drafts!Closed) EXCEPT !.id = id]}
    BY <1>8, SameDrafts DEF Drafts!PurgeConversation, Typing!PurgeConversation
  <2>2. PICK id \in Drafts!OfConversation(c) :
          draftRequests' = draftRequests \cup {[Drafts!Request("delete", Nobody, Drafts!Closed) EXCEPT !.id = id]}
    BY <2>1
  <2>3. id \in 1..MaxDrafts
    BY DEF Drafts!OfConversation, Drafts!DraftIds
  <2>4. PICK s : s = [q EXCEPT !.id = id]
    OBVIOUS
  <2>5. s.window = q.window /\ s.id = id /\ s.text = q.text /\ s.kind = q.kind
    BY <1>6, <2>4 DEF DraftRequestForm
  <2>6. SmallRequest(s)
    <3>1. id <= MaxDrafts
      BY <1>0, <2>3, Zenon
    <3>2. QED
      BY <1>6, <2>5, <3>1 DEF SmallRequest
  <2>7. draftRequests' = draftRequests \cup {s}
    BY <1>4, <2>2, <2>4
  <2>8. \A r \in draftRequests' : r \in draftRequests \/ SmallRequest(r)
    BY <2>6, <2>7
  <2>9. QED
    BY <1>1, <2>8, SmallServed DEF DraftBounds, WindowsAreSmall
<1>9. QED
  BY <1>7, <1>8

\* A request is lost.
LEMMA SmallLose ==
  ASSUME DraftTypes, DraftBounds, working' = working, Lost
  PROVE  DraftBounds'
<1>1. PICK r \in draftRequests :
        draftRequests' = (draftRequests \ {r})
          \cup (IF r.kind = "delete" \/ r.tab = Nobody THEN {} ELSE {[r EXCEPT !.step = "failed"]})
  BY DEF Lost
<1>2. UNCHANGED <<drafts, minted, tabs, windows, thrown>>
  BY DEF Lost
<1>3. SmallRequest([r EXCEPT !.step = "failed"])
  BY SmallStep DEF DraftTypes, DraftBounds, RequestsAreSmall
<1>4. \A q \in draftRequests' : q \in draftRequests \/ SmallRequest(q)
  BY <1>1, <1>3
<1>5. QED
  BY <1>2, <1>4, SmallServed DEF DraftBounds, WindowsAreSmall

\* A save finds its row: the ids given out stay within the bound.
LEMMA SmallResolve ==
  ASSUME DraftTypes, DraftBounds, working' = working, Drafts!Resolve
  PROVE  DraftBounds'
<1>1. PICK r \in draftRequests, id \in Drafts!DraftIds :
        /\ minted' = minted \/ minted' = id
        /\ Drafts!Goto(r, [r EXCEPT !.id = id, !.step = "resolved"])
        /\ UNCHANGED <<drafts, tabs, windows, thrown>>
  BY Zenon DEF Drafts!Resolve
<1>2. id \in 1..MaxDrafts /\ r \in DraftRequestForm /\ SmallRequest(r)
  BY DEF Drafts!DraftIds, DraftTypes, DraftBounds, RequestsAreSmall
<1>3. PICK s : s = [r EXCEPT !.id = id, !.step = "resolved"]
  OBVIOUS
<1>4. SmallRequest(s)
  BY <1>2, <1>3, SmallStep
<1>5. \A q \in draftRequests' : q \in draftRequests \/ SmallRequest(q)
  BY <1>1, <1>3, <1>4 DEF Drafts!Goto
<1>6. minted' = minted \/ minted' <= MaxDrafts
  BY <1>1, <1>2, BoundsAreNumbers
<1>7. QED
  BY <1>1, <1>5, <1>6, SmallServed DEF DraftBounds, WindowsAreSmall

\* A save is written.
LEMMA SmallUpsert ==
  ASSUME DraftTypes, DraftBounds, working' = working, Drafts!Upsert
  PROVE  DraftBounds'
<1>1. PICK r \in draftRequests :
        /\ drafts' = drafts \/ drafts' = [drafts EXCEPT ![r.id] = [conversation |-> r.conversation, text |-> r.text]]
        /\ Drafts!Reply(r, "failed") \/ Drafts!Reply(r, "answered")
  BY DEF Drafts!Upsert
<1>2. UNCHANGED <<minted, tabs, windows, thrown>>
  BY DEF Drafts!Upsert
<1>3. r \in DraftRequestForm /\ SmallRequest(r) /\ drafts \in [1..MaxDrafts -> RowForm]
  BY DEF DraftTypes, DraftBounds, RequestsAreSmall
<1>4. \A v : SmallRequest([r EXCEPT !.step = v])
  BY <1>3, SmallStep
<1>5. \E v \in {"failed", "answered"} : draftRequests' \subseteq (draftRequests \ {r}) \cup {[r EXCEPT !.step = v]}
  BY <1>1, <1>3, RepliesAre
<1>6. \A q \in draftRequests' : q \in draftRequests \/ SmallRequest(q)
  BY <1>4, <1>5
<1>7. PICK row : row = [conversation |-> r.conversation, text |-> r.text]
  OBVIOUS
<1>8. SmallRow(row)
  BY <1>3, <1>7 DEF SmallRow, SmallRequest, DraftRequestForm
<1>9. \A i \in 1..MaxDrafts : drafts'[i] = drafts[i] \/ drafts'[i] = row
  BY <1>1, <1>3, <1>7
<1>10. \A i \in 1..MaxDrafts : drafts'[i] = drafts[i] \/ SmallRow(drafts'[i])
  BY <1>8, <1>9
<1>11. QED
  BY <1>2, <1>6, <1>10, SmallServed DEF DraftBounds, WindowsAreSmall

\* Rows are deleted, or a message is saved.
LEMMA SmallRowsGo ==
  ASSUME DraftTypes, DraftBounds, working' = working,
         Drafts!DeleteDraft \/ Drafts!Queue \/ Drafts!DeleteDraftsForConversation
  PROVE  DraftBounds'
<1>1. UNCHANGED <<minted, tabs, windows>>
  BY DEF Drafts!DeleteDraft, Drafts!Queue, Drafts!DeleteDraftsForConversation
<1>2. drafts \in [1..MaxDrafts -> RowForm] /\ thrown \subseteq 1..MaxWindows /\ SmallRow(Drafts!NoDraft)
  BY DEF DraftTypes, DraftBounds, WindowsAreSmall, SmallRow
<1>3. \A r \in draftRequests : /\ r \in DraftRequestForm /\ SmallRequest(r)
                               /\ \A v : SmallRequest([r EXCEPT !.step = v])
  BY SmallStep DEF DraftTypes, DraftBounds, RequestsAreSmall
<1>4. CASE Drafts!DeleteDraft
  <2>1. PICK r \in draftRequests : draftRequests' = draftRequests \ {r} /\ drafts' = [drafts EXCEPT ![r.id] = Drafts!NoDraft]
    BY <1>4 DEF Drafts!DeleteDraft, Drafts!Done
  <2>2. \A i \in 1..MaxDrafts : drafts'[i] = drafts[i] \/ drafts'[i] = Drafts!NoDraft
    BY <1>2, <2>1
  <2>3. \A i \in 1..MaxDrafts : drafts'[i] = drafts[i] \/ SmallRow(drafts'[i])
    BY <1>2, <2>2
  <2>4. thrown' \subseteq 1..MaxWindows
    BY <1>2, <1>4 DEF Drafts!DeleteDraft
  <2>5. QED
    BY <1>1, <2>1, <2>3, <2>4, SmallServed
<1>5. CASE Drafts!Queue
  <2>1. PICK r \in draftRequests :
          /\ r.kind = "queue" /\ Drafts!Goto(r, [r EXCEPT !.step = "resolved"])
          /\ thrown' = thrown \cup {r.window} /\ drafts' = drafts
    BY <1>5 DEF Drafts!Queue
  <2>2. r.window \in 1..MaxWindows
    BY <1>3, <2>1, BoundsAreNumbers DEF SmallRequest, DraftRequestForm
  <2>3. \A q \in draftRequests' : q \in draftRequests \/ SmallRequest(q)
    BY <1>3, <2>1 DEF Drafts!Goto
  <2>4. thrown' \subseteq 1..MaxWindows
    BY <1>2, <2>1, <2>2
  <2>5. QED
    BY <1>1, <2>1, <2>3, <2>4, SmallServed
<1>6. CASE Drafts!DeleteDraftsForConversation
  <2>1. PICK r \in draftRequests :
          /\ Drafts!Reply(r, "answered") /\ thrown' = thrown
          /\ drafts' = [id \in Drafts!DraftIds |-> IF id \in Drafts!OfConversation(r.conversation) THEN Drafts!NoDraft ELSE drafts[id]]
    BY <1>6 DEF Drafts!DeleteDraftsForConversation
  <2>2. \A i \in 1..MaxDrafts : drafts'[i] = drafts[i] \/ drafts'[i] = Drafts!NoDraft
    BY <2>1 DEF Drafts!DraftIds
  <2>3. \A i \in 1..MaxDrafts : drafts'[i] = drafts[i] \/ SmallRow(drafts'[i])
    BY <1>2, <2>2
  <2>4. draftRequests' \subseteq (draftRequests \ {r}) \cup {[r EXCEPT !.step = "answered"]}
    BY <1>3, <2>1, RepliesAre
  <2>5. \A q \in draftRequests' : q \in draftRequests \/ SmallRequest(q)
    BY <1>3, <2>4
  <2>6. QED
    BY <1>1, <1>2, <2>1, <2>3, <2>5, SmallServed
<1>7. QED
  BY <1>4, <1>5, <1>6

\* A step of the instance that works keeps to its bounds ...
LEMMA DraftBoundsStep ==
  ASSUME DraftInv, DraftBounds, working' = working,
         (working = "drafts" /\ Drafts!Next) \/ (working = "typing" /\ Typing!Next)
  PROVE  DraftBounds'
<1>1. DraftTypes
  BY DEF DraftInv
<1>2. ASSUME NEW t \in Windows,
             \/ Drafts!Open(t) \/ Drafts!Autosave(t) \/ Drafts!Close(t) \/ Discarded(t)
             \/ Drafts!SaveReturns(t) \/ Drafts!QueueReturns(t) \/ Died(t)
             \/ Submitted(t) /\ tabs[t].window # 0
      PROVE  DraftBounds'
  BY <1>1, <1>2, SmallOpen, SmallSave, SmallDiscard, SmallSaveReturns, SmallQueueReturns, SmallDie, SmallSubmit
<1>3. ASSUME \/ Lost \/ Drafts!Resolve \/ Drafts!Upsert \/ Drafts!DeleteDraft \/ Drafts!Queue
             \/ Drafts!DeleteDraftsForConversation
             \/ Drafts!StartConversation \/ Typing!StartConversation
             \/ Drafts!PurgeConversation \/ Typing!PurgeConversation
      PROVE  DraftBounds'
  BY <1>1, <1>3, SmallLose, SmallResolve, SmallUpsert, SmallRowsGo, SmallJoin
<1>4. \A t \in Windows : Drafts!Submit(t) \/ Typing!Submit(t) => Submitted(t) /\ tabs[t].window # 0
  BY BoundedMoves DEF Drafts!Submit, Typing!Submit
<1>5. CASE working = "drafts" /\ Drafts!Next
  <2>1. \A t \in Windows : Drafts!Type(t) => DraftBounds'
    BY <1>1, <1>5, SmallType
  <2>2. QED
    BY <1>2, <1>3, <1>4, <1>5, <2>1, BoundedMoves DEF Drafts!Next
<1>6. CASE working = "typing" /\ Typing!Next
  <2>1. \A t \in Windows : Typing!Type(t) => DraftBounds'
    BY <1>1, <1>6, SmallType
  <2>2. QED
    BY <1>2, <1>3, <1>4, <1>6, <2>1, BoundedMoves, SameMoves DEF Typing!Next
<1>7. QED
  BY <1>5, <1>6

\* ... and loses no more than it may.
LossesAreFew == losses \in 0..Losable

\* No step loses more.
LEMMA LossesStayFew ==
  ASSUME LossesAreFew, working' = working,
         (working = "drafts" /\ Drafts!Next) \/ (working = "typing" /\ Typing!Next)
  PROVE  LossesAreFew'
<1> DEFINE Few(n) == losses' = losses \/ (losses < n /\ losses' = losses + 1)
<1>1. CASE working = "drafts" /\ Drafts!Next
  <2>1. \A t \in Windows : \/ Drafts!Open(t) \/ Drafts!Type(t) \/ Drafts!Autosave(t) \/ Drafts!Close(t) \/ Drafts!Discard(t)
                           \/ Drafts!Submit(t) \/ Drafts!SaveReturns(t) \/ Drafts!QueueReturns(t) \/ Drafts!Die(t)
                           => Few(MaxLosses)
    BY DEF Drafts!Open, Drafts!Type, Drafts!Autosave, Drafts!Close, Drafts!Discard, Drafts!Submit, Drafts!SaveReturns,
           Drafts!QueueReturns, Drafts!Die
  <2>2. \/ Drafts!StartConversation \/ Drafts!PurgeConversation \/ Drafts!Lose \/ Drafts!Resolve \/ Drafts!Upsert
        \/ Drafts!DeleteDraft \/ Drafts!Queue \/ Drafts!DeleteDraftsForConversation
        => Few(MaxLosses)
    BY DEF Drafts!StartConversation, Drafts!PurgeConversation, Drafts!Lose, Drafts!Resolve, Drafts!Upsert,
           Drafts!DeleteDraft, Drafts!Queue, Drafts!DeleteDraftsForConversation
  <2>3. Few(MaxLosses)
    BY <1>1, <2>1, <2>2 DEF Drafts!Next
  <2>4. QED
    BY <1>1, <2>3, BoundsAreNumbers DEF LossesAreFew, Losable
<1>2. CASE working = "typing" /\ Typing!Next
  <2>1. \A t \in Windows : \/ Typing!Open(t) \/ Typing!Type(t) \/ Typing!Autosave(t) \/ Typing!Close(t) \/ Typing!Discard(t)
                           \/ Typing!Submit(t) \/ Typing!SaveReturns(t) \/ Typing!QueueReturns(t) \/ Typing!Die(t)
                           => Few(MaxLosses + 1)
    BY DEF Typing!Open, Typing!Type, Typing!Autosave, Typing!Close, Typing!Discard, Typing!Submit, Typing!SaveReturns,
           Typing!QueueReturns, Typing!Die
  <2>2. \/ Typing!StartConversation \/ Typing!PurgeConversation \/ Typing!Lose \/ Typing!Resolve \/ Typing!Upsert
        \/ Typing!DeleteDraft \/ Typing!Queue \/ Typing!DeleteDraftsForConversation
        => Few(MaxLosses + 1)
    BY DEF Typing!StartConversation, Typing!PurgeConversation, Typing!Lose, Typing!Resolve, Typing!Upsert,
           Typing!DeleteDraft, Typing!Queue, Typing!DeleteDraftsForConversation
  <2>3. Few(MaxLosses + 1)
    BY <1>2, <2>1, <2>2 DEF Typing!Next
  <2>4. QED
    BY <1>2, <2>3, BoundsAreNumbers DEF LossesAreFew, Losable
<1>3. QED
  BY <1>1, <1>2

\* The drafts begin within their bounds ...
LEMMA DraftBoundsBegin ==
  ASSUME Drafts!Init
  PROVE  DraftBounds /\ LossesAreFew
<1>1. /\ drafts = [id \in Drafts!DraftIds |-> Drafts!NoDraft] /\ minted = 0 /\ draftRequests = {}
      /\ tabs = [t \in Windows |-> Drafts!Closed] /\ windows = 0 /\ thrown = {} /\ losses = 0
  BY DEF Drafts!Init
<1>2. RowsAreSmall
  BY <1>1, BoundsAreNumbers DEF RowsAreSmall, SmallRow, Drafts!DraftIds
<1>3. WindowsAreSmall
  BY <1>1, BoundsAreNumbers DEF WindowsAreSmall
<1>4. LossesAreFew
  BY <1>1, BoundsAreNumbers DEF LossesAreFew, Losable
<1>5. QED
  BY <1>1, <1>2, <1>3, <1>4 DEF DraftBounds, RequestsAreSmall

\* ... and stay there while another component works.
LEMMA DraftBoundsRest ==
  ASSUME DraftBounds, LossesAreFew, UNCHANGED <<working, draftVars>>
  PROVE  DraftBounds' /\ LossesAreFew'
BY DEF DraftBounds, RowsAreSmall, WindowsAreSmall, RequestsAreSmall, SmallRow, SmallWindow, SmallRequest, SmallText,
       Typable, Losable, LossesAreFew, draftVars

\* What is small is of its type.
LEMMA SmallTexts ==
  \A x \in TextForm : SmallText(x) => x \in [window : 0..MaxWindows, n : 0..Typable]
<1>1. \A x \in TextForm : x = [window |-> x.window, n |-> x.n] /\ x.window \in Nat /\ x.n \in Nat
  BY DEF TextForm
<1>2. ASSUME NEW x \in TextForm, SmallText(x)
      PROVE  x.window \in 0..MaxWindows /\ x.n \in 0..Typable
  BY <1>1, <1>2, BoundsAreNumbers DEF SmallText
<1>3. QED
  BY <1>1, <1>2

\* The variables of the drafts keep to the values of the instance that works.
LEMMA DraftsKeepTypes ==
  ASSUME DraftInv, DraftBounds, LossesAreFew
  PROVE  /\ working = "drafts" => Drafts!TypeOK
         /\ working = "typing" => Typing!TypeOK
<1> DEFINE T == [window : 0..MaxWindows, n : 0..Typable]
           R == [kind : {"save", "delete", "queue"}, tab : Windows \cup {Nobody}, window : 0..MaxWindows,
                 id : 0..MaxDrafts, conversation : Peers, text : T,
                 step : {"sent", "resolved", "answered", "failed"}]
<1>1. /\ DraftTypes /\ RowsAreSmall /\ WindowsAreSmall /\ RequestsAreSmall
      /\ MaxWindows \in Nat /\ MaxDrafts \in Nat
  BY BoundsAreNumbers DEF DraftInv, DraftBounds
<1>2. \A i \in 1..MaxDrafts : drafts[i] = Drafts!NoDraft \/ (drafts[i].conversation \in Peers /\ drafts[i].text \in T)
  <2>1. \A i \in 1..MaxDrafts : drafts[i] \in RowForm /\ drafts[i].text \in TextForm
    BY <1>1 DEF DraftTypes, RowForm
  <2>2. QED
    BY <1>1, <2>1, SmallTexts DEF RowsAreSmall, SmallRow
<1>3. draftRequests \subseteq R
  <2>1. ASSUME NEW r \in draftRequests
        PROVE  r \in R
    <3>1. r \in DraftRequestForm /\ SmallRequest(r) /\ r.text \in TextForm /\ r.window \in Nat /\ r.id \in Nat
      BY <1>1 DEF DraftTypes, RequestsAreSmall, DraftRequestForm
    <3>2. r.window \in 0..MaxWindows /\ r.id \in 0..MaxDrafts /\ r.text \in T
      BY <1>1, <3>1, SmallTexts DEF SmallRequest
    <3>3. /\ r = [kind |-> r.kind, tab |-> r.tab, window |-> r.window, id |-> r.id,
                  conversation |-> r.conversation, text |-> r.text, step |-> r.step]
          /\ r.kind \in {"save", "delete", "queue"} /\ r.tab \in Windows \cup {Nobody} /\ r.conversation \in Peers
          /\ r.step \in {"sent", "resolved", "answered", "failed"}
      BY <3>1 DEF DraftRequestForm
    <3>4. QED
      BY <3>2, <3>3, Zenon
  <2>2. QED
    BY <2>1
<1>4. /\ minted \in 0..MaxDrafts /\ locked \in BOOLEAN /\ windows \in 0..MaxWindows /\ thrown \subseteq 1..MaxWindows
      /\ losses \in 0..Losable
  BY <1>1 DEF DraftTypes, RowsAreSmall, WindowsAreSmall, LossesAreFew
<1>5. \A t \in Windows :
        /\ tabs[t].window \in 0..MaxWindows /\ tabs[t].conversation \in Peers
        /\ {tabs[t].text, tabs[t].lastSaved, tabs[t].kept} \subseteq T /\ tabs[t].draftId \in 0..MaxDrafts
  <2>1. ASSUME NEW t \in Windows
        PROVE  /\ tabs[t].window \in 0..MaxWindows /\ tabs[t].conversation \in Peers
               /\ {tabs[t].text, tabs[t].lastSaved, tabs[t].kept} \subseteq T /\ tabs[t].draftId \in 0..MaxDrafts
    <3>1. tabs[t] \in WindowForm /\ SmallWindow(tabs[t])
      BY <1>1 DEF DraftTypes, WindowsAreSmall
    <3>2. /\ tabs[t].window \in Nat /\ tabs[t].conversation \in Peers /\ tabs[t].draftId \in Nat
          /\ tabs[t].text \in TextForm /\ tabs[t].lastSaved \in TextForm /\ tabs[t].kept \in TextForm
      BY <3>1 DEF WindowForm
    <3>3. tabs[t].text \in T /\ tabs[t].lastSaved \in T /\ tabs[t].kept \in T
      BY <3>1, <3>2, SmallTexts DEF SmallWindow
    <3>4. QED
      BY <1>1, <3>1, <3>2, <3>3 DEF SmallWindow
  <2>2. QED
    BY <2>1
<1>6. CASE working = "drafts"
  <2>1. T = Drafts!Texts /\ R = Drafts!Requests /\ Losable = MaxLosses
    BY <1>6 DEF Typable, Losable, Drafts!Texts, Drafts!Requests
  <2>2. QED
    BY <1>2, <1>3, <1>4, <1>5, <1>6, <2>1 DEF Drafts!TypeOK, Drafts!DraftIds
<1>7. CASE working = "typing"
  <2>1. T = Typing!Texts /\ R = Typing!Requests /\ Losable = MaxLosses + 1 /\ Typing!NoDraft = Drafts!NoDraft
    BY <1>7, SameDrafts DEF Typable, Losable, Typing!Texts, Typing!Requests
  <2>2. QED
    BY <1>2, <1>3, <1>4, <1>5, <1>7, <2>1 DEF Typing!TypeOK, Typing!DraftIds
<1>8. QED
  BY <1>6, <1>7

-----------------------------------------------------------------------------
(* The components together *)

\* What a step of the whole is for each component.
LEMMA StepOfOne ==
  ASSUME [MailboxNext]_mailboxVars
  PROVE  /\ Drafts!Next \/ Typing!Next \/ UNCHANGED draftVars
         /\ Reading!Next \/ UNCHANGED readingVars
         /\ Events!Next \/ UNCHANGED eventVars
         /\ Loops!Next \/ UNCHANGED loopVars
         /\ Threading!Next \/ UNCHANGED threadVars
BY DEF MailboxNext, mailboxVars

\* A component that does not work keeps to its invariant.
LEMMA LoopsRest ==
  ASSUME LoopInv, UNCHANGED loopVars
  PROVE  LoopInv'
BY DEF loopVars, LoopInv, RowsHeld, LoopsHeld, RequestsHeld, OneMailbox, DefaultIsDue, OneDefault, Setting, AccountRow,
   AccountRequest, NextIs, Loops!NoOrphan

\* Nor is an event published.
LEMMA EventsRest ==
  ASSUME EventInv, UNCHANGED eventVars
  PROVE  EventInv'
<1>1. /\ changed' = changed /\ revision' = revision /\ unheard' = unheard /\ writers' = writers /\ streams' = streams
      /\ stop' = stop /\ running' = running /\ cache' = cache /\ due' = due /\ fetches' = fetches /\ early' = early
  BY DEF eventVars
<1>2. EventTypes' /\ RevisionsInOrder'
  BY <1>1 DEF EventInv, EventTypes, RevisionsInOrder
<1>3. WatchersHeld'
  BY <1>1 DEF EventInv, WatchersHeld, Events!Subscribed
<1>4. /\ Unpublished' = Unpublished
      /\ \A t, rev : (Behind(t, rev)' <=> Behind(t, rev)) /\ (Owed(t, rev)' <=> Owed(t, rev))
  BY <1>1 DEF Behind, Owed, Told, Unpublished, Alerts, Events!NoList
<1>5. RevisionNamesList' /\ StaleIsOwed'
  BY <1>1, <1>4 DEF EventInv, RevisionNamesList, StaleIsOwed, Events!NoList
<1>6. QED
  BY <1>2, <1>3, <1>5 DEF EventInv

\* Nor is a draft written.
LEMMA DraftsRest ==
  ASSUME DraftInv, UNCHANGED draftVars
  PROVE  DraftInv'
<1>1. /\ drafts' = drafts /\ minted' = minted /\ draftRequests' = draftRequests /\ locked' = locked /\ tabs' = tabs
      /\ windows' = windows /\ thrown' = thrown
  BY DEF draftVars
<1>2. DraftTypes' /\ OneIsResolved' /\ QueuesThrow'
  BY <1>1 DEF DraftInv, ServerHeld, DraftTypes, OneIsResolved, QueuesThrow, Save, Resolved
<1>3. \A r : Drafts!Refused(r)' <=> Drafts!Refused(r)
  BY <1>1 DEF Drafts!Refused, Drafts!Exists, Drafts!OfConversation
<1>4. RowOfConversation'
  BY <1>1, <1>3 DEF DraftInv, ServerHeld, RowOfConversation
<1>5. thrown = {} => TextsAreNamed' /\ OneSaveAtATime' /\ LaterIsAhead'
  BY <1>1 DEF DraftInv, TextsInOrder, TextsAreNamed, OneSaveAtATime, LaterIsAhead, Save, InFlight, Shows
<1>6. QED
  BY <1>1, <1>2, <1>4, <1>5 DEF DraftInv, ServerHeld, TextsInOrder

\* Nor is a page read.
LEMMA ReadingRests ==
  ASSUME ReadInv, UNCHANGED readingVars
  PROVE  ReadInv'
BY WalkRests, WindowRests DEF readingVars, ReadInv, MailHeld, DatesHeld, ActsHeld

\* The invariants of these components.
MailboxInv == LoopInv /\ EventInv /\ DraftInv /\ ReadInv /\ ThreadInv

\* They hold together.
LEMMA MailboxInvariant == MailboxSpec => []MailboxInv
<1>1. MailboxInit => MailboxInv
  BY MailboxAssumption, LoopsBegin, EventsBegin, DraftsBegin, ReadBegins, ThreadsBegin DEF MailboxInit, MailboxInv
<1>2. MailboxInv /\ [MailboxNext]_mailboxVars => MailboxInv'
  <2> SUFFICES ASSUME MailboxInv, [MailboxNext]_mailboxVars
               PROVE  MailboxInv'
    OBVIOUS
  <2>1. LoopInv'
    BY MailboxAssumption, LoopStep, LoopsRest, StepOfOne DEF MailboxInv
  <2>2. EventInv'
    BY MailboxAssumption, EventStep, EventsRest, StepOfOne DEF MailboxInv
  <2>3. DraftInv'
    BY DraftStep, DraftsRest, StepOfOne DEF MailboxInv
  <2>4. ReadInv'
    BY ReadStep, ReadingRests, StepOfOne DEF MailboxInv
  <2>5. ThreadInv'
    BY ThreadStep, ThreadsRest, StepOfOne DEF MailboxInv
  <2>6. QED
    BY <2>1, <2>2, <2>3, <2>4, <2>5 DEF MailboxInv
<1>3. QED
  BY <1>1, <1>2, PTL DEF MailboxSpec

\* Every loop that runs is the one its account is registered with, or was told to end, and a user
\* has at most one default mailbox when no request is on its way (sync.go, accounts.go).
THEOREM LoopsCanBeEnded == MailboxSpec => []AccountsAreSound
<1>1. MailboxInv => AccountsAreSound
  BY LoopsAreSafe DEF AccountsAreSound, MailboxInv
<1>2. QED
  BY <1>1, MailboxInvariant, PTL

\* However events, answers and reconnections overlap, a connected tab at rest shows the mailbox as
\* it is, and a watcher serves somebody (notifications.go, mail_events.go, use-mail-events.ts).
THEOREM QuietTabsAreFresh == MailboxSpec => []EventsAreSound
<1>1. MailboxInv => EventsAreSound
  BY EventsAreFresh DEF EventsAreSound, MailboxInv
<1>2. QED
  BY <1>1, MailboxInvariant, PTL

\* A save of a draft takes the row of its conversation, whichever tab sends it and whatever was
\* lost on the way (conversation_json.go, compose-dialog.tsx).
THEOREM DraftsStayOne == MailboxSpec => []SavesAreTaken
<1>1. MailboxInv => SavesAreTaken
  BY DraftsAreTaken DEF SavesAreTaken, MailboxInv
<1>2. QED
  BY <1>1, MailboxInvariant, PTL

\* A walk returns what stayed where it was once, and an open window has no gaps, while mail comes,
\* goes and is acted on (conversations.go, use-conversation-messages.ts).
THEOREM ReadersMissNothing == MailboxSpec => []PagesCoverAll
<1>1. MailboxInv => PagesCoverAll
  BY PagesAreCovered DEF PagesCoverAll, MailboxInv
<1>2. QED
  BY <1>1, MailboxInvariant, PTL

\* Whatever its messages claim of each other, a listing ends with links that close no loop, and shows
\* every message, or one of the same id, once; where they tell the truth an answer stands in the
\* thread of every message it refers to (threading.go).
THEOREM ThreadsStaySound == MailboxSpec => []ThreadsAreSound
<1>1. MailboxInv => ThreadsAreSound
  BY ThreadsAreSafe DEF ThreadsAreSound, MailboxInv
<1>2. QED
  BY <1>1, MailboxInvariant, PTL

\* No older text replaces a newer one before its window is thrown away, a handler leaves the mail
\* it has not read alone, and what a reader has loaded stays (conversation_json.go,
\* use-conversation-messages.ts).
THEOREM MailStays == MailboxSpec => MailIsKept
<1>1. MailboxInv /\ [MailboxNext]_mailboxVars =>
        [/\ working \in {"drafts", "typing"} => Drafts!NewestStaysUntilThrown
         /\ working = "reading" => Reading!NewMailUntouched /\ Reading!LoadedStays]_mailboxVars
  <2> SUFFICES ASSUME MailboxInv, MailboxNext
               PROVE  /\ working \in {"drafts", "typing"} => Drafts!NewestStaysUntilThrown
                      /\ working = "reading" => Reading!NewMailUntouched /\ Reading!LoadedStays
    OBVIOUS
  <2>1. /\ working \in {"drafts", "typing"} => Drafts!Next \/ Typing!Next
        /\ working = "reading" => Reading!Next
    BY DEF MailboxNext
  <2>2. QED
    BY <2>1, NewestStays, RequestsLeaveNewMail, LoadedMailStays DEF MailboxInv
<1>2. QED
  BY <1>1, MailboxInvariant, PTL DEF MailboxSpec, MailIsKept

\* One component works.
SomeWorks == working \in {"drafts", "typing", "reading", "threads", "events", "loops"}

MailboxBounds == SomeWorks /\ EventBounds /\ ReadBounds /\ DraftBounds /\ LossesAreFew

\* Nothing exceeds its bound.
LEMMA MailboxIsBounded == MailboxSpec => []MailboxBounds
<1>1. MailboxInit => MailboxBounds
  BY MailboxAssumption, EventBoundsBegin, ReadBoundsBegin, DraftBoundsBegin DEF MailboxInit, MailboxBounds, SomeWorks
<1>2. MailboxInv /\ MailboxBounds /\ [MailboxNext]_mailboxVars => MailboxBounds'
  <2> SUFFICES ASSUME MailboxInv, MailboxBounds, [MailboxNext]_mailboxVars
               PROVE  MailboxBounds'
    OBVIOUS
  <2>1. working' = working
    BY DEF MailboxNext, mailboxVars
  <2>2. EventBounds'
    BY MailboxAssumption, EventBoundsStep, EventBoundsRest, StepOfOne DEF MailboxInv, MailboxBounds
  <2>3. ReadBounds'
    BY ReadBoundsStep, ReadBoundsRest, StepOfOne DEF MailboxInv, MailboxBounds
  <2>4. \/ (working = "drafts" /\ Drafts!Next) \/ (working = "typing" /\ Typing!Next)
        \/ UNCHANGED <<working, draftVars>>
    BY DEF MailboxNext, mailboxVars
  <2>5. DraftBounds' /\ LossesAreFew'
    BY <2>1, <2>4, DraftBoundsStep, LossesStayFew, DraftBoundsRest DEF MailboxInv, MailboxBounds
  <2>6. QED
    BY <2>1, <2>2, <2>3, <2>5 DEF MailboxBounds, SomeWorks
<1>3. QED
  BY <1>1, <1>2, MailboxInvariant, PTL DEF MailboxSpec

\* The variables of every component keep to their values and their bounds.
THEOREM MailboxKeepsTypes == MailboxSpec => []MailboxTypeOK
<1>1. MailboxInv /\ MailboxBounds => MailboxTypeOK
  <2> SUFFICES ASSUME MailboxInv, MailboxBounds
               PROVE  MailboxTypeOK
    OBVIOUS
  <2>1. /\ working = "drafts" => Drafts!TypeOK
        /\ working = "typing" => Typing!TypeOK
    BY DraftsKeepTypes DEF MailboxInv, MailboxBounds
  <2>2. Reading!TypeOK
    BY ReadingKeepsTypes DEF MailboxInv, MailboxBounds
  <2>3. Threading!TypeOK
    BY ThreadsAreSafe DEF MailboxInv
  <2>4. Events!TypeOK
    BY EventsKeepTypes DEF MailboxInv, MailboxBounds
  <2>5. Loops!TypeOK
    BY LoopTypes DEF MailboxInv
  <2>6. QED
    BY <2>1, <2>2, <2>3, <2>4, <2>5 DEF MailboxTypeOK, MailboxBounds, SomeWorks
<1>2. QED
  BY <1>1, MailboxInvariant, MailboxIsBounded, PTL
=============================================================================
