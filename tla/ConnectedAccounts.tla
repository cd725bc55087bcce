-------------------------- MODULE ConnectedAccounts --------------------------
(***************************************************************************)
(* The further mailboxes a user of the JSON API connects to the primary    *)
(* one, and the inbox that unifies them (handlers/jsonapi/accounts.go,     *)
(* accounts_store.go).  The records live in a key-value store without      *)
(* transactions: each call of the store is a step, and so is each fetch of *)
(* the goroutines that read the mailboxes.                                 *)
(*                                                                         *)
(* One user; the key of a record starts with its owner, so users cannot    *)
(* meet.  A record is stored under the address as it was typed, and        *)
(* identified to clients by the address without its case.                  *)
(***************************************************************************)
EXTENDS Naturals, Sequences, FiniteSets, Functions

CONSTANTS
  Spellings,     \* a sequence: the addresses as they are typed, in the order they sort
  Mailboxes,
  MailboxOf,     \* address -> mailbox, the address without its case
  Handlers,      \* requests in progress at a time
  MaxConnected,  \* maxConnectedAccounts
  MaxCalls,      \* bound: requests
  MaxErrors      \* bound: failing calls of the store

Addresses == {Spellings[i] : i \in DOMAIN Spellings}

ConnectedAssumption ==
  /\ Spellings \in Seq(Addresses) /\ IsFiniteSet(Handlers)
  /\ MailboxOf \in [Addresses -> Mailboxes] /\ \A m \in Mailboxes : \E s \in Addresses : MailboxOf[s] = m
  /\ MaxConnected \in Nat \ {0} /\ MaxCalls \in Nat /\ MaxErrors \in Nat

Primary == "primary"
MailPasswords == {"old", "new"}

VARIABLES
  records,   \* address -> the password stored, "none" without a record
  upstream,  \* mailbox -> the password its server takes
  calls,     \* handler -> the request in progress
  called, errors  \* bounds

vars == <<records, upstream, calls, called, errors>>

Stored == {s \in Addresses : records[s] # "none"}
\* A listing has the records in the order they sort, each at the place of its spelling.
Listed == [i \in {n \in DOMAIN Spellings : Spellings[n] \in Stored} |->
            [address |-> Spellings[i], password |-> records[Spellings[i]]]]

NoCall == [step |-> "none", address |-> Primary, password |-> "none",
           listed |-> <<>>, results |-> <<>>, busy |-> {}]
Idle(h) == calls[h].step \in {"none", "answered"}
Go(h, step) == calls' = [calls EXCEPT ![h].step = step]
Finish(h) == calls' = [calls EXCEPT ![h] = NoCall]
Call(h, call) ==
  /\ Idle(h) /\ called < MaxCalls /\ called' = called + 1
  /\ calls' = [calls EXCEPT ![h] = call]

Init ==
  /\ records = [s \in Addresses |-> "none"] /\ upstream = [m \in Mailboxes |-> "old"]
  /\ calls = [h \in Handlers |-> NoCall] /\ called = 0 /\ errors = 0

TypeOK ==
  /\ records \in [Addresses -> {"none"} \cup MailPasswords] /\ upstream \in [Mailboxes -> MailPasswords]
  /\ called \in 0..MaxCalls /\ errors \in 0..MaxErrors
  /\ \A h \in Handlers :
       /\ calls[h].step \in {"none", "get", "list", "set", "find", "delete", "accounts", "fetch",
                             "answered"}
       /\ calls[h].address \in Addresses \cup {Primary}
       /\ Range(calls[h].listed) \subseteq [address : Addresses, password : MailPasswords]
       /\ Range(calls[h].results) \subseteq {"nothing", "error", Primary} \cup Addresses
       /\ calls[h].busy \subseteq {0} \cup DOMAIN calls[h].listed

\* A call of the store fails.
Fault == errors < MaxErrors /\ errors' = errors + 1

-----------------------------------------------------------------------------
(* POST /v1/accounts.                                                      *)

\* The password is tried at the server of the mailbox; one it refuses ends the request.
Add(h, s, password) ==
  /\ password = upstream[MailboxOf[s]]
  /\ Call(h, [NoCall EXCEPT !.step = "get", !.address = s, !.password = password])
  /\ UNCHANGED <<records, upstream, errors>>

\* save: only a key that is known to be new counts against the quota.  A Get that fails for
\* another reason is taken like one that finds the key.
Get(h) ==
  /\ calls[h].step = "get"
  /\ \/ Go(h, IF calls[h].address \in Stored THEN "set" ELSE "list") /\ UNCHANGED errors
     \/ Fault /\ Go(h, "set")
  /\ UNCHANGED <<records, upstream, called>>

\* As if the limit itself were free.
RoomForOneMore == Cardinality(Stored) <= MaxConnected

Room == Cardinality(Stored) < MaxConnected

Count(h) ==
  /\ calls[h].step = "list"
  /\ \/ (IF Room THEN Go(h, "set") ELSE Finish(h)) /\ UNCHANGED errors
     \/ Fault /\ Finish(h)
  /\ UNCHANGED <<records, upstream, called>>

Set(h) ==
  /\ calls[h].step = "set"
  /\ \/ records' = [records EXCEPT ![calls[h].address] = calls[h].password] /\ UNCHANGED errors
     \/ Fault /\ UNCHANGED records
  /\ Finish(h) /\ UNCHANGED <<upstream, called>>

-----------------------------------------------------------------------------
(* DELETE /v1/accounts/:id.                                                *)

Delete(h, m) ==
  /\ Call(h, [NoCall EXCEPT !.step = "find", !.address = CHOOSE s \in Addresses : MailboxOf[s] = m])
  /\ UNCHANGED <<records, upstream, errors>>

\* The first record with the identifier is the one to go; without one the answer is 404.
Find(h) ==
  /\ calls[h].step = "find"
  /\ LET same == {i \in DOMAIN Listed : MailboxOf[Listed[i].address] = MailboxOf[calls[h].address]}
     IN  \/ same = {} /\ Finish(h) /\ UNCHANGED errors
         \/ \E i \in same :
              /\ \A j \in same : i <= j
              /\ calls' = [calls EXCEPT ![h].step = "delete", ![h].address = Listed[i].address]
              /\ UNCHANGED errors
         \/ Fault /\ Finish(h)
  /\ UNCHANGED <<records, upstream, called>>

Remove(h) ==
  /\ calls[h].step = "delete"
  /\ \/ records' = [records EXCEPT ![calls[h].address] = "none"] /\ UNCHANGED errors
     \/ Fault /\ UNCHANGED records
  /\ Finish(h) /\ UNCHANGED <<upstream, called>>

-----------------------------------------------------------------------------
(* GET /v1/unified.                                                        *)

Unify(h) == Call(h, [NoCall EXCEPT !.step = "accounts"]) /\ UNCHANGED <<records, upstream, errors>>

\* As if the place of the primary mailbox were not counted.
PlaceUnshifted(i) == IF i = 0 THEN 1 ELSE i

\* The place in results of the goroutine of the i-th account (0 is the primary mailbox).
Place(i) == i + 1
Places(listed) == {i + 1 : i \in {0} \cup DOMAIN listed}

\* A goroutine per account of the listing, after the one of the primary mailbox.
Spawn(h) ==
  /\ calls[h].step = "accounts"
  /\ \/ /\ UNCHANGED errors
        /\ calls' = [calls EXCEPT
             ![h].step = "fetch", ![h].listed = Listed, ![h].busy = {0} \cup DOMAIN Listed,
             ![h].results = [n \in Places(Listed) |-> "nothing"]]
     \/ Fault /\ Finish(h)
  /\ UNCHANGED <<records, upstream, called>>

Report(h, i, result) ==
  /\ calls' = [calls EXCEPT ![h].results[Place(i)] = result, ![h].busy = @ \ {i}]
  /\ UNCHANGED <<records, upstream, called, errors>>

\* A goroutine brings the messages of its mailbox, tagged with the account, or fails: the server
\* is away or slow, or takes another password by now.  fetchAccountMessages gives up after ten
\* seconds and nobody reads what comes later.
Fetch(h) ==
  \E i \in calls[h].busy :
    \/ Report(h, i, "error")
    \/ i = 0 /\ Report(h, i, Primary)
    \/ /\ i > 0
       /\ LET account == calls[h].listed[i]
          IN  /\ account.password = upstream[MailboxOf[account.address]]
              /\ Report(h, i, account.address)

\* When the last goroutine is done, everything is merged and what failed is named beside it.
Merge(h) ==
  /\ calls[h].step = "fetch" /\ calls[h].busy = {}
  /\ Go(h, "answered") /\ UNCHANGED <<records, upstream, called, errors>>

\* The password of a mailbox is changed at its provider.
Change(m) ==
  /\ upstream[m] = "old" /\ upstream' = [upstream EXCEPT ![m] = "new"]
  /\ UNCHANGED <<records, calls, called, errors>>

Next ==
  \/ \E h \in Handlers :
       \/ \E s \in Addresses, p \in MailPasswords : Add(h, s, p)
       \/ Get(h) \/ Count(h) \/ Set(h)
       \/ \E m \in Mailboxes : Delete(h, m)
       \/ Find(h) \/ Remove(h) \/ Unify(h) \/ Spawn(h) \/ Fetch(h) \/ Merge(h)
  \/ \E m \in Mailboxes : Change(m)

Spec == Init /\ [][Next]_vars

-----------------------------------------------------------------------------
(* Properties.                                                             *)

\* One failing account never breaks the others: whatever is connected, removed or changed while
\* the mailboxes are read, the answer has for every account that was listed its own messages or
\* its error.
UnifiedIsComplete ==
  \A h \in Handlers : calls[h].step = "answered" =>
    /\ calls[h].results[1] \in {Primary, "error"}
    /\ \A i \in DOMAIN calls[h].listed :
         calls[h].results[i + 1] \in {calls[h].listed[i].address, "error"}

\* The quota is counted in one call of the store and the record is written in another: as many
\* records are too many as requests can overlap, and no more, while the store works.
QuotaIsNearlyKept ==
  errors = 0 => Cardinality(Stored) < MaxConnected + Cardinality(Handlers)

ConnectedIsSound == UnifiedIsComplete /\ QuotaIsNearlyKept

\* What maxConnectedAccounts promises, and the code does not keep (see QuotaIsNearlyKept).
QuotaIsKept == Cardinality(Stored) <= MaxConnected
=============================================================================
