------------------------------- MODULE Users -------------------------------
(***************************************************************************)
(* The people of an installation: registration and the first              *)
(* administrator, roles, passwords, the sessions of their browsers, and    *)
(* the API keys with the trail of what happened to each.  A handler of     *)
(* registration or of a role reads in one statement and writes in another; *)
(* the operations on a key are transactions.                               *)
(***************************************************************************)
EXTENDS Integers, Sequences, FiniteSets

CONSTANTS
  Logins,
  Demo,          \* the login of the demonstration mailbox, which gets no password
  Handlers,      \* requests to register, or to change a role or a password, at work
  Passwords,     \* what people choose
  MaxKeys, MaxEvents, \* bounds: keys made, events of a key
  MaxSwitches    \* bound: settings an administrator changes

UsersAssumption ==
  /\ Passwords # {} /\ "none" \notin Passwords
  /\ \A bound \in {MaxKeys, MaxEvents, MaxSwitches} : bound \in Nat

VARIABLES
  users,     \* login -> its row: what it signs in with, and its role
  open,      \* the setting registration_open
  requests,  \* handler -> the request it serves
  sessions,  \* the users signed in
  keys,      \* the rows of user_api_keys, in the order they were made
  switches

vars == <<users, open, requests, sessions, keys, switches>>

NoUser == [made |-> FALSE, password |-> "none", role |-> "user"]
NoRequest == [step |-> "none", login |-> "none", password |-> "none"]
Made == {l \in Logins : users[l].made}
Administrators == {l \in Made : users[l].role = "super_admin"}

Init ==
  /\ users = [l \in Logins |-> NoUser] /\ open = TRUE
  /\ requests = [h \in Handlers |-> NoRequest]
  /\ sessions = {} /\ keys = <<>> /\ switches = 0

TypeOK ==
  /\ \A l \in Logins : users[l].password \in {"none"} \cup Passwords /\ users[l].role \in {"user", "super_admin"}
  /\ open \in BOOLEAN /\ sessions \subseteq Made /\ switches \in 0..MaxSwitches
  /\ \A h \in Handlers :
       requests[h].step \in {"none", "create", "claim", "list", "promote", "admin", "password"}
  /\ Len(keys) <= MaxKeys
  /\ \A i \in DOMAIN keys :
       /\ keys[i].owner \in Made /\ keys[i].state \in {"active", "expired", "revoked"}
       /\ \A n \in DOMAIN keys[i].events : keys[i].events[n].type \in {"created", "revoked", "rotated"}

\* SessionMiddleware lets the requests of a signed-in user through.
SignedIn(l) == l \in sessions
Serve(h, request) == requests' = [requests EXCEPT ![h] = request]
Finish(h) == Serve(h, NoRequest)

-----------------------------------------------------------------------------
(* Registration and the session.                                           *)

\* HandleRegister: the switch, then whether the login is taken, ...
Register(h) ==
  /\ requests[h] = NoRequest /\ open
  /\ \E l \in Logins, p \in Passwords :
       /\ users[l].made => users[l].password = "none"
       /\ Serve(h, [step |-> IF users[l].made THEN "claim" ELSE "create", login |-> l, password |-> p])
  /\ UNCHANGED <<users, open, sessions, keys, switches>>

\* ... then a row of its own, which fails if the login was taken meanwhile, ...
CreateUser(h) ==
  /\ requests[h].step = "create"
  /\ LET l == requests[h].login IN
       IF users[l].made THEN Finish(h) /\ UNCHANGED users
       ELSE /\ users' = [users EXCEPT ![l].made = TRUE, ![l].password = requests[h].password]
            /\ Serve(h, [requests[h] EXCEPT !.step = "list"])
  /\ UNCHANGED <<open, sessions, keys, switches>>

\* ... or the password of the row that had none, ...
ClaimUser(h) ==
  /\ requests[h].step = "claim"
  /\ users' = [users EXCEPT ![requests[h].login].password = requests[h].password]
  /\ Serve(h, [requests[h] EXCEPT !.step = "list"])
  /\ UNCHANGED <<open, sessions, keys, switches>>

\* ... then the list of users: a single one becomes the administrator, ...
ListUsers(h) ==
  /\ requests[h].step = "list"
  /\ LET l == requests[h].login IN
       IF Made = {l} /\ users[l].role # "super_admin"
       THEN Serve(h, [requests[h] EXCEPT !.step = "promote"]) /\ UNCHANGED sessions
       ELSE Finish(h) /\ sessions' = sessions \cup {l}
  /\ UNCHANGED <<users, open, keys, switches>>

\* ... and has a session as everybody who registers.
Promote(h) ==
  /\ requests[h].step = "promote"
  /\ users' = [users EXCEPT ![requests[h].login].role = "super_admin"]
  /\ sessions' = sessions \cup {requests[h].login} /\ Finish(h)
  /\ UNCHANGED <<open, keys, switches>>

HandleUserLogin(l) ==
  /\ l \in Made \ sessions /\ users[l].password # "none"
  /\ sessions' = sessions \cup {l}
  /\ UNCHANGED <<users, open, requests, keys, switches>>

\* The user of a login to a mailbox: made without a password, or as it is.
EnsureLegacyUser(l) == users' = [users EXCEPT ![l].made = TRUE]
HandleDemoLogin ==
  /\ Demo \in Logins \ sessions
  /\ EnsureLegacyUser(Demo) /\ sessions' = sessions \cup {Demo}
  /\ UNCHANGED <<open, requests, keys, switches>>

HandleLogout(l) ==
  /\ l \in sessions /\ sessions' = sessions \ {l}
  /\ UNCHANGED <<users, open, requests, keys, switches>>

-----------------------------------------------------------------------------
(* Settings.                                                               *)

\* RequireSuperAdmin reads the role, the handler then acts.
RequireSuperAdmin(h, l) ==
  /\ requests[h] = NoRequest /\ SignedIn(l) /\ l \in Administrators
  /\ Serve(h, [NoRequest EXCEPT !.step = "admin", !.login = l])
  /\ UNCHANGED <<users, open, sessions, keys, switches>>

HandleUpdateRegistration(h) ==
  /\ requests[h].step = "admin" /\ switches < MaxSwitches /\ switches' = switches + 1
  /\ open' \in BOOLEAN /\ Finish(h)
  /\ UNCHANGED <<users, sessions, keys>>

\* An administrator cannot demote their own account.
HandleUpdateUserRole(h) ==
  /\ requests[h].step = "admin" /\ switches < MaxSwitches /\ switches' = switches + 1
  /\ \E target \in Made, role \in {"user", "super_admin"} :
       /\ target = requests[h].login => role = "super_admin"
       /\ users' = [users EXCEPT ![target].role = role]
  /\ Finish(h)
  /\ UNCHANGED <<open, sessions, keys>>

HandleUpdatePassword(h, l) ==
  /\ requests[h] = NoRequest /\ SignedIn(l) /\ users[l].password # "none"
  /\ \E p \in Passwords : Serve(h, [NoRequest EXCEPT !.step = "password", !.login = l, !.password = p])
  /\ UNCHANGED <<users, open, sessions, keys, switches>>

SetUserPassword(h) ==
  /\ requests[h].step = "password"
  /\ users' = [users EXCEPT ![requests[h].login].password = requests[h].password] /\ Finish(h)
  /\ UNCHANGED <<open, sessions, keys, switches>>

-----------------------------------------------------------------------------
(* API keys.                                                               *)

Owned(l, i) == SignedIn(l) /\ keys[i].owner = l
Event(type, related) == [type |-> type, related |-> related]
NewKey(owner, expires, related) ==
  [owner |-> owner, expires |-> expires, state |-> "active", events |-> <<Event("created", related)>>]
With(i, type, related) ==
  [keys EXCEPT ![i].state = "revoked", ![i].events = Append(@, Event(type, related))]

CreateAPIKey(l) ==
  /\ SignedIn(l) /\ Len(keys) < MaxKeys
  /\ \E expires \in BOOLEAN : keys' = Append(keys, NewKey(l, expires, 0))
  /\ UNCHANGED <<users, open, requests, sessions, switches>>

Expire(i) ==
  /\ keys[i].state = "active" /\ keys[i].expires
  /\ keys' = [keys EXCEPT ![i].state = "expired"]
  /\ UNCHANGED <<users, open, requests, sessions, switches>>

MayRevokeAgain(i) == TRUE
\* A key revoked before stays as it is; an expired one can still be revoked.
MayRevoke(i) == keys[i].state # "revoked"
RevokeAPIKey(l, i) ==
  /\ Owned(l, i) /\ MayRevoke(i)
  /\ Len(keys[i].events) < MaxEvents
  /\ keys' = With(i, "revoked", 0)
  /\ UNCHANGED <<users, open, requests, sessions, switches>>

MayRotateAny(i) == TRUE
MayRotate(i) == keys[i].state = "active"
\* The successor has the name, the owner and the expiry of the key it replaces.
RotateAPIKey(l, i) ==
  /\ Owned(l, i) /\ MayRotate(i)
  /\ Len(keys) < MaxKeys /\ Len(keys[i].events) < MaxEvents
  /\ keys' = Append(With(i, "rotated", Len(keys) + 1), NewKey(l, keys[i].expires, i))
  /\ UNCHANGED <<users, open, requests, sessions, switches>>

AuthenticateAPIKey(i) == keys[i].state = "active"
\* A request that carries a key acts as the key's owner, with the role of this moment.
APIKeyMiddleware(h, i) ==
  /\ requests[h] = NoRequest /\ AuthenticateAPIKey(i) /\ keys[i].owner \in Administrators
  /\ Serve(h, [NoRequest EXCEPT !.step = "admin", !.login = keys[i].owner])
  /\ UNCHANGED <<users, open, sessions, keys, switches>>

Next ==
  \/ \E h \in Handlers :
       \/ Register(h) \/ CreateUser(h) \/ ClaimUser(h) \/ ListUsers(h) \/ Promote(h)
       \/ HandleUpdateRegistration(h) \/ HandleUpdateUserRole(h) \/ SetUserPassword(h)
       \/ \E l \in Logins : RequireSuperAdmin(h, l) \/ HandleUpdatePassword(h, l)
       \/ \E i \in DOMAIN keys : APIKeyMiddleware(h, i)
  \/ HandleDemoLogin
  \/ \E l \in Logins : HandleUserLogin(l) \/ HandleLogout(l) \/ CreateAPIKey(l)
  \/ \E i \in DOMAIN keys : Expire(i) \/ \E l \in Logins : RevokeAPIKey(l, i) \/ RotateAPIKey(l, i)

Spec == Init /\ [][Next]_vars

-----------------------------------------------------------------------------
(* What the installation relies on.                                        *)

Ends(i) == {n \in DOMAIN keys[i].events : keys[i].events[n].type \in {"revoked", "rotated"}}

\* The trail of a key tells what became of it, once: it has one end exactly if it no
\* longer works for another reason than age, a key has at most one successor, and the
\* two name each other (api_keys.go:190-243).
KeysAreTracked ==
  \A i \in DOMAIN keys :
    /\ Cardinality(Ends(i)) = IF keys[i].state = "revoked" THEN 1 ELSE 0
    /\ \A n \in DOMAIN keys[i].events :
         keys[i].events[n].type = "rotated" =>
           keys[keys[i].events[n].related].events[1] = Event("created", i)
    /\ Cardinality({j \in DOMAIN keys : keys[j].events[1].related = i}) <= 1

\* "Bootstrap the local account system with one administrator" (auth.go:198-199): when
\* nobody is registering, somebody who registered administers the installation.
SomebodyAdministers ==
  ((\E l \in Made : users[l].password # "none") /\ \A h \in Handlers : requests[h] = NoRequest) => Administrators # {}

=============================================================================
