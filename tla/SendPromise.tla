----------------------------- MODULE SendPromise -----------------------------
(***************************************************************************)
(* What an outbox promises the user about one message, without workers,    *)
(* restarts, SMTP dialogs or folders:                                      *)
(*   - a message is handed to the provider only after somebody asked;      *)
(*   - the provider delivers it at most once, plus once for every time the *)
(*     user asked again although the previous outcome was in doubt;        *)
(*   - "sent" is said only of a delivered message, "failed" only of a      *)
(*     request that delivered nothing.                                     *)
(***************************************************************************)
EXTENDS Naturals

CONSTANT Messages

VARIABLES
  state,      \* what the user is told about each message
  delivered,  \* how many times the recipients get it
  doubt       \* how many times an outcome in doubt was asked for again

vars == <<state, delivered, doubt>>

\* The current request may still account for one delivery.
Credit(m) == IF state[m] \in {"inflight", "sent", "unknown", "withdrawn"} THEN 1 ELSE 0

Init ==
  /\ state = [m \in Messages |-> "none"]
  /\ delivered = [m \in Messages |-> 0]
  /\ doubt = [m \in Messages |-> 0]

\* A message appears: to be sent, or as the record of an earlier attempt; the
\* failed messages it replaces are withdrawn with it.
Submit(m, s) ==
  /\ state[m] = "none"
  /\ s \in {"pending", "failed", "unknown"}
  /\ \E old \in SUBSET {o \in Messages : state[o] \in {"failed", "unknown"}} :
       state' = [o \in Messages |-> IF o = m THEN s
                                    ELSE IF o \in old THEN "withdrawn" ELSE state[o]]
  /\ UNCHANGED <<delivered, doubt>>

Take(m) ==
  /\ state[m] = "pending"
  /\ state' = [state EXCEPT ![m] = "inflight"]
  /\ UNCHANGED <<delivered, doubt>>

Deliver(m) ==
  /\ delivered[m] < doubt[m] + Credit(m)
  /\ delivered' = [delivered EXCEPT ![m] = @ + 1]
  /\ UNCHANGED <<state, doubt>>

TellSent(m) ==
  /\ state[m] = "inflight"
  /\ delivered[m] > 0
  /\ state' = [state EXCEPT ![m] = "sent"]
  /\ UNCHANGED <<delivered, doubt>>

TellFailed(m) ==
  /\ state[m] = "inflight"
  /\ delivered[m] <= doubt[m]
  /\ state' = [state EXCEPT ![m] = "failed"]
  /\ UNCHANGED <<delivered, doubt>>

\* Several outcomes can become doubtful at once: the process that knew died.
TellUnknown(lost) ==
  /\ \A m \in lost : state[m] = "inflight"
  /\ state' = [m \in Messages |-> IF m \in lost THEN "unknown" ELSE state[m]]
  /\ UNCHANGED <<delivered, doubt>>

AskAgain(m) ==
  /\ state[m] \in {"failed", "unknown"}
  /\ state' = [state EXCEPT ![m] = "pending"]
  /\ doubt' = IF state[m] = "unknown" THEN [doubt EXCEPT ![m] = @ + 1] ELSE doubt
  /\ UNCHANGED delivered

\* Withdrawn by the user, alone or with everything of the account.
Withdraw(ms) ==
  /\ \A m \in ms : state[m] # "none"
  /\ state' = [m \in Messages |-> IF m \in ms THEN "withdrawn" ELSE state[m]]
  /\ UNCHANGED <<delivered, doubt>>

Next ==
  \/ \E m \in Messages, s \in {"pending", "failed", "unknown"} : Submit(m, s)
  \/ \E m \in Messages :
       Take(m) \/ Deliver(m) \/ TellSent(m) \/ TellFailed(m) \/ AskAgain(m)
  \/ \E ms \in SUBSET Messages : TellUnknown(ms) \/ Withdraw(ms)

Spec == Init /\ [][Next]_vars
=============================================================================
