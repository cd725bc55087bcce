# Inbrix, specified in TLA+

This directory holds the formal model of Inbrix: TLA+ modules translated from
the source under `src/`, TLC configurations that check them on small instances,
and theorems with proofs that TLAPS checks. It is about the parts of the program
that decide whether a message is sent, sent once, shown truthfully and never
lost, whether the mirror and the server agree, whether an AI answer is the
answer to the question asked, and whether a business document says what was
offered; and about the interleavings, crashes, stale copies and lost replies
that tests hardly reach.

| module | models | checked by |
|---|---|---|
| `Outbox` | the outgoing queue: `mailstore/outbox.go`, `handlers/web/outbox.go`, outcomes of `handlers/api/stmpClient.go` | `OutboxOneRow`, `OutboxWorkers` |
| `SendPromise` | what the outbox promises its user (abstract) | property `KeepsPromise` of `OutboxOneRow` |
| `ScheduledSend` | send-later: `handlers/jsonapi/schedule.go`, `schedule_store.go` | `ScheduleEdits`, `ScheduleLive`, `ScheduleCancelRace` |
| `MailTasks` | background work per mail: `mailstore/mail_task*.go`, `webhook.go` | `MailTasksNotify`, `MailTasksThink` |
| `MirrorSync` | the mirror of a folder: `mailstore/sync.go`, `messages.go`, `pending_*.go`, the handlers that change mail | `MirrorIntent`, `MirrorDeleted` |
| `AccountLoops` | accounts and the goroutines that synchronize them: `mailstore/sync.go`, `handlers/web/accounts.go` | `Mailbox` |
| `ConnectedAccounts` | further mailboxes of the JSON API and their unified inbox: `handlers/jsonapi/accounts*.go` | `Assistant` |
| `Users` | registration, roles, sessions, API keys: `handlers/web/auth.go`, `api_keys.go`, `mailstore/api_keys.go` | `Assistant` |
| `Drafts` | compose windows and their drafts: `mailstore/drafts.go`, `conversation_json.go`, `compose-dialog.tsx` | `Mailbox` |
| `Conversations` | lists, pages and windows of mail: `handlers/web/conversation*.go`, `use-conversation-messages.ts` | `Mailbox` |
| `Threading` | threads and the store of headers: `handlers/api/threading.go`, `threadstore.go` | `Mailbox` |
| `Realtime` | event hub, IDLE watchers and the browser's list: `handlers/web/notifications.go`, `mail_events.go`, `use-mail-events.ts`, `use-conversations.ts` | `Mailbox` |
| `SelfUpdate` | replacement of the program by itself: `handlers/web/update.go`, `main.go` | `Assistant` |
| `AgentRun` | the tool loop: `internal/agentruntime/runtime.go` and its two callers | `Assistant` |
| `Completion` | one question to a model: `mailstore/ai_completion.go`, `ai_stream.go` | `Assistant` |
| `ChatTurn` | chat sessions and turns: `mailstore/ai_chat_sessions.go`, `handlers/web/ai_agent_chat.go`, `ai_stop.go` | `Assistant` |
| `AIResults` | leased summaries, translations and replies: `mailstore/message_summaries.go`, `mail_translation.go`, `reply_suggestion.go` | `Assistant` |
| `AIConfig` | models, agents, tasks and skills: `mailstore/ai_settings.go`, `ai_agents.go`, `ai_skills.go`, `ai_task_bindings.go` | `Assistant` |
| `Catalogue` | products, dimensions, categories: `mailstore/product*.go` | `Office` |
| `PriceLists` | price tables: `mailstore/price_list.go` | `Office` |
| `Documents` | quotations and contracts: `mailstore/documents.go`, `handlers/web/document*.go`, `ai_document_*.go` | `Office` |
| `Calendar` | events, invitations and answers: `handlers/api/caldav.go`, `itip.go`, `handlers/jsonapi/calendar.go` | `Office` |
| `Contacts` | cards, groups and imports: `handlers/api/contact*.go`, `handlers/jsonapi/contacts*.go` | `Office` |

`MCOutbox`, `MCScheduledSend` and `MCMailTasks` hold model values; `MCMailbox`,
`MCAssistant` and `MCOffice` instantiate the components of one area and check
them together (section 7). The theorems (section 9) are in `OutboxProofs`,
`ScheduledSendProofs`, `MailTasksProofs`, `MirrorSyncProofs`, in `ThreadingProofs` and
`MailboxProofs` for `MCMailbox`, in `AssistantProofs` for `MCAssistant`, and in
`OfficeProofs` for `MCOffice`.

## 1. Inventory

Inbrix is one Go process (a Fiber server with the web client embedded) over
SQLite, an optional PostgreSQL or S3 store, and the user's IMAP, SMTP, CalDAV and
CardDAV servers. The mailbox is mirrored locally; the browser talks to the local
state and background goroutines carry changes upstream.

| component | state | operations | correct when |
|---|---|---|---|
| Server outbox | `outgoing_messages` rows (status, client key, raw MIME, `replaces_outbox_id`), drafts | compose, replace, retry, delete, claim, deliver, finish, recover | delivered once per request, doubt shown as doubt, no text lost |
| Scheduled send | records in the key-value store, the drain's batch | create, edit, cancel, list, drain | never dropped, duplicates only after a failure, cancel is final |
| Background mail tasks | `mail_tasks` rows with token, lease, attempts and payload; `mail_task_runs` | enqueue with the mail, claim per lane, execute, complete, fail, retry | one text per notification, budget kept, done stays done |
| Mailbox mirror | `messages`, `pending_flags`, `pending_moves`, folder cursors | scan, incremental pass, upsert, prune, replay | local intent survives a stale fetch and reaches the server, no mail skipped or lost |
| SyncManager, accounts | rows of accounts, goroutine, wake and stop channel per account | add, edit, delete, default, start, stop, trigger | every loop can be told to end, one default |
| Connected accounts | records in the key-value store | add, remove, unified inbox | every listed account answers with its own mail or error |
| Users, sessions, API keys | rows, browser sessions, key events | register, sign in, promote, issue, rotate, revoke | a key's trail says what became of it |
| Drafts | rows, compose windows | type, save, close, discard, send | one draft per conversation, the newest text stays |
| Conversations | none of their own; cursors and windows of the reader | list, page, open, status, seen, delete | pages have no gaps, nothing unseen is acted on |
| Threads | ids kept per space | list, link, group | no cycles, nothing shown twice or lost |
| Notification hub | subscribers, watchers, revisions; the browser's cache | subscribe, watch, publish, disconnect, reload | a tab at rest is current, one watcher for those who listen |
| Self-update, start | executable, backup, child processes | check, download, replace, restart, restore | what is left can be started and is what was promised |
| Agent runtime | messages, budgets, open calls | ask, call, refuse, correct, synthesize | every call answered, no unearned answer |
| Completions | one request and its stream | ask, retry, read, emit | a stream that succeeds is whole |
| AI chat | sessions, runs with leases, registry of stoppable requests | ask, retry, stop, cancel, delete, save a card | one turn at a time, answer under its question, stop is final |
| AI results | rows with generation token and lease | claim, finish, fail, wait | a late generation never overwrites, current means current |
| AI settings | models, agents, bindings, skills with revisions | edit, delete, bind, run | what a task is bound to resolves |
| Catalogue | products with versions, dimensions, categories | save, merge, delete, import | a version names one offer, attributes keep their meaning |
| Price lists | columns and rows | edit, import | nothing invisible in a row |
| Documents | documents with `revision`, templates, card links | save, propose, convert, delete | no edit lost, prices have a source |
| Calendars | CalDAV objects of the server | create, edit, delete, answer | who is told agrees with what is stored |
| Contacts | cards in address books | create, edit, star, regroup, import | no card lost by a group or an import |
| JSON API and RPC broker | key-value records | translate requests | single puts, except what is above |
| Storage backends | key-value, object and session stores | get, set, delete, list | each call atomic |
| SMTP, IMAP and MIME clients | connections | send, append, fetch | outcome classified rightly |
| Web Push, desktop notices | subscriptions | send | transport; the notices themselves are in `MailTasks` |
| Web client, site, scripts, translations | presentation | | protocols of the client are in `Drafts`, `Conversations`, `Realtime` |

How they interact: the compose handler writes an outbox row and then drops the
draft; the delivery workers claim rows, talk to SMTP, then append and mirror the
Sent copy. Synchronization inserts a message and enqueues its tasks in one
transaction and wakes the lanes. The lanes run the model and the webhook and
leave leased results; AI lanes hold off while their mailbox synchronizes. Every
change bumps a revision and is published to the browser's tabs. A chat turn runs
the agent loop, which asks for completions, reads mail and catalogue, and saves
documents with a revision. Handlers and goroutines share nothing but the
database, a few registries under a mutex and the remote servers, so the hard
behaviours are: interleavings between calls, a process that dies between a
remote effect and the local record of it, replies that are lost or late, leases
that outlive or outrun their worker, retries by user and by machine, limits that
are counted before they are used, and stale copies. The hazards, with source
lines and the properties that watch them, are in `PROJECT.json`; one without a
property says why.

## 2. Plan

Done: every component above has its module except those marked as transport,
adapter or presentation; sending, tasks and mirror are checked by themselves, the
rest in three compositions. Every property of a passing run that is not about
liveness is also a theorem. What remains, in order:

1. `MailTasks` composed with `MirrorSync`: whether a mail deleted locally can be
   fetched and announced again.
2. The parts of "partly" modelled components in section 10, most of all compaction
   and memory of chats.

Modules that are proved about use no recursive operators; parameters are
constants with a named assumption; invariants are conjunctions of named parts.

## 3. Outbox

**State.** One row per element of `Ids`, ids in `created_at` order: `status`,
`key` (client key), `payload` (raw MIME present), `replaces`, `attempts`. Each
worker of `StartOutbox` has `pc`, `job` and `result`, the local variables of
`deliverOutgoing`. `phase`, `boots` and `account` are process and account;
`drafts` and `cleanup` the draft of a composition and the handler that still has
to discard it; `accepted` and `late` the SMTP server, `sentCopy` and `mirror` the
Sent folder and its mirror; `imported`, `retries`, `doubts` and `lostFinish` are
observers.

**Actions.** `Compose`, `ComposeAgain`, `DiscardDraft` (`queueOutgoingCompose`,
`CreateOutgoing`: insert, replacement of a failed or unknown row, idempotent
repetition, best-effort draft clean-up); `Claim`; `OpenSender`, `SmtpReject`,
`SmtpLose`, `SmtpAccept`, `SmtpReply`, `SmtpAcceptLate` (the dialogue and what a
lost connection means); `Finish`, `FinishFails`; `SaveCopy`, `MirrorCopy`;
`Retry`, `Delete`, `DeleteAccount`; `Boot` (recovery of 'sending' rows to
'unknown', then the workers), `Stop`, `Stopped`, `Crash`; `ProviderCopy`,
`Expunge`, `SyncSent` for other actors of the Sent folder. A SQL statement or
transaction is one step, and so is a network exchange.

**Abstractions.** One account. MIME, recipients and credentials are the classes
of outcome they lead to. Rows created in the same millisecond may be claimed in
either order by the code; the model orders them by id and no property depends on
it. `log.Fatal` and `os.Exit` after an update are crashes: the deferred
`StopOutbox` runs only on a graceful return. The event hub is `Realtime`.

**Runs.**

| run | instance | size | question |
|---|---|---|---|
| `OutboxOneRow` | 1 row, 2 workers, all imports, 2 retries, 3 starts | 45 thousand states, 7 s | `AcceptedOncePerAsk`; `DeliveryIsHonest` (what status and Sent copy prove, and that nothing is submitted unasked); `KeepsPromise` |
| `OutboxWorkers` | 2 rows, 2 workers, 2 keys, no retries, 2 starts, fairness | 298 thousand, 80 s | `RowsAreOwned` (exclusive claims, nothing left 'sending'); `CompositionsAreKept` (discarded drafts are in the table, a repeated upload is delivered once, replaced rows stay retired); `QueuedIsSettled` |

Why this is enough: rows interact only through claims, client keys and
replacements, each between two rows; a third worker repeats what two do; a second
retry and a third start are what it takes to see a late acceptance of the first
submission after a recovery, a retry and another crash. The theorems remove the
bounds altogether for everything but liveness; retries with two rows, which no run
has, are covered by them. Deadlock is not checked: the
number of starts is bounded and the user may have nothing to do.

**Fairness** (`FairSpec`): each worker's delivery steps (goroutines are
scheduled; `smtpSendTimeout`, dial timeouts and the 15 s context of the mirror
step end every call), `Stopped`, and `Boot` (a supervisor restarts the process).
No fairness of users, servers or crashes. `QueuedIsSettled` excepts a row whose
result this process could not write: such a row waits for the next start.

**The promise.** `SendPromise` knows five things of a message: pending, in
flight, sent, failed or unknown, and withdrawn. It may be delivered only while it
is in flight, or late after a doubt, and only as often as the user asked for it in
doubt. `KeepsPromise` maps status to that state and `accepted` and `doubts` to
deliveries and doubts; crashes, workers and SMTP disappear.

## 4. Scheduled send

**State.** `store` is the namespace `scheduled_sends`; there is no transaction
across calls, so Get, List, Set and Delete are a step each. Each request and the
drain have `pc`, `at` (the record) and `copy` (what they read); `batch` is the
listing the drain works through. `boots`, `up`, `stopping` are the process,
`clock` the time, `delivered` the SMTP server; `created`, `cancelled`, `quiet`,
`tries`, `excuses`, `refused` are observers.

**Actions.** `Schedule`, `Patch` and `CancelFind`/`CancelDelete` are the
handlers; `PutCheck`, `PutCount`, `PutWrite` the three calls inside `Put`, shared
by handlers and drain; `ListDue`, `Fire`, `SkipUnreadable`, `SmtpRefuse`,
`SmtpAccept`, `SmtpReply`, `SentDelete`, `Abandon`, `EndPass` the drain; `Boot`,
`Stop`, `Stopped`, `Crash`, `Tick` the environment. With `StoreFails` every call
of the store may return an error. The branch of `fire` without a configured
sender only logs and is left out; a record whose secret cannot be decrypted is
skipped on every pass for ever, as in the code.

**Runs.**

| run | instance | size | question |
|---|---|---|---|
| `ScheduleEdits` | 2 records (one unreadable), 2 requests with edits, a failing store, a quota of one, crash and restart; requests symmetric | 381 thousand states, 24 s | `RecordsAreKept`: never dropped before it is delivered, given up or cancelled; a cancel nobody holds a copy of is final |
| `ScheduleLive` | 2 records, bodies that cannot be built, 1 request without edits, 9 submissions, a restart, fairness | 326 thousand, 60 s | `DuplicatesExcused`; every record is resolved |
| `ScheduleCancelRace` | violation | seconds | a cancel acknowledged, then the send |

Two requests and the drain are three writers of one key: every race here is
between a read of one and a write of another. `MaxAttempts` is 2 (one repetition
and the last one), `MaxSends` bounds the submissions of a record above what a
record's budget needs, and `ScheduleLive` has room for the whole budget over a
restart. Fairness: the drain's pass, requests in progress, `Boot`, `Tick`.

`CancelledNeverFires`, from a test's words "a cancelled send must never fire", is
violated: the drain fires what it listed without looking again. Three more
properties of this module have the same cause, a copy read in one call and used
after another call has changed the record; they are in section 8.

## 5. Mail tasks

**State.** `row` is the `mail_tasks` row: status, attempts, the holder of the
token, whether its lease is live, and the payload (none, the basic notice, or the
summary). A worker is one lane goroutine of one runner; it keeps one lease at a
time and forgets it on return, so its name stands for its token, and the journal's
'running' entry for a token exists exactly while the token is on the row (both
change in the same transactions), which is what `recordMailTaskPhase` and
`recordMailTaskCacheResult` test. `due`, `waited` are the clock; `summary` and
`redoing` whether a mail's summary is 'ready' or being regenerated by the user.
`pc`, `job`, `note` and `end` are the worker's position in `process` and
`executeMailTask`; `sent`, `surplus`, `runs`, `hopeless` are observers.

**Actions.** `Enqueue`; `Claim` (the single UPDATE with lane, cap, eligibility
and order, and the attempt limit that is tested right after it); `Skip`, `Begin`,
`Generate`, `Record` (AI tasks); `Choose`, `Save`, `Send`, `Answer`
(notifications: look for a frozen text or make one, freeze it, post it, read the
acknowledgement); `Fail` (any step, with the class of its error); `Settle`
(`completeMailTask` or `failMailTask` under the token), `SettleFails`;
`LeaseOver`, `Elapse`, `Wait` (time); `Retry`, `DeleteMessage`, `Redo`, `Redone`
(user); `Start`, `Stop`, `Stopped`, `Crash` (runners).

**Abstractions.** Backoff and `Retry-After` are "some time later". Tasks of one
kind are taken in any order. A claim refused while the mailbox synchronizes is a
claim that happens later. `Redone` covers a regeneration that succeeds or falls
back on the old text. The maintenance drain without lanes is not modelled.
A mail that was deleted does not come back here; that needs `MirrorSync` composed with it. Runners
overlap because two processes may share a database and because `StopAccount`
forgets an account before its goroutines have ended; a lease can run out under a
worker that lives on when its host sleeps or the wall clock jumps.

**Runs.**

| run | instance | size | question |
|---|---|---|---|
| `MailTasksNotify` | 1 mail, analysis and notification, an AI lane and two overlapping notification lanes, 2 attempts, 1 retry, 1 lost lease or result, 1 stop or death; n1 and n2 symmetric | 1.5 million states, 93 s | `WorkIsAccounted` (one text per notification, doubtful duplicates only, ready means done, the attempt budget); `DoneIsFinal` |
| `MailTasksThink` | 2 mailboxes, 3 AI tasks, one slot, 1 stop or death, fairness | 87 thousand, 55 s | `AICapacity`; `EventuallySettled` |

Two overlapping workers and one lost lease are the smallest instance in which a
worker reports after another has taken over; one retry after a failure starts the
whole protocol again with a payload that is already frozen. The limits are 2
instead of 5 and 8: both only compare. The cap is 1 instead of 4, with two
mailboxes that want it. Symmetry is used only where no liveness is checked.

**Fairness**: executions end (100 s and 15 s limits, 5 s for the record of the
result), lanes poll every 5 s, leases and delays run out, runners are started
again. Users and crashes are not fair.

## 6. Mailbox mirror

**State.** One folder: `srv` and `uidNext` are the server's, `copies` what arrived
in the folder mail is moved to; `msgs` the mirrored rows with one flag, `tasks` the
UIDs whose background tasks were enqueued, `pmove` and `pflag` the queued intents
with their version and retry delay, `count` and `synced` the folder's row. Two
synchronizers, the account's loop and an immediate request, each have a position
and what they hold: a page fetched, the cursor they started from, the UID list they
were told. `stored`, `doomed`, `based` and `history` are observers.

**Actions.** The user's requests (`MarkSeen`, `MoveAway`, and `RemoveUpstream` with
`RemoveLocally` for junk) and `SyncNow`; the loop's pass: `StartPass`,
`MoveUpstream`, `SettleMove`, `ListFlags`, `StoreFlags`, `SettleFlags`,
`RecordFolder`, then either the first scan (`ScanPage`, `StoreScanned`) or the
incremental one (`Select`, `ReadLocal`, `FetchFlags`, `SyncFlags`, `Pull`,
`StoreIncoming`, `FetchBodies`, `StoreBodies`, `Reconcile`, `Prune`), `Finish`;
`GiveUp` and `Crash` at any of them; `Arrive`, `RemoteExpunge`, `RemoteSeen` of
other clients; `Elapse` of the retry delay. Each IMAP command and each transaction
is a step, and a command's effect may happen without its answer.

**Runs.** `MirrorIntent`: two UIDs, a folder before or after its first scan, two
requests, one change by another client, one fault, under fairness. Two UIDs are
enough for a page that holds one message while the cursor is about another; batch
and window of one make every page a boundary. `MirrorIsSound`: an intent that is
pending is what the mirror shows, mail stored after the first scan has its tasks,
and what left the folder arrived or was deleted by somebody. `IntentIsKept`: a
queued intent is dropped only when its newest version has reached the server, and
it reaches it in the end. `MirrorDeleted` (no user, two remote steps) violates
`DeletedIsRemoved`: `UpsertFolder` zeroes the count that decides whether a prune is
needed. **Fairness**: the loop runs on its ticker and retry delays pass; neither
users nor faults are fair.

## 7. Three compositions

Each of these runs checks several components in one model: `working` is the
component a behaviour is about, chosen at the start. That loses nothing as far as
the models go: within a composition no two components share a variable, so the
steps of others are stutters for the one a property is about. Where two parts do
share state they are one module (compose window, draft row and outgoing queue in
`Drafts`; hub, watcher and browser in `Realtime`; chat, registry and documents'
cards in `ChatTurn`). A component that does not work starts in one fixed state and
adds nothing. Each property says of one component that it holds while that one
works.

**`Mailbox`** (1.5 million states, 2 minutes).

| component | instance | properties |
|---|---|---|
| drafts | one tab, two windows; one conversation and a new message; two handlers by turns, two rows, three texts, one discard, one lost answer, or no discard and two lost answers | `SavesAreTaken`: a save is resolved to the row of its conversation; `MailIsKept`: no older text lands on a newer one |
| conversations | two conversations, two messages, pages of one, one act, one change by others | `PagesCoverAll`: a walk shows what stayed where it was exactly once, an open window has no gaps; `MailIsKept`: mail that arrives during an act is left alone, loaded messages stay |
| threads | two accounts, three messages with headers that know their ancestors, one parent only, or contradict each other; two listings; no failures of the header cache, which only the theorem covers | `ThreadsAreSound`: no cycles, every message once, answers together |
| events | one tab, one writer, a buffer of one, one connection and one watcher, two revisions, a logout, a crash, reconnections | `EventsAreSound`: a tab at rest is current; a watcher that runs serves somebody, and the cap holds |
| accounts | two accounts, two loops, two requests by two handlers | `AccountsAreSound`: every loop can be told to end; one default at rest |

**`Assistant`**, with the administration of the server (661 thousand states, 2 minutes).

| component | instance | properties |
|---|---|---|
| agent run | 3 turns, 1 call per turn executed, 2 calls in all, 1 correction, sizes up to 8, a mail of 2 pieces; responses with up to two calls of any kind | `AnswersAreSound`: every call has its result before the model is asked again, and the answer was earned |
| completion | 3 pieces, every provider, buffered or streamed, finish reasons, broken streams, the retry without thoughts | `AnswersAreSound`: a streamed answer is whole and shown once |
| chat | two handlers, two requests, two runs, a changed context or document, a fault, stop, retry, expiry, deletion | `ChatIsSound`: history, one turn, silence after a stop, the current document |
| results | two callers, three asks and claims, a changed mail, a crash, for summary, translation, reply | `CurrentIsCurrent`, `ResultKept` |
| settings | two models, one agent, two tasks, three skills, one handler, three edits | `ConfigIsSound`: one default, bindings resolve, one version of a skill per run |
| users | two logins, two keys, two handlers, three key events | `ConfigIsSound`: the trail of a key |
| connected accounts | two spellings of one mailbox and another one, a quota of one, three calls, one error of the store | `ConfigIsSound`: the unified inbox has for each listed account its own messages or its error; the quota is exceeded by no more than overlapping requests |
| update | two overlapping installations, three requests, four versions, one without the program in its archive, one death | `UpdateIsSafe`: whatever fails, what is left can be started and is not older than the process; a refused lone request changes nothing; what was promised is what starts |

**`Office`** (530 thousand states, 2 minutes).

| component | instance | properties |
|---|---|---|
| catalogue | one dimension of two options, one old price row, two products and categories, an import, four writes | `CatalogueIsSound`: shared meaning, a tree of categories, one import; `OffersAreKept`: a version names one offer |
| price lists | two columns, two rows, two importers, edits | `NothingInvisible` |
| documents | one editor tab, two handlers, one card, two catalogue versions, three edits, one fault | `PricesHaveSource`; `OffersAreKept`: no edit lost, deleted stays deleted |
| templates | one built-in template (the same module: templates and documents share nothing) | `OffersAreKept`: a deleted template stays deleted |
| calendar | one event, one guest, two requests, one change by another client, one fault | `MeetingsAgree`; `GroupwareIsKept`: an edit leaves no second copy |
| contacts | two groups, two address books, three cards, two requests | `GroupwareIsKept`: groups lose no member, imports add only |

Why these bounds: each hazard of `PROJECT.json` is between two actors, or between
one actor and one fault, and needs one repetition; the instances have two of
everything that interacts and one fault. Mutated definitions (section 11) break
every property within them. Deadlock is not checked: requests, changes and faults
are bounded. Symmetry is used for handlers and requests, never with a liveness
property. Only safety is checked in the compositions.

## 8. Where the code and its words disagree

Two runs expect a violation and are listed as findings: `ScheduleCancelRace` and
`MirrorDeleted`. While modelling, TLC refuted more statements; the modules keep
them as definitions with the words they are taken from, but no run repeats them.

| definition | statement | what happens instead |
|---|---|---|
| `ScheduledSend.QuotaHolds`, `ConnectedAccounts.QuotaIsKept` | the quota of an account | counting and writing are separate calls of the store, concurrent requests all find room |
| `ScheduledSend.FiresWhenDue` | "fire at-or-after this instant" | an edit that postpones a listed record is acknowledged, and the old copy fires |
| `ScheduledSend.DuplicatesExcused` with edits | "Sent: delete so it does not re-fire" | an edit puts back a record that was sent and deleted meanwhile |
| `MirrorSync.FlagReached` | a flag is reconciled with the server | moves are flushed first, the flag is then stored on no message and acknowledged |
| `AccountLoops.DeletedLoopsEnd` | no worker of a deleted account stays | a trigger between the stop and the deletion starts it again |
| `Drafts.NewestStays`, `ThrownStaysAway`, `ClosingKeeps` | one write at a time; a discarded window stays away; closing flushes what was typed | discarding forgets a save in flight, whose row or late write comes after; a flush at the close may be refused or lost |
| `Realtime.UnchangedIsCurrent`, `LoggedOutIsSilent` | "unchanged" is authoritative; a deleted session hears nothing | a change commits before its revision is bumped; a stream that subscribes during a logout stays |
| `Users.SomebodyAdministers` | somebody administers the installation | the first to register is the administrator only while it is the only row: the row of the demonstration mailbox, or a concurrent registration, leaves nobody, and so do two demotions at a time |
| `AIConfig.UpdatesWhatItRead`, `DisabledStaysOff` | compare-and-swap; a function switched off stays off | a skill made again under its id starts at revision 1; deleting the assistant or model a task is bound to removes the binding with its switch, and the default serves it |
| `Completion.BufferedIsWhole` | the same validation for buffered answers | a buffered answer cut at the limit is accepted |
| `AgentRun.SpaceReserved` | space is reserved for the final request | results and notices together can exceed it, and the run fails |
| `Threading.OwnMailOnly` | the store of headers is one account's | the namespace names the user and the folder: the accounts of one user share it |
| `Calendar.OverrideKeepsSeries` | an override of one occurrence | the PUT replaces the object that holds the series |
| `Contacts.OnlyMembershipDropped` | only the membership is dropped | properties of other clients go with it |
| `PriceLists.ImportMerges` | an import merges | cells without a column in the file are emptied |

`SelfUpdate.PromisedIsInstalled` excepts a process that could not start a child:
of two overlapping installations, one that fails at its restart puts the old file
back after the other was answered that the new one starts.

## 9. Proofs

All proofs are for any numbers of rows, records, workers and requests, and any
values of the bounds. They assume the assumptions of the modules
(`OutboxAssumption`, `ScheduleAssumption`, ...): types of the constants, that
the markers for "nothing" are not members of the sets they are used with, that the
accounts, message numbers and ids of threads and the mailboxes of a user are finitely
many, that among the dates there is a latest ("now", the date of mail just queued),
and that the ids suffice for the mailboxes (a bound of the model; in the database they
have 64 bits). TLC evaluates them in every run.

`OutboxProofs`
- `TypeCorrect`. `TypeOK` alone is not inductive: that a busy worker's `job` is a
  row needs `JobOK`.
- `ClaimsAreExclusive`, `NothingLeftSending` (together `OneOwner`, which states
  `RowsAreOwned`) and `SentStaysSent` rest on `Ownership`: types, a process that is
  down has no busy worker, the row of a worker in flight is 'sending' or gone, and
  every 'sending' row is held, lost or from an earlier process. Exclusiveness is
  inductive only together with these: a claim picks a 'queued' row, and no worker's
  row is 'queued'.

For what was delivered it adds `Ledger`:
- `Debt`: deliveries made and still possible (`Handed`, that is `accepted` plus
  `late`), with what a worker may still add, against doubts;
- `Evidence`: Sent copies and mirrors only of accepted mail;
- `Unborn`: a row that does not exist has no history;
- `Requested`, `KeysOnce`, `Committed`: attempts against requests, one live row
  per client key, discarded drafts are in the table.
It gives `DeliveredOnce`, `FailureIsReal`, `NothingUnasked`, `CopiesAreTrue`
(together `HonestDelivery`, which states `DeliveryIsHonest`), `UploadsAreIdempotent`,
`DraftsAreSafe` and `ReplacementIsFinal` (together `CompositionsSurvive`, which
states `CompositionsAreKept`). `AcceptedOncePerAsk` alone says nothing of a
submission that may still be accepted late, which is why the debt must be counted
when it is made.

The refinement is `PromiseKept`: every step of the outbox is a step of
`SendPromise` or a stutter, with `Ledger` as the invariant that makes the
abstract guards true.

`ScheduledSendProofs`
- `ScheduleTypeCorrect` and `QuietCancelStays`, from `Sound`: types, what each
  process's position says of its copy, and that an id in anyone's hands was
  created.
- `DuplicatesAccounted`: if no request edits records (`~Patching`), then
  `DuplicatesExcused`, from `Fresh` (an id not yet used has no history), `Firing`
  (only the drain holds sent records), `NoEdits` and `Excused` (each delivery has
  been excused, or the drain still has the record in hand, or it left the store).
- `AcceptedRecordsKept`, which states `RecordsAreKept`: an accepted record stays in
  the store until it is delivered, cancelled or out of attempts, for any number of
  requests, edits and failing calls of the store. It needs `Budget` (no copy, in the
  store or in anyone's hands, counts more attempts than were made, so that an old
  copy written back never ends a record early) and `Disposing` (the drain deletes a
  record only with a reason).

`MailTasksProofs`, from `TasksInv`:
- `WorkerIsSound`: a worker is at a task of its lane, within the attempts, has what
  it is about to report (`HasResult`), and the text it holds is the one frozen in
  the row (`HoldsText`). The last part is what "one text per notification" needs: a
  worker that has lost its lease may still send, so its text must be the row's, or,
  once the mail is deleted, that of every other sender (`SendersAgree`).
- `RowIsSound`: a row is held exactly while it runs; its attempts are the executions
  up to the limit.
- `DeliveriesAreExcused`: accepted notifications, with those that may still follow,
  exceed the excused ones by at most the one that is accounted for. Counting only
  what was delivered is not inductive: of two workers that are about to send, each
  may be the second.
- `Capped`: the AI tasks under live leases are at most `MaxAI`; a claim counts and
  takes in one statement, and nothing else makes a lease live.
It gives `TasksTypesCorrect`, `WorkAddsUp` (`WorkIsAccounted`), `CapacityKept`
(`AICapacity`) and `DoneStaysDone` (`DoneIsFinal`), for any number of mails,
mailboxes, runners and attempts.

`MirrorSyncProofs`, from `MirrorInv`:
- `RowsAreKnown`: every row and every intent is of mail the server has had, a move is
  queued only for mail that was stored, and for good only if the user said so.
- `SyncerIsSound`: what a synchronizer holds is stale, so the invariant says what
  survives: its page is of mail that was there; when it stores bodies, their messages
  have tasks or are history (`Announced` only grows); it scans only without a baseline.
- `MovesListed` and `FlagsListed`: a row the loop listed is still there, as it was or
  in a newer version; a move that was carried out has left the folder, a flag that was
  acknowledged is stored.
It gives `MirrorTypesCorrect`, `MirrorStaysSound` (`MirrorIsSound`: intents are shown,
new mail has its tasks, no mail is lost between folders) and `AckedIsReached`, the
safety half of `IntentIsKept`: only the version guards keep a late acknowledgement
from dropping a newer intent.

`AssistantProofs` proves the composition `MCAssistant`. The components share no variable: each has an inductive invariant of its own, and
`StepOfOne` says that a step of the composition is a step of one component and leaves
the variables of the others alone.
- `AnswersAreEarned` from `RunInv` (the calls still to be handled are those without a
  result, `Pending`; a request fits, an answer was given) and `CompletionInv` (what the
  reader of a stream passed on is what was generated).
- `ChatsAreSound` from `ChatInv`: versions and messages are counted by turns, tokens
  differ, the question of an open turn is the last message as long as the session has
  the version the turn began with, and at the version a handler counts on the document
  is as it read it.
- `ServedIsCurrent` and `ResultsAreKept` from `ResultInv`: a lease is newer than the
  text it may replace; what a caller is told as current is from the mail it asked about.
- `SettingsAreSound` from `ConfigInv` (the stored table of skills always resolves; what
  a run has read is in the catalogue it froze), `UserInv` (the two ends of a rotation
  name each other) and `ConnectedInv` (a goroutine that is done has reported in a place
  of its own; addresses with a record, or about to get one, are fewer than the quota
  and the handlers together).
- `InstallationsAreSafe` from `UpdateInv`: what a request carries is newer than the
  process, a request beside which nobody is at work knows the files, a backup can be
  started, files are put back only after a child could not be started.
- `AssistantTypesCorrect`: the types of all eight components.

`OfficeProofs` proves the composition `MCOffice` in the same way, from `OfficeInv`.
- `CatalogueStaysSound` from `CatalogueInv`. A product and a dimension count their
  versions up with every write (`ProductTables`), so what an import has read either is
  what is there or has another version, and its transaction refuses (`ReadIsKept`);
  `RowsOnce` is `ImportedOnce` for products of any number. That categories stay a tree
  needs no induction over data: `Subtree` is the least set closed under children, as
  the recursive query computes it, and a category that moves under one outside that set
  has, as the new set of what is below it, one that misses the place it moved to.
- `RowsAreVisible` from `ListInv`: rows are visible under the columns that are there,
  and what an import holds was cleaned of those it did not find.
- `PricesAreReal` from `DocInv`: what an editor or a save holds has all edits of the
  stored document as long as it has its revision (`Reads`), and its catalogue lines
  have the prices of their versions (`TrulyPriced`); a revision is no more than the
  edits that made it, which bounds it. The ids the server mints are none of a
  message's (`DocumentsAssumption`; `newID` draws 16 random bytes).
- `GuestsAreTold` from `CalendarInv`: mail about a meeting is sent by a request whose
  meeting is in `stored`, an answer is put by one whose reply is in `told` (`Backed`).
- `OffersStayOffered` and `GroupwareStays` are action properties from the same
  invariants and `ContactsInv`: a walk over a group rewrites cards that were listed,
  and a new card is written at a path nobody has (`Reaches`).
- `OfficeTypes`: the types of all five components.

`MailboxProofs` proves the composition `MCMailbox`, with `ThreadingProofs` for the
threads. The messages' headers, like the spellings of an address in `MCAssistant`, are
constants: the runs give them a small set, the theorems are for any.
- `LoopsCanBeEnded` from `LoopInv`. A request is a list of statements still to run; an
  id stands for one mailbox, in the rows and in what requests are about to write
  (`OneMailbox`), and two defaults exist only while a request is about to set one
  (`DefaultIsDue`), which is why they are excluded only at rest.
- `QuietTabsAreFresh` from `EventInv`. Revisions are pairs of a process and a number;
  cache, request and hub are in that order (`RevisionsInOrder`), a list of the hub's
  revision is the mailbox's except for changes not yet published (`RevisionNamesList`),
  and a stale list is owed a fetch (`StaleIsOwed`): by an unpublished change, by a frame
  in the buffer that does not carry the tab's own mark, by the overflow that closes the
  stream, or by the answer to its own write. Each of them alone is lost in some
  interleaving.
- `DraftsStayOne` and the half of `MailStays` about drafts, from `DraftInv`: under the
  lock one request has resolved its row (`OneIsResolved`), and it is the row of its
  conversation. Until a window is thrown away (`TextsInOrder`), a window has one save on
  its way (`OneSaveAtATime`), and stored, sent and shown text are in this order
  (`LaterIsAhead`).
- `ReadersMissNothing` and the other half of `MailStays`, from `ReadInv`: a walk has
  returned exactly the rows at or before its cursor, of those that stayed (`WalkHeld`);
  a window has what stayed between its ends, and a refresh that is under way has what
  the window has, unless an end has moved meanwhile (`Covers`, `Fits`).
- `ThreadsStaySound` from `ThreadInv`. The code climbs from a container to its root; the
  climbs are shown to be walks along the links, a link is made only where it closes no
  loop (`Loopless`), and where all that was told of forms one tree the links are all of
  it (`LinksHeld`). Induction over the length of a walk is made in its set form
  (a set of numbers with 0 that is closed under successor has all of them), and that a
  climb of as many steps as there are containers has ended is the pigeonhole principle.
- `MailboxKeepsTypes` adds `MailboxBounds`, what the guards on the counters bound.
**Only model-checked.** Liveness is beyond this prover: `QueuedIsSettled`, the
resolution of scheduled records, `EventuallySettled`, `IntentDelivered` and the
properties that contain them. The definitions of section 8 are statements the model
refutes.

## 10. Not modelled

- Transport and formats: SMTP, IMAP, MIME, CalDAV and CardDAV on the wire (their
  outcomes and the order of their commands are modelled), parsing of mail and of
  model output, charsets, the S3 and PostgreSQL drivers (each call of a store is one
  step), Web Push encryption and its subscriptions.
- Presentation: templates, layout, translations, the site, scripts. Of the web
  client, only the parts that keep state against the server are modelled: the
  compose window, the conversation pages and the revisioned list.
- Of components that are "partly" modelled: compaction, memory and attachments of
  chats; prompt presets; notes, tags and search of conversations; media and filters
  of the catalogue; search, sources and export of price lists; views and free-busy
  of calendars; photos, export and frequent contacts; the rest of the JSON API, which
  translates single calls.
- A second process over one database, other than the overlapping runners of
  `MailTasks`.
- The composition of `MailTasks` with `MirrorSync`: in the first a deleted mail does
  not come back, in the second tasks are only enqueued.

`PROJECT.json` lists every component with its reason.

## 11. Running it

    tlc -workers 2 -config OutboxOneRow.cfg MCOutbox
    tlapm OutboxProofs.tla

Each run's module is in `PROJECT.json`; sizes and times here are of two workers.
Operators whose comment starts with "Mutant" or "As if" are mutated forms of a
definition beside them: substituting one must break the property named with it in
`PROJECT.json`, which shows that the property depends on that code.
