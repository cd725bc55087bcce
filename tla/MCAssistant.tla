----------------------------- MODULE MCAssistant -----------------------------
(* The AI parts of the server and its administration on small instances: the  *)
(* agent's run, one model completion, a chat turn, the leased results of a    *)
(* mail, the settings these read, the users with their keys, the accounts     *)
(* connected to the JSON API, and the update of the program.  As modelled     *)
(* they share no variable, so whatever one of them does in an interleaving    *)
(* with the others it also does alone: a behaviour chooses the component that *)
(* works, and the others stay where they begin.                               *)
EXTENDS AgentRun, TLC

CONSTANTS CompletionCalls, MaxPieces,
          ChatHandlers, ChatRequests, MaxRuns, MaxChatChanges, MaxFaults,
          Callers, MaxAsks, MaxClaims, MaxChanges, MaxCrashes,
          Models, Agents, Tasks, SummaryTask, Skills, BuiltIn, ConfigHandlers, None, MaxEdits,
          Logins, Demo, UserHandlers, Passwords, MaxKeys, MaxEvents, MaxSwitches,
          Upper, Lower, Other, Typed, Connectable, SameMailbox, MaxConnected, MaxCalls, MaxErrors,
          Installers, MaxVersion, Hollow, MaxInstalls, MaxStops

VARIABLES working,    \* the component of this behaviour
          call, attempt, pc, made, reason, got, complete, emitted, asked,
          session, messages, runs, registry, calls, stops, fenced, library, chatBounds,
          kind, row, mail, callers, answers, renewed, bounds,
          models, default, agents, summarizer, binding, skills, active, selected, request,
          turnedOff, edits,
          users, registration, userRequests, sessions, keys, switches,
          records, upstream, connectedCalls, called, errors,
          published, executable, previous, serving, installs, children, leaving, promised,
          unrestarted, installsAsked, dies

Completion == INSTANCE Completion WITH Calls <- CompletionCalls
Chat == INSTANCE ChatTurn WITH
    Handlers <- ChatHandlers, Requests <- ChatRequests, MaxChanges <- MaxChatChanges,
    bounds <- chatBounds
Results == INSTANCE AIResults
Config == INSTANCE AIConfig WITH Handlers <- ConfigHandlers
Users == INSTANCE Users WITH
    Handlers <- UserHandlers, open <- registration, requests <- userRequests
\* In the run: two spellings of one mailbox, and another mailbox.
TwoSpellings == <<Upper, Lower, Other>>
TwoMailboxes == {Lower, Other}
LowerOrOther == [s \in {Upper, Lower, Other} |-> IF s = Other THEN Other ELSE Lower]
Connected == INSTANCE ConnectedAccounts WITH
    Spellings <- Typed, Mailboxes <- Connectable, MailboxOf <- SameMailbox,
    Handlers <- UserHandlers, calls <- connectedCalls
Update == INSTANCE SelfUpdate WITH running <- serving, asked <- installsAsked, stops <- dies

completionVars == <<call, attempt, pc, made, reason, got, complete, emitted, asked>>
chatVars == <<session, messages, runs, registry, calls, stops, fenced, library, chatBounds>>
resultVars == <<kind, row, mail, callers, answers, renewed, bounds>>
configVars == <<models, default, agents, summarizer, binding, skills, active, selected, request,
                turnedOff, edits>>
userVars == <<users, registration, userRequests, sessions, keys, switches>>
connectedVars == <<records, upstream, connectedCalls, called, errors>>
updateVars == <<published, executable, previous, serving, installs, children, leaving, promised,
                unrestarted, installsAsked, dies>>
\* What the other behaviours leave alone, in two parts.
aiVars == <<vars, completionVars, chatVars, resultVars, configVars>>
programVars == <<userVars, connectedVars, updateVars>>

ASSUME AssistantAssumption ==
    /\ Completion!CompletionAssumption /\ Chat!ChatAssumption
    /\ Results!ResultsAssumption /\ Config!AIConfigAssumption
    /\ Users!UsersAssumption /\ Connected!ConnectedAssumption /\ Update!SelfUpdateAssumption

AssistantInit ==
    /\ working \in {"run", "completion", "chat", "results", "config", "users", "connected", "updating"}
    /\ Init /\ Completion!Init /\ Chat!Init /\ Results!Init /\ Config!Init
    /\ Users!Init /\ Connected!Init /\ Update!Init
    \* a component that does not work begins in one state only
    /\ working = "run" \/ (profile = "chat" /\ size = 1 /\ covered = {})
    /\ working = "completion" \/ call = CHOOSE c \in Completion!Call : TRUE
    /\ working = "results" \/ kind = "summary"
    /\ working = "updating" \/ published = 1

AssistantNext ==
    \/ /\ working = "run" /\ Next
       /\ UNCHANGED <<working, completionVars, chatVars, resultVars, configVars, programVars>>
    \/ /\ working = "completion" /\ Completion!Next
       /\ UNCHANGED <<working, vars, chatVars, resultVars, configVars, programVars>>
    \/ /\ working = "chat" /\ Chat!Next
       /\ UNCHANGED <<working, vars, completionVars, resultVars, configVars, programVars>>
    \/ /\ working = "results" /\ Results!Next
       /\ UNCHANGED <<working, vars, completionVars, chatVars, configVars, programVars>>
    \/ /\ working = "config" /\ Config!Next
       /\ UNCHANGED <<working, vars, completionVars, chatVars, resultVars, programVars>>
    \/ /\ working = "users" /\ Users!Next
       /\ UNCHANGED <<working, aiVars, connectedVars, updateVars>>
    \/ /\ working = "connected" /\ Connected!Next
       /\ UNCHANGED <<working, aiVars, userVars, updateVars>>
    \/ /\ working = "updating" /\ Update!Next
       /\ UNCHANGED <<working, aiVars, userVars, connectedVars>>

assistantVars == <<working, aiVars, programVars>>
AssistantSpec == AssistantInit /\ [][AssistantNext]_assistantVars

Sym == Permutations(ChatHandlers) \cup Permutations(ChatRequests) \cup Permutations(UserHandlers)

\* The variables of every component keep to their values.
AssistantTypeOK ==
    CASE working = "run"        -> TypeOK
      [] working = "completion" -> Completion!TypeOK
      [] working = "chat"       -> Chat!TypeOK
      [] working = "results"    -> Results!TypeOK
      [] working = "config"     -> Config!TypeOK
      [] working = "users"      -> Users!TypeOK
      [] working = "connected"  -> Connected!TypeOK
      [] working = "updating"   -> Update!TypeOK

\* The answer of a run is earned by a model reply, with every call answered in order, within its
\* budgets (runtime.go); and a streamed completion that succeeds has given its consumer every
\* piece the backend generated, once (ai_stream.go, ai_completion.go).
AnswersAreSound == RunIsSound /\ (working = "completion" => Completion!StreamedIsWhole)

\* One turn at a time; its answer is filed under the question it answers, never after a stop, and
\* the document card a reader is shown is the current one (ai_agent_chat.go, ai_chat_sessions.go).
ChatIsSound ==
    working = "chat" => /\ Chat!ChatHistory /\ Chat!OneTurn
                        /\ Chat!StoppedStaysSilent /\ Chat!ReadersAreCurrent

\* A result served as current was made from the mail as it is now (message_summaries.go,
\* mail_translation.go, reply_suggestion.go).
CurrentIsCurrent == working = "results" => Results!CurrentIsCurrent

\* A finished result gives way only to a newer one, or leaves with its mail.
ResultKept == [][working = "results" => Results!ResultKept]_assistantVars

\* At most one default model and one summarizer; what a task is bound to resolves; a run works
\* with one version of its skill; the trail of a key says what became of it; and a unified inbox
\* answers for every account connected to it (ai_settings.go, ai_agents.go, ai_skills.go,
\* api_keys.go, jsonapi/accounts.go).
ConfigIsSound ==
    /\ working = "config" => Config!OneDefault /\ Config!SkillsResolve /\ Config!OneVersionPerRun
    /\ working = "users" => Users!KeysAreTracked
    /\ working = "connected" => Connected!ConnectedIsSound

\* However installations overlap, fail and die, a verified program that is not older can be
\* started, a refused one changes nothing, and what was promised starts (update.go).
UpdateIsSafe == working = "updating" => Update!UpdateIsSafe
=============================================================================
