------------------------------ MODULE AIConfig ------------------------------
(***************************************************************************)
(* The AI configuration of one owner: the models with their default, the   *)
(* assistants (agents), what each mailbox function is bound to, and the    *)
(* skills with their dependencies.  Source: mailstore/ai_settings.go,      *)
(* ai_agents.go, ai_task_bindings.go, ai_skills.go, ai_skill_session.go    *)
(* and ai_business.go, called from handlers/web/ai_settings.go,            *)
(* ai_agents.go and ai_skills.go.                                          *)
(*                                                                         *)
(* Every store operation is one transaction, hence one action; a handler   *)
(* that reads and then writes or reads again is several.  Texts, keys and  *)
(* provider addresses are left out; creation times are the order of the    *)
(* sequences models and agents.                                            *)
(***************************************************************************)
EXTENDS Naturals, FiniteSets, Sequences, SequencesExt

CONSTANTS Models, Agents,   \* identifiers a create may draw
          Tasks,            \* the functions of the mailbox (mail_summary, ...)
          SummaryTask,      \* the task that needs an assistant
          Skills, BuiltIn,  \* skill ids; the built-in summary workflow
          Handlers, None,
          MaxEdits          \* bound: settings changed in a behaviour

AIConfigAssumption ==
    /\ SummaryTask \in Tasks /\ BuiltIn \in Skills
    /\ MaxEdits \in Nat

VARIABLES
    models,     \* ai_models in order of creation
    default,    \* those with is_default
    agents,     \* ai_agents in order of creation
    summarizer, \* those with purpose mail_summary
    binding,    \* ai_task_bindings of the mailbox: None or a record
    skills,     \* ai_skills, a function of the ids that exist
    active,     \* ai_skill_settings.mail_summary_skill_id
    selected,   \* conversation_ai_business: the skill chosen for a conversation
    request,    \* what each handler holds between two statements
    turnedOff,  \* history: the tasks the user switched off last
    edits

vars == <<models, default, agents, summarizer, binding, skills, active,
          selected, request, turnedOff, edits>>

Kinds == {"chat", "summary"}
Skill == [deps : SUBSET Skills, on : BOOLEAN, kind : Kinds, rev : 1..(MaxEdits + 1)]
Binding == [agent : Agents, model : Models, on : BOOLEAN]
Idle == [op |-> "idle"]
Exists(s, x) == x \in ToSet(s)
\* a list without the member x
Removed(s, x) == RemoveAt(s, CHOOSE i \in DOMAIN s : s[i] = x)
Without(f, x) == [y \in DOMAIN f \ {x} |-> f[y]]
With(f, x, v) == [y \in DOMAIN f \union {x} |-> IF y = x THEN v ELSE f[y]]

-----------------------------------------------------------------------------
(* The graph of skills *)

\* what resolveAISkillRecords collects: a skill and all it depends on
Collected(sk, s) ==
    CHOOSE C \in SUBSET Skills :
        /\ s \in C
        /\ \A t \in C \intersect DOMAIN sk : sk[t].deps \subseteq C
        /\ \A D \in SUBSET C :
              (s \in D /\ \A t \in D \intersect DOMAIN sk : sk[t].deps \subseteq D) => D = C

NoCycle(sk, S) ==
    \A T \in SUBSET S : T # {} => \E t \in T : sk[t].deps \intersect T = {}

\* resolveAISkillRecords: the skill and its dependencies exist, are enabled,
\* are of the kind asked for and free of cycles
Resolves(sk, s, kind) ==
    LET C == Collected(sk, s)
    IN  /\ C \subseteq DOMAIN sk
        /\ \A t \in C : sk[t].on /\ sk[t].kind = kind
        /\ NoCycle(sk, C)

InspectedEnabled(sk) == {s \in DOMAIN sk : sk[s].on}
\* the records whose dependencies validateAISkillGraph visits: all of them
Inspected(sk) == DOMAIN sk

ValidGraph(sk, act) ==
    /\ \A s \in Inspected(sk) : \A d \in sk[s].deps :
          /\ d \in DOMAIN sk /\ sk[d].kind = sk[s].kind
          /\ sk[s].on => sk[d].on
    /\ NoCycle(sk, Inspected(sk))
    /\ \A s \in DOMAIN sk : sk[s].on => Resolves(sk, s, sk[s].kind)
    /\ act \in DOMAIN sk /\ sk[act].on /\ sk[act].kind = "summary"

-----------------------------------------------------------------------------

\* ensureAISkills stores the built-in skills; one of them is modelled
Init ==
    /\ models = <<>> /\ default = {} /\ agents = <<>> /\ summarizer = {}
    /\ binding = [t \in Tasks |-> None]
    /\ skills = [s \in {BuiltIn} |->
                    [deps |-> {}, on |-> TRUE, kind |-> "summary", rev |-> 1]]
    /\ active = BuiltIn /\ selected = None
    /\ request = [h \in Handlers |-> Idle]
    /\ turnedOff = {} /\ edits = 0

modelVars == <<models, default>>
agentVars == <<agents, summarizer>>
bindVars  == <<binding, turnedOff>>
skillVars == <<skills, active, selected>>
Edit == edits < MaxEdits /\ edits' = edits + 1

(* Models *)

\* the first model becomes the default
DefaultAfter(m) == IF models = <<>> THEN {m} ELSE default

CreateModel(m) ==
    /\ Edit /\ ~Exists(models, m)
    /\ models' = Append(models, m)
    /\ default' = DefaultAfter(m)
    /\ UNCHANGED <<agentVars, bindVars, skillVars, request>>

SetDefaultModel(m) ==
    /\ Edit /\ Exists(models, m)
    /\ default' = {m}
    /\ UNCHANGED <<models, agentVars, bindVars, skillVars, request>>

PromotedNone(left) == {}
\* the oldest of the models left takes over
Promoted(left) == IF left = <<>> THEN {} ELSE {Head(left)}

\* the bindings that name a deleted row go with it (ON DELETE CASCADE)
Unbound(field, x) ==
    [t \in Tasks |-> IF binding[t] # None => binding[t][field] = x THEN None ELSE binding[t]]

DeleteModel(m) ==
    LET left == Removed(models, m)
    IN  /\ Edit /\ Exists(models, m)
        /\ models' = left
        /\ default' = IF m \in default THEN Promoted(left) ELSE default
        /\ binding' = Unbound("model", m)
        /\ UNCHANGED <<agentVars, turnedOff, skillVars, request>>

(* Assistants *)

CreateAgent(a) ==
    /\ Edit /\ ~Exists(agents, a)
    /\ agents' = Append(agents, a)
    /\ UNCHANGED <<summarizer, modelVars, bindVars, skillVars, request>>

DeleteAgent(a) ==
    /\ Edit /\ Exists(agents, a)
    /\ agents' = Removed(agents, a)
    /\ summarizer' = summarizer \ {a}
    /\ binding' = Unbound("agent", a)
    /\ UNCHANGED <<modelVars, turnedOff, skillVars, request>>

Switched(t, on) == IF on THEN turnedOff \ {t} ELSE turnedOff \union {t}

SaveTaskBinding(t, a, m, on) ==
    /\ Edit /\ Exists(agents, a) /\ Exists(models, m)
    /\ binding' = [binding EXCEPT ![t] = [agent |-> a, model |-> m, on |-> on]]
    /\ turnedOff' = Switched(t, on)
    /\ UNCHANGED <<modelVars, agentVars, skillVars, request>>

(* Work for a task: the binding, then the records it names *)

ReadBinding(h, t) ==
    /\ request[h] = Idle
    /\ binding[t] # None => binding[t].on
    /\ request' = [request EXCEPT ![h] =
            [op |-> "task", task |-> t, bound |-> binding[t], agent |-> None]]
    /\ UNCHANGED <<modelVars, agentVars, bindVars, skillVars, edits>>

\* a document is written with the model of the draft function, on or off
WriteDocument(h, t) ==
    /\ request[h] = Idle /\ t # SummaryTask
    /\ request' = [request EXCEPT ![h] = [op |-> "document", bound |-> binding[t]]]
    /\ UNCHANGED <<modelVars, agentVars, bindVars, skillVars, edits>>

\* GetMailSummaryAgent: the assistant with the purpose, else the oldest ...
ChooseAgent(h) ==
    LET r == request[h]
        a == IF summarizer # {} THEN CHOOSE x \in summarizer : TRUE ELSE Head(agents)
    IN  /\ r.op = "task" /\ r.bound = None /\ r.agent = None
        /\ r.task = SummaryTask /\ agents # <<>>
        /\ request' = [request EXCEPT ![h].agent = a,
                           ![h].op = IF a \in summarizer THEN "model" ELSE "purpose"]
        /\ UNCHANGED <<modelVars, agentVars, bindVars, skillVars, edits>>

\* ... which is given the purpose by a second statement
AssignPurpose(h) ==
    /\ request[h].op = "purpose"
    /\ summarizer' = summarizer \union (ToSet(agents) \intersect {request[h].agent})
    /\ request' = [request EXCEPT ![h].op = "model"]
    /\ UNCHANGED <<agents, modelVars, bindVars, skillVars, edits>>

\* GetDefaultAIModel: the default, or the oldest model
HasDefaultModel == models # <<>>

\* the task runs with the bound model and assistant, which must still exist,
\* or with the default; a document falls back to the default
HasModel(r) ==
    IF r.bound = None THEN HasDefaultModel
    ELSE \/ Exists(models, r.bound.model) /\ (r.op = "document" \/ Exists(agents, r.bound.agent))
         \/ r.op = "document" /\ HasDefaultModel

ReadModel(h) ==
    LET r == request[h]
    IN  /\ \/ r.op \in {"model", "document"}
           \/ r.op = "task" /\ (r.bound # None \/ r.task # SummaryTask)
        /\ HasModel(r)
        /\ request' = [request EXCEPT ![h] = [op |-> "answering"]]
        /\ UNCHANGED <<modelVars, agentVars, bindVars, skillVars, edits>>

\* without a model or an assistant the request is refused and logged
Refused(h) ==
    LET r == request[h]
    IN  /\ \/ r.op \in {"model", "document"} /\ ~HasModel(r)
           \/ r.op = "task" /\ ~HasModel(r) /\ (r.bound # None \/ r.task # SummaryTask)
           \/ r.op = "task" /\ r.bound = None /\ r.task = SummaryTask /\ agents = <<>>
        /\ request' = [request EXCEPT ![h] = Idle]
        /\ UNCHANGED <<modelVars, agentVars, bindVars, skillVars, edits>>

Answer(h) ==
    /\ request[h].op = "answering"
    /\ request' = [request EXCEPT ![h] = Idle]
    /\ UNCHANGED <<modelVars, agentVars, bindVars, skillVars, edits>>

(* Skills *)

CreateSkill(s, kind, deps, on) ==
    LET sk == With(skills, s, [deps |-> deps, on |-> on, kind |-> kind, rev |-> 1])
    IN  /\ Edit /\ s \notin DOMAIN skills /\ s \notin deps
        /\ ValidGraph(sk, active)
        /\ skills' = sk
        /\ UNCHANGED <<active, selected, modelVars, agentVars, bindVars, request>>

\* HandleUpdateSkill reads the record and applies the fields the client sent;
\* without a revision of the client's, the one just read is expected
ReadSkill(h, s, deps, on) ==
    /\ request[h] = Idle /\ s \in DOMAIN skills /\ s \notin deps
    /\ request' = [request EXCEPT ![h] =
            [op |-> "update", skill |-> s, read |-> skills[s],
             new |-> [skills[s] EXCEPT !.deps = deps, !.on = on]]]
    /\ UNCHANGED <<modelVars, agentVars, bindVars, skillVars, edits>>

\* the compare-and-swap of SaveAISkill
Unchanged(s, rev) == skills[s].rev = rev

Updated(r) == With(skills, r.skill, [r.new EXCEPT !.rev = r.read.rev + 1])

\* the skill still exists, is as it was read, and the graph would resolve
MaySave(r) ==
    IF r.skill \in DOMAIN skills
    THEN /\ Unchanged(r.skill, r.read.rev) /\ skills[r.skill].kind = r.new.kind
         /\ ValidGraph(Updated(r), active)
    ELSE FALSE

SaveSkill(h) ==
    LET r == request[h]
    IN  /\ r.op = "update" /\ MaySave(r) /\ Edit
        /\ skills' = Updated(r)
        /\ request' = [request EXCEPT ![h] = Idle]
        /\ UNCHANGED <<active, selected, modelVars, agentVars, bindVars>>

UpdateRefused(h) ==
    /\ request[h].op = "update"
    /\ ~MaySave(request[h])
    /\ request' = [request EXCEPT ![h] = Idle]
    /\ UNCHANGED <<modelVars, agentVars, bindVars, skillVars, edits>>

DeleteSkill(s) ==
    /\ Edit /\ s \in DOMAIN skills
    /\ ValidGraph(Without(skills, s), active)
    /\ skills' = Without(skills, s)
    /\ UNCHANGED <<active, selected, modelVars, agentVars, bindVars, request>>

UseForMailSummary(s) ==
    /\ Edit /\ s \in DOMAIN skills /\ Resolves(skills, s, "summary")
    /\ active' = s
    /\ UNCHANGED <<skills, selected, modelVars, agentVars, bindVars, request>>

\* SaveAIBusinessContext
SelectSkill(s) ==
    /\ Edit /\ s \in DOMAIN skills /\ Resolves(skills, s, "chat")
    /\ selected' = s
    /\ UNCHANGED <<skills, active, modelVars, agentVars, bindVars, request>>

(* A chat run: NewAISkillSession freezes the enabled chat skills *)

Frozen(sk) == [s \in {x \in DOMAIN sk : sk[x].kind = "chat" /\ sk[x].on} |-> sk[s]]

\* Prompt loads the selected skill, which must resolve in the frozen catalogue
StartRun(h) ==
    LET cat == Frozen(skills)
    IN  /\ request[h] = Idle
        /\ selected # None => selected \in DOMAIN cat /\ Resolves(cat, selected, "chat")
        /\ request' = [request EXCEPT ![h] = [op |-> "run", catalogue |-> cat, loaded |-> {}]]
        /\ UNCHANGED <<modelVars, agentVars, bindVars, skillVars, edits>>

CatalogueNow(h) == Frozen(skills)
Catalogue(h) == request[h].catalogue

\* Load hands the model one range of a skill and its dependencies
LoadSkill(h, s) ==
    /\ request[h].op = "run"
    /\ s \in DOMAIN Catalogue(h) /\ Resolves(Catalogue(h), s, "chat")
    /\ request' = [request EXCEPT ![h].loaded =
            @ \union {<<t, Catalogue(h)[t]>> : t \in Collected(Catalogue(h), s)}]
    /\ UNCHANGED <<modelVars, agentVars, bindVars, skillVars, edits>>

EndRun(h) ==
    /\ request[h].op = "run"
    /\ request' = [request EXCEPT ![h] = Idle]
    /\ UNCHANGED <<modelVars, agentVars, bindVars, skillVars, edits>>

-----------------------------------------------------------------------------

Settings ==
    \/ \E m \in Models : CreateModel(m) \/ SetDefaultModel(m) \/ DeleteModel(m)
    \/ \E a \in Agents : CreateAgent(a) \/ DeleteAgent(a)
    \/ \E t \in Tasks, a \in Agents, m \in Models, on \in BOOLEAN :
          SaveTaskBinding(t, a, m, on)
    \/ \E s \in Skills : DeleteSkill(s) \/ UseForMailSummary(s) \/ SelectSkill(s)
    \/ \E s \in Skills, k \in Kinds, d \in SUBSET Skills, on \in BOOLEAN :
          CreateSkill(s, k, d, on)

Work(h) ==
    \/ \E t \in Tasks : ReadBinding(h, t)
    \/ \E t \in Tasks : WriteDocument(h, t)
    \/ ChooseAgent(h) \/ AssignPurpose(h) \/ ReadModel(h) \/ Refused(h) \/ Answer(h)
    \/ \E s \in Skills, d \in SUBSET Skills, on \in BOOLEAN : ReadSkill(h, s, d, on)
    \/ SaveSkill(h) \/ UpdateRefused(h)
    \/ StartRun(h) \/ (\E s \in Skills : LoadSkill(h, s)) \/ EndRun(h)

Next == Settings \/ \E h \in Handlers : Work(h)

Spec == Init /\ [][Next]_vars

-----------------------------------------------------------------------------

TypeOK ==
    /\ ToSet(models) \subseteq Models /\ default \subseteq ToSet(models)
    /\ ToSet(agents) \subseteq Agents /\ summarizer \subseteq ToSet(agents)
    /\ \A t \in Tasks : binding[t] # None => binding[t] \in Binding
    /\ DOMAIN skills \subseteq Skills /\ \A s \in DOMAIN skills : skills[s] \in Skill
    /\ active \in Skills /\ selected \in Skills \union {None}
    /\ turnedOff \subseteq Tasks /\ edits \in 0..MaxEdits

\* As long as a model exists exactly one is the default, whatever sequence of
\* creations, deletions and switches led there: a task without a binding is
\* never left without a model while the owner has one.
OneDefault == IF models = <<>> THEN default = {} ELSE Cardinality(default) = 1

\* The workflow of the mail summary resolves in every state, and switching on a
\* skill whose dependencies are on uncovers neither a missing skill nor a cycle
\* (the claim of validateAISkillGraph, ai_skills.go:220-221), so nothing stored
\* can fail a run that starts later.
SkillsResolve ==
    /\ Resolves(skills, active, "summary")
    /\ \A s \in DOMAIN skills :
          (\A d \in Collected(skills, s) \ {s} : d \in DOMAIN skills => skills[d].on) =>
              Resolves([skills EXCEPT ![s].on = TRUE], s, skills[s].kind)

\* All ranges of a skill that one run hands to the model are of one version,
\* although the skill is edited, deleted and created again meanwhile
\* (ai_skill_session.go:10-11).
OneVersionPerRun ==
    \A h \in Handlers : request[h].op = "run" =>
        \A p, q \in request[h].loaded : p[1] = q[1] => p = q

\* An update replaces the record it was computed from: "compare-and-swap for
\* update" (ai_skills.go:264).  A skill deleted and created again under its id
\* starts again at revision 1.
UpdatesWhatItRead ==
    [][\A h \in Handlers : (request[h].op = "update" /\ skills' # skills
                              /\ request'[h] = Idle)
          => skills[request[h].skill] = request[h].read]_vars

\* A function switched off stays off until the user switches it on: the error
\* it raises "indicates an intentional mailbox setting" (ai_task_bindings.go:19).
DisabledStaysOff ==
    [][\A h \in Handlers : (request[h] = Idle /\ request'[h].op = "task")
          => request'[h].task \notin turnedOff]_vars
=============================================================================
