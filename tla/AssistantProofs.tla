--------------------------- MODULE AssistantProofs ---------------------------
(* The safety of the AI parts of the server, and of what surrounds them: the   *)
(* agent's run, one completion, the turns of a chat, the results of a mail;    *)
(* the settings they read, the users with their keys, the accounts connected   *)
(* to the JSON API, and the update of the program.  The components share no    *)
(* variable, so each has an inductive invariant of its own; a step of          *)
(* MCAssistant is a step of one of them, and leaves the others alone.          *)
EXTENDS MCAssistant, TLAPS, FiniteSetTheorems, SequenceTheorems

\* A count in a component is a count.
LEMMA SameCount ==
  \A S : /\ Chat!Cardinality(S) = Cardinality(S) /\ Config!Cardinality(S) = Cardinality(S)
         /\ Users!Cardinality(S) = Cardinality(S) /\ Connected!Cardinality(S) = Cardinality(S)
         /\ Connected!IsFiniteSet(S) <=> IsFiniteSet(S)
BY DEF Cardinality, IsFiniteSet, Chat!Cardinality, Config!Cardinality, Users!Cardinality,
       Connected!Cardinality, Connected!IsFiniteSet, Chat!IsFiniteSet, Config!IsFiniteSet, Users!IsFiniteSet

-----------------------------------------------------------------------------
(* The run of an agent (AgentRun) *)

Phases == {"ask", "model", "calls", "final", "synthesis", "check", "done", "failed"}

\* A call to be handled, as the response listed it.
CallKinds == {"tool", "unknown", "ask_user", "read", "submit", "malformed"}
CallForm == [id : 1..2, kind : CallKinds, alone : BOOLEAN]

\* The calls still to be handled are those the messages hold no result of.
Pending ==
  /\ \/ queue = <<>> /\ open = {}
     \/ \E a \in CallForm : queue = <<a>> /\ open = {a.id}
     \/ \E a, b \in CallForm : queue = <<a, b>> /\ open = {a.id, b.id} /\ a.id # b.id

RunShape ==
  /\ profile \in {"chat", "analysis"} /\ phase \in Phases
  /\ turn \in 0..(Turns - 1) /\ retries \in 0..Retries /\ executed \in 0..Calls
  /\ size \in Nat /\ open \subseteq 1..2 /\ covered \subseteq Body
  /\ answer \in {"none", "text", "submitted", "tools", "question"}
  /\ phase \in {"model", "synthesis"} => size <= InputSize

\* An answer that is being checked was given; one that spells out calls is a chat's.
Given ==
  phase \in {"check", "done"} =>
    /\ answer # "none"
    /\ answer = "tools" => profile = "chat" /\ phase = "check"

\* No response asks for more than two.
Short ==
  \/ queue = <<>>
  \/ \E a \in CallForm : queue = <<a>>
  \/ \E a, b \in CallForm : queue = <<a, b>>

RunInv ==
  /\ RunShape /\ Given /\ AnswerIsEarned /\ Short /\ CallsArePaired
  /\ phase = "calls" => Pending

\* The responses of the model are sequences of at most two kinds of calls.
LEMMA ResponseForms ==
  ASSUME NEW listed \in Responses
  PROVE  \/ listed = <<>>
         \/ \E k \in CallKinds : listed = <<k>>
         \/ \E k, l \in CallKinds : listed = <<k, l>>
<1>1. ToolKinds \subseteq CallKinds /\ "unknown" \in CallKinds
  BY DEF ToolKinds, CallKinds
<1>2. QED
  BY <1>1 DEF Responses

LEMMA RunInit == Init => RunInv
BY AgentAssumption DEF Init, RunInv, RunShape, Short, Given, AnswerIsEarned, CallsArePaired, Phases, Body

\* The calls taken over from a response are all pending.
LEMMA RequestPending == ASSUME Request PROVE Pending'
<1>1. PICK listed \in Responses :
        /\ queue' = [i \in 1..Len(listed) |-> [id |-> i, kind |-> listed[i], alone |-> Len(listed) = 1]]
        /\ open' = 1..Len(listed)
  BY DEF Request
<1>2. CASE listed = <<>>
  BY <1>1, <1>2 DEF Pending
<1> DEFINE entry(i) == [id |-> i, kind |-> listed[i], alone |-> Len(listed) = 1]
<1>3. ASSUME NEW k \in CallKinds, listed = <<k>>
      PROVE  Pending'
  <2>1. entry(1) \in CallForm /\ entry(1).id = 1
    BY <1>3 DEF CallForm
  <2>2. queue' = <<entry(1)>> /\ open' = {1}
    BY <1>1, <1>3
  <2> HIDE DEF entry
  <2>3. QED
    BY <2>1, <2>2 DEF Pending
<1>4. ASSUME NEW k \in CallKinds, NEW l \in CallKinds, listed = <<k, l>>
      PROVE  Pending'
  <2>1. entry(1) \in CallForm /\ entry(1).id = 1 /\ entry(2) \in CallForm /\ entry(2).id = 2
    BY <1>4 DEF CallForm
  <2>2. queue' = <<entry(1), entry(2)>> /\ open' = {1, 2}
    BY <1>1, <1>4
  <2> HIDE DEF entry
  <2>3. QED
    BY <2>1, <2>2 DEF Pending
<1>5. QED
  BY <1>2, <1>3, <1>4, ResponseForms

\* A call that gets its result is pending no more.
LEMMA AnsweredPending ==
  ASSUME Pending, queue # <<>>, queue' = Tail(queue), open' = Answered(Head(queue).id)
  PROVE  Pending' /\ open' \subseteq open
<1>1. ASSUME NEW a \in CallForm, queue = <<a>>, open = {a.id}
      PROVE  queue' = <<>> /\ open' = {}
  BY <1>1 DEF Answered
<1>2. ASSUME NEW a \in CallForm, NEW b \in CallForm, queue = <<a, b>>, open = {a.id, b.id}, a.id # b.id
      PROVE  queue' = <<b>> /\ open' = {b.id}
  <2>1. Head(queue) = a /\ Tail(queue) = <<b>>
    BY <1>2
  <2>2. QED
    BY <1>2, <2>1 DEF Answered
<1>3. QED
  BY <1>1, <1>2 DEF Pending, Answered

LEMMA ShortStep == ASSUME Short, queue # <<>>, queue' = Tail(queue) PROVE Short'
<1>1. ASSUME NEW a \in CallForm, queue = <<a>>
      PROVE  queue' = <<>>
  BY <1>1
<1>2. ASSUME NEW a \in CallForm, NEW b \in CallForm, queue = <<a, b>>
      PROVE  queue' = <<b>>
  BY <1>2
<1>3. QED
  BY <1>1, <1>2 DEF Short

\* The conversation moves to another phase, asks again, or is given up.
LEMMA EndStep ==
  ASSUME RunInv, NEW p \in Phases \ {"ask", "calls", "final"}, End(p),
         p \in {"model", "synthesis"} => size <= InputSize /\ open = {},
         p \in {"check", "done"} => phase = "check" /\ Checked
  PROVE  RunInv'
<1>1. phase' = p /\ queue' = <<>>
      /\ UNCHANGED <<profile, turn, retries, executed, size, open, stop, again, answer, covered, changed>>
  BY DEF End
<1>2. RunShape'
  BY <1>1 DEF RunInv, RunShape
<1>3. Given'
  BY <1>1 DEF RunInv, RunShape, Given, Checked
<1>4. AnswerIsEarned'
  BY <1>1 DEF RunInv, RunShape, Given, Checked, AnswerIsEarned, Covered, Body
<1>5. CallsArePaired' /\ Short' /\ phase' # "calls"
  BY <1>1 DEF CallsArePaired, Short
<1>6. QED
  BY <1>2, <1>3, <1>4, <1>5 DEF RunInv

LEMMA AcceptStep ==
  ASSUME RunInv, NEW form \in {"text", "submitted", "tools"}, Accept(form),
         form = "tools" => profile = "chat"
  PROVE  RunInv'
<1>1. phase' = "check" /\ answer' = form
      /\ UNCHANGED <<profile, turn, retries, executed, size, queue, open, stop, again, covered, changed>>
  BY DEF Accept
<1>2. RunShape' /\ Given'
  BY <1>1 DEF RunInv, RunShape, Given, Phases
<1>3. AnswerIsEarned' /\ CallsArePaired' /\ phase' # "calls"
  BY <1>1 DEF AnswerIsEarned, CallsArePaired
<1>4. Short'
  BY <1>1 DEF RunInv, Short
<1>5. QED
  BY <1>2, <1>3, <1>4 DEF RunInv

\* A call that is executed, or refused, leaves the list of calls.
LEMMA CallStep ==
  ASSUME RunInv, phase = "calls", queue # <<>>, queue' = Tail(queue), executed' \in 0..Calls, size' \in Nat,
         covered' \subseteq Body, UNCHANGED <<profile, turn, retries>>,
         \/ phase' = "calls" /\ answer' = answer /\ open' = Answered(Head(queue).id)
         \/ phase' = "check" /\ answer' = "question" /\ open' = open
         \/ phase' = "failed" /\ answer' = answer /\ open' = open
  PROVE  RunInv'
<1>1. Pending
  BY DEF RunInv
<1>2. open' \subseteq open /\ (phase' = "calls" => Pending')
  BY <1>1, AnsweredPending
<1>3. RunShape' /\ Given'
  BY <1>2 DEF RunInv, RunShape, Given, Phases
<1>4. AnswerIsEarned' /\ CallsArePaired'
  BY DEF AnswerIsEarned, CallsArePaired
<1>5. QED
  BY <1>2, <1>3, <1>4, ShortStep DEF RunInv

LEMMA RunStep == ASSUME RunInv, [Next]_vars PROVE RunInv'
<1> USE AgentAssumption
<1>0. RunShape /\ CallsArePaired
  BY DEF RunInv
<1>1. CASE Ask \/ AskFinal
  <2>1. PICK p \in {"failed", "model", "synthesis"} : End(p) /\ (p # "failed" => size <= InputSize)
    BY <1>0, <1>1 DEF Ask, AskFinal, Fail, RunShape
  <2>2. open = {}
    BY <1>0, <1>1 DEF Ask, AskFinal, CallsArePaired
  <2>3. QED
    BY <2>1, <2>2, EndStep DEF Phases
<1>2. CASE Interrupted
  BY <1>2, EndStep DEF Interrupted, Fail, Phases
<1>3. CASE Check
  <2>1. PICK p \in {"done", "failed"} : End(p) /\ (p = "done" => Checked)
    BY <1>3 DEF Check
  <2>2. QED
    BY <1>3, <2>1, EndStep DEF Check, Phases
<1>4. CASE Answer
  <2>1. PICK form \in {"text", "submitted", "tools"}, s \in 1..ResponseSize :
          \/ Accept(form) /\ (form = "tools" => profile = "chat")
          \/ Correctable(s) /\ Correct(s)
          \/ Fail
    BY <1>4 DEF Answer
  <2>2. phase = "model" /\ open = {}
    BY <1>0, <1>4 DEF Answer, CallsArePaired
  <2>3. CASE Correctable(s) /\ Correct(s)
    <3>1. RunShape' /\ Given'
      BY <1>0, <2>3 DEF Correctable, Correct, RunShape, Phases, Given
    <3>2. AnswerIsEarned' /\ CallsArePaired' /\ Short' /\ phase' # "calls"
      BY <2>2, <2>3 DEF Correct, RunInv, AnswerIsEarned, CallsArePaired, Short
    <3>3. QED
      BY <3>1, <3>2 DEF RunInv
  <2>4. QED
    BY <2>1, <2>3, AcceptStep, EndStep DEF Fail, Phases
<1>5. CASE Synthesis
  <2>1. PICK form \in {"text", "submitted", "tools"} :
          \/ Accept(form) /\ (form = "tools" => profile = "chat")
          \/ Fail
    BY <1>5 DEF Synthesis, FinalAnswers
  <2>2. QED
    BY <2>1, AcceptStep, EndStep DEF Fail, Phases
<1>6. CASE SynthesisMalformed
  <2>1. PICK s \in 1..ResponseSize :
          \/ Fail
          \/ /\ size + s <= InputSize /\ size' = size + s
             /\ UNCHANGED <<profile, phase, turn, retries, executed, queue, open, stop, answer, covered, changed>>
    BY <1>0, <1>6 DEF SynthesisMalformed, RunShape
  <2>2. CASE ~Fail
    <3>0. phase = "synthesis" /\ size \in Nat
      BY <1>0, <1>6 DEF SynthesisMalformed, RunShape
    <3>1. RunShape' /\ Given'
      <4>1. size' \in Nat /\ size' <= InputSize
        BY <2>1, <2>2, <3>0
      <4>2. UNCHANGED <<profile, phase, turn, retries, executed, queue, open, answer, covered>>
        BY <2>1, <2>2
      <4>3. QED
        BY <1>0, <3>0, <4>1, <4>2 DEF RunShape, Given
    <3>2. AnswerIsEarned' /\ CallsArePaired' /\ Short' /\ phase' = "synthesis"
      BY <1>6, <2>1, <2>2 DEF RunInv, AnswerIsEarned, CallsArePaired, SynthesisMalformed, Short
    <3>3. QED
      BY <3>1, <3>2 DEF RunInv
  <2>3. QED
    BY <2>1, <2>2, EndStep DEF Fail, Phases
<1>7. CASE Request
  <2>1. PICK listed \in Responses, s \in 1..ResponseSize :
          phase' = "calls" /\ size' = size + s /\ open' = 1..Len(listed)
    BY <1>7 DEF Request
  <2>2. Pending'
    BY <1>7, RequestPending
  <2>3. open' \subseteq 1..2 /\ Short'
    BY <2>2 DEF Pending, Short, CallForm
  <2>4. size' \in Nat
    BY <1>0, <2>1 DEF RunShape
  <2>5. RunShape' /\ Given'
    BY <1>0, <1>7, <2>1, <2>3, <2>4 DEF Request, RunShape, Given, Phases
  <2>6. AnswerIsEarned' /\ CallsArePaired'
    BY <2>1 DEF AnswerIsEarned, CallsArePaired
  <2>7. QED
    BY <2>2, <2>3, <2>5, <2>6 DEF RunInv
<1>8. CASE Refuse
  BY <1>0, <1>8, CallStep DEF Refuse, RunShape
<1>9. ASSUME NEW k, Executable(k)
      PROVE  /\ phase = "calls" /\ queue # <<>> /\ queue' = Tail(queue) /\ executed' \in 0..Calls
             /\ UNCHANGED <<profile, turn, retries>>
  BY <1>0, <1>9 DEF Executable, Exhausted, RunShape
<1>10. Result => size' \in Nat /\ open' = Answered(Head(queue).id) /\ UNCHANGED <<phase, answer>>
  BY <1>0 DEF Result, RunShape
<1>11. CASE AskUser
  <2>1. /\ Executable("ask_user") /\ covered' = covered
        /\ Result \/ (phase' = "check" /\ answer' = "question" /\ UNCHANGED <<size, open>>)
    BY <1>11 DEF AskUser
  <2>2. QED
    BY <1>0, <1>9, <1>10, <2>1, CallStep DEF RunShape
<1>12. CASE ReadMail
  <2>1. /\ Executable("read") /\ covered' \subseteq Body
        /\ Result \/ (phase' = "failed" /\ UNCHANGED <<answer, size, open>>)
    BY <1>0, <1>12 DEF ReadMail, RunShape
  <2>2. QED
    BY <1>0, <1>9, <1>10, <2>1, CallStep DEF RunShape
<1>13. CASE UseTool
  <2>1. PICK k : Executable(k) /\ Result /\ covered' = covered
    BY <1>13 DEF UseTool
  <2>2. QED
    BY <1>0, <1>9, <1>10, <2>1, CallStep DEF RunShape
<1>14. CASE TurnOver
  <2>1. /\ open = {} /\ queue' = queue /\ open' = open
        /\ UNCHANGED <<profile, retries, executed, answer, covered, changed>>
        /\ \/ phase' = "final" /\ size' = size + 1 /\ turn' = turn
           \/ phase' = "ask" /\ turn # Turns - 1 /\ turn' = turn + 1 /\ size' = size
    BY <1>14 DEF TurnOver, RunInv, Pending
  <2>2. RunShape' /\ Given'
    BY <1>0, <2>1 DEF RunShape, Phases, Given
  <2>3. AnswerIsEarned' /\ CallsArePaired' /\ Short' /\ phase' # "calls"
    BY <2>1 DEF RunInv, AnswerIsEarned, CallsArePaired, Short
  <2>4. QED
    BY <2>2, <2>3 DEF RunInv
<1>15. CASE MailChanges
  BY <1>15 DEF MailChanges, RunInv, RunShape, Given, AnswerIsEarned, CallsArePaired, Short, Pending
<1>16. CASE UNCHANGED vars
  BY <1>16 DEF vars, RunInv, RunShape, Given, AnswerIsEarned, CallsArePaired, Short, Pending, Covered
<1>17. QED
  BY <1>1, <1>2, <1>3, <1>4, <1>5, <1>6, <1>7, <1>8, <1>11, <1>12, <1>13, <1>14, <1>15, <1>16 DEF Next

LEMMA RunSafe == ASSUME RunInv PROVE RunIsSound /\ TypeOK
<1>1. RunIsSound
  BY DEF RunInv, RunIsSound
<1>2. /\ Len(<<>>) <= 2
      /\ \A a \in CallForm : Len(<<a>>) <= 2
      /\ \A a, b \in CallForm : Len(<<a, b>>) <= 2
  OBVIOUS
<1>3. Len(queue) <= 2
  BY <1>2 DEF RunInv, Short
<1>4. QED
  BY <1>1, <1>3 DEF RunInv, RunShape, TypeOK, Phases
-----------------------------------------------------------------------------
(* One question to a model (Completion) *)

\* What the reader of a stream holds, and has passed on, is the text generated so far.
Streaming ==
  /\ made.text + made.thought <= MaxPieces
  /\ pc = "asked" => got = 0 /\ emitted = 0 /\ ~complete
  /\ pc = "reading" => got = made.text /\ emitted = got /\ (complete => reason = "stop")

CompletionInv == Completion!TypeOK /\ Streaming /\ Completion!StreamedIsWhole

LEMMA CompletionInit == Completion!CompletionAssumption /\ Completion!Init => CompletionInv
<1> SUFFICES ASSUME Completion!CompletionAssumption, Completion!Init
             PROVE  CompletionInv
  OBVIOUS
<1>1. complete \in BOOLEAN
  BY Zenon DEF Completion!Init
<1>2. made \in [text : 0..MaxPieces, thought : 0..MaxPieces] /\ made.text + made.thought <= MaxPieces
  BY DEF Completion!Init, Completion!CompletionAssumption
<1>3. Completion!TypeOK
  BY <1>1, <1>2 DEF Completion!CompletionAssumption, Completion!Init, Completion!TypeOK
<1>4. QED
  BY <1>2, <1>3 DEF Completion!Init, CompletionInv, Streaming, Completion!StreamedIsWhole

\* A piece more of either kind.
LEMMA OneMore ==
  ASSUME CompletionInv, Completion!CompletionAssumption, NEW k \in {"text", "thought"}, Completion!Generates(k)
  PROVE  /\ made' \in [text : 0..MaxPieces, thought : 0..MaxPieces]
         /\ made'.text + made'.thought <= MaxPieces
         /\ made'.text = IF k = "text" THEN made.text + 1 ELSE made.text
<1>0. made \in [text : 0..MaxPieces, thought : 0..MaxPieces]
  BY DEF CompletionInv, Completion!TypeOK
<1>1. made.text \in Nat /\ made.thought \in Nat /\ made.text + made.thought < MaxPieces /\ MaxPieces \in Nat
  BY <1>0 DEF Completion!Generates, Completion!CompletionAssumption
<1>2. CASE k = "text"
  <2>1. made' = [made EXCEPT !.text = @ + 1]
    BY <1>2 DEF Completion!Generates
  <2>2. QED
    BY <1>0, <1>1, <1>2, <2>1
<1>3. CASE k = "thought"
  <2>1. made' = [made EXCEPT !.thought = @ + 1]
    BY <1>3 DEF Completion!Generates
  <2>2. QED
    BY <1>0, <1>1, <1>3, <2>1
<1>4. QED
  BY <1>2, <1>3

LEMMA CompletionStep == ASSUME Completion!CompletionAssumption, CompletionInv, [Completion!Next]_(Completion!vars) PROVE CompletionInv'
<1>0. /\ Completion!TypeOK /\ Streaming /\ Completion!StreamedIsWhole /\ MaxPieces \in Nat /\ CompletionCalls \in Nat
      /\ made.text \in 0..MaxPieces /\ made.thought \in 0..MaxPieces
  BY DEF CompletionInv, Completion!TypeOK, Completion!CompletionAssumption
<1>1. CASE Completion!Ask
  <2>1. ~complete' /\ complete' \in BOOLEAN
    BY <1>1, Zenon DEF Completion!Ask
  <2>2. made' \in [text : 0..MaxPieces, thought : 0..MaxPieces] /\ made'.text + made'.thought <= MaxPieces
    BY <1>0, <1>1 DEF Completion!Ask
  <2>3. pc' = "asked" /\ got' = 0 /\ emitted' = 0 /\ attempt' = 0 /\ reason' = "none" /\ call' \in Completion!Call /\ asked' \in 0..CompletionCalls
    BY <1>0, <1>1 DEF Completion!Ask, Completion!TypeOK
  <2>4. Completion!TypeOK'
    BY <1>0, <2>1, <2>2, <2>3 DEF Completion!TypeOK
  <2>5. QED
    BY <2>1, <2>2, <2>3, <2>4 DEF CompletionInv, Streaming, Completion!StreamedIsWhole
<1>2. CASE Completion!Refused \/ Completion!StreamFails
  BY <1>0, <1>2 DEF Completion!Refused, Completion!StreamFails, Completion!Fail, Completion!backend, Completion!reader, CompletionInv, Completion!TypeOK, Streaming, Completion!StreamedIsWhole
<1>3. CASE Completion!Retry
  <2>1. attempt' = 1 /\ UNCHANGED <<call, pc, asked, made, reason, got, complete, emitted>>
    BY <1>3 DEF Completion!Retry, Completion!backend, Completion!reader
  <2>2. Completion!TypeOK'
    BY <1>0, <2>1 DEF Completion!TypeOK
  <2>3. QED
    BY <1>0, <2>1, <2>2 DEF CompletionInv, Streaming, Completion!StreamedIsWhole
<1>4. ASSUME NEW k \in {"text", "thought"}, Completion!GenerateBuffered(k)
      PROVE  CompletionInv'
  <2>1. Completion!Generates(k) /\ pc = "asked" /\ UNCHANGED <<call, attempt, pc, reason, asked, got, complete, emitted>>
    BY <1>4 DEF Completion!GenerateBuffered, Completion!reader
  <2>2. QED
    BY <1>0, <2>1, OneMore DEF CompletionInv, Completion!TypeOK, Streaming, Completion!StreamedIsWhole
<1>5. ASSUME NEW k \in {"text", "thought"}, Completion!Delta(k)
      PROVE  CompletionInv'
  <2>1. /\ Completion!Generates(k) /\ pc = "reading" /\ reason = "none" /\ UNCHANGED <<call, attempt, pc, reason, asked, complete>>
        /\ got' = IF k = "text" THEN got + 1 ELSE got
        /\ emitted' = IF k = "text" THEN emitted + 1 ELSE emitted
    BY <1>5, Zenon DEF Completion!Delta, Completion!Generates
  <2>2. got' = made'.text /\ emitted' = got' /\ got' \in 0..MaxPieces
    BY <1>0, <2>1, OneMore DEF Streaming
  <2>3. QED
    BY <1>0, <2>1, <2>2, OneMore DEF CompletionInv, Completion!TypeOK, Streaming, Completion!StreamedIsWhole
<1>6. ASSUME NEW why \in Completion!Reasons, Completion!EndBuffered(why)
      PROVE  CompletionInv'
  BY <1>0, <1>6 DEF Completion!EndBuffered, Completion!Ends, Completion!reader, CompletionInv, Completion!TypeOK, Streaming, Completion!StreamedIsWhole
<1>7. ASSUME NEW why \in Completion!Reasons, Completion!Finish(why)
      PROVE  CompletionInv'
  <2>1. /\ pc = "reading" /\ reason' = why /\ UNCHANGED <<call, attempt, made, got, emitted, asked>>
        /\ \/ pc' = "failed" /\ complete' = complete
           \/ pc' = pc /\ complete' = TRUE /\ why = "stop"
    BY <1>7, Zenon DEF Completion!Finish, Completion!Ends
  <2>2. complete' \in BOOLEAN
    BY <1>0, <2>1 DEF Completion!TypeOK
  <2>3. QED
    BY <1>0, <2>1, <2>2 DEF CompletionInv, Completion!TypeOK, Streaming, Completion!StreamedIsWhole
<1>8. CASE Completion!ReadBody
  <2>1. Completion!Taken(call.provider, made, reason) \in 0..MaxPieces
    BY <1>0 DEF Completion!Taken
  <2>2. pc = "asked" /\ got = 0 /\ emitted = 0 /\ Completion!Return(Completion!Taken(call.provider, made, reason), "returned")
        /\ UNCHANGED <<call, attempt, asked, made, reason, complete>>
    BY <1>0, <1>8 DEF Completion!ReadBody, Streaming, Completion!backend
  <2> DEFINE n == Completion!Taken(call.provider, made, reason)
  <2>3. /\ got' = n /\ pc' \in {"failed", "returned"}
        /\ emitted' \in {0, n} /\ (call.stream => emitted' = n)
    BY <2>1, <2>2 DEF Completion!Return, Completion!Shown
  <2> HIDE DEF n
  <2>4. QED
    BY <1>0, <2>1, <2>2, <2>3 DEF CompletionInv, Completion!TypeOK, Streaming, Completion!StreamedIsWhole, n
<1>9. CASE Completion!OpenStream
  <2>1. /\ pc = "asked" /\ made.text + made.thought = 0 /\ pc' = "reading"
        /\ UNCHANGED <<call, attempt, asked, made, reason, got, complete, emitted>>
    BY <1>9 DEF Completion!OpenStream, Completion!backend, Completion!reader
  <2>2. Completion!TypeOK'
    BY <1>0, <2>1 DEF Completion!TypeOK
  <2>3. made.text = 0
    BY <1>0, <2>1
  <2>4. Streaming' /\ Completion!StreamedIsWhole'
    BY <1>0, <2>1, <2>3 DEF Streaming, Completion!StreamedIsWhole
  <2>5. QED
    BY <2>2, <2>4 DEF CompletionInv
<1>10. ASSUME NEW done \in BOOLEAN, Completion!EndOfStream(done)
       PROVE  CompletionInv'
  <2>1. pc = "reading" /\ got = made.text /\ emitted = got /\ UNCHANGED <<call, attempt, asked, made, reason, complete>>
    BY <1>0, <1>10 DEF Completion!EndOfStream, Completion!backend, Streaming
  <2>2. CASE ~complete
    BY <1>0, <1>10, <2>1, <2>2 DEF Completion!EndOfStream, Completion!Interrupted, CompletionInv, Completion!TypeOK, Streaming, Completion!StreamedIsWhole
  <2>3. CASE complete
    <3>1. reason = "stop" /\ Completion!Return(Completion!Taken(call.provider, [text |-> got, thought |-> 0], "stop"), "streamed")
      BY <1>0, <1>10, <2>1, <2>3 DEF Completion!EndOfStream, Completion!Interrupted, Streaming
    <3>2. Completion!Taken(call.provider, [text |-> got, thought |-> 0], "stop") = got
      BY <1>0, <2>1 DEF Completion!Taken
    <3>3. got' = got /\ pc' \in {"failed", "streamed"} /\ emitted' = emitted
      BY <1>0, <2>1, <3>1, <3>2 DEF Completion!Return, Completion!Shown
    <3>4. QED
      BY <1>0, <2>1, <3>1, <3>3 DEF CompletionInv, Completion!TypeOK, Streaming, Completion!StreamedIsWhole
  <2>4. QED
    BY <2>2, <2>3
<1>11. CASE UNCHANGED Completion!vars
  BY <1>0, <1>11 DEF Completion!vars, CompletionInv, Completion!TypeOK, Streaming, Completion!StreamedIsWhole
<1>12. QED
  BY <1>1, <1>2, <1>3, <1>4, <1>5, <1>6, <1>7, <1>8, <1>9, <1>10, <1>11 DEF Completion!Next
-----------------------------------------------------------------------------
(* The turns of a chat session (ChatTurn) *)

ChatEarly == {"replay", "register", "begin"}
ChatLate == {"remember", "work", "finish"}
ChatCallForm == [pc : {"idle", "fail", "release"} \cup ChatEarly \cup ChatLate, request : ChatRequests \cup {0},
                 asked : Int, fresh : BOOLEAN, read : Nat \X Nat, token : Nat, version : Nat]
TurnForm == [status : {"none", "pending", "complete", "failed"}, token : Nat, live : BOOLEAN, version : Nat]
MessageForm == [role : {"user", "assistant"}, request : ChatRequests, token : Nat, read : Nat \X Nat, then : Nat \X Nat]
CardForm == [linked : BOOLEAN, revision : Nat]
ChatBoundsForm == [runs : 0..MaxRuns, changes : 0..MaxChatChanges, faults : 0..MaxFaults]

ChatShape ==
  /\ session \in [here : BOOLEAN, version : Nat, current : Nat] /\ session.current <= Len(messages)
  /\ messages \in Seq(MessageForm) /\ runs \in [ChatRequests -> TurnForm]
  /\ registry \in [ChatRequests -> {"none", "running", "stopping", "marker"}]
  /\ calls \in [ChatHandlers -> ChatCallForm] /\ stops \subseteq ChatRequests /\ fenced \subseteq 1..chatBounds.runs
  /\ library \in [Chat!Positions -> CardForm] /\ chatBounds \in ChatBoundsForm

\* A turn gives the session two versions and two messages, one of them when it ends.
ChatCounted ==
  /\ session.version <= 2 * chatBounds.runs + chatBounds.changes /\ Len(messages) <= 2 * chatBounds.runs
  /\ \A r \in ChatRequests : Chat!Pending(r) =>
       session.version < 2 * chatBounds.runs + chatBounds.changes /\ Len(messages) < 2 * chatBounds.runs

\* The last message is the question of r.
AsksLast(r) ==
  Len(messages) > 0 /\ messages[Len(messages)].role = "user" /\ messages[Len(messages)].request = r

\* While nothing else happens to the session, the question of an open turn is its last message.
TurnIsSound(r) ==
  /\ runs[r].token <= chatBounds.runs /\ runs[r].version <= session.version
  /\ runs[r].status = "pending" => runs[r].token # 0 /\ runs[r].token \notin fenced
  /\ (runs[r].status \in {"pending", "failed"} /\ runs[r].version = session.version) => AsksLast(r)

\* Every lease has a token of its own, and one is live.
TurnsDiffer ==
  \A r, q \in ChatRequests : r # q =>
    /\ runs[r].token = runs[q].token => runs[r].token = 0
    /\ ~(Chat!Pending(r) /\ Chat!Pending(q))

\* A message is of a turn that was begun, an answer of one that is complete.
MessageIsSound(i) ==
  /\ messages[i].token <= chatBounds.runs /\ messages[i].token \notin fenced
  /\ messages[i].read = messages[i].then
  /\ runs[messages[i].request].status # "none"
  /\ messages[i].role = "assistant" => runs[messages[i].request].status = "complete"
  /\ \A r \in ChatRequests : runs[r].status = "pending" => messages[i].token # runs[r].token

\* What the turn of this handler is shown once it begins.
WillRead(h) == IF calls[h].fresh THEN <<0, 0>> ELSE calls[h].read

\* At the version a handler counts on, the document is as it read it.
ChatCallIsSound(h) ==
  /\ calls[h].asked <= session.version /\ calls[h].version <= session.version /\ calls[h].token <= chatBounds.runs
  /\ calls[h].pc # "idle" => calls[h].request \in ChatRequests
  /\ calls[h].pc \in ChatLate \cup {"fail"} =>
       /\ calls[h].token # 0
       /\ runs[calls[h].request].token = calls[h].token => runs[calls[h].request].version = calls[h].version
  /\ (calls[h].pc \in ChatLate /\ session.version = calls[h].version) => calls[h].read = Chat!Shown
  /\ (calls[h].pc \in ChatEarly /\ session.version = calls[h].asked) => calls[h].read = Chat!Shown
  /\ (calls[h].pc \in ChatEarly /\ runs[calls[h].request].status # "none"
        /\ session.version = runs[calls[h].request].version) => WillRead(h) = Chat!Shown

\* Handlers that may still ask one question ask for the same.
ChatAgreed ==
  \A g, h \in ChatHandlers :
    (/\ calls[g].pc # "idle" /\ calls[h].pc # "idle" /\ calls[g].request = calls[h].request
     /\ runs[calls[g].request].status = "none" /\ calls[g].asked = session.version) =>
      calls[h].asked = calls[g].asked /\ calls[h].fresh = calls[g].fresh

ChatInv ==
  /\ ChatShape /\ ChatCounted /\ Chat!ChatHistory /\ TurnsDiffer /\ ChatAgreed
  /\ \A r \in ChatRequests : TurnIsSound(r)
  /\ \A i \in 1..Len(messages) : MessageIsSound(i)
  /\ \A h \in ChatHandlers : ChatCallIsSound(h)

LEMMA NoCallOfChat ==
  /\ Chat!NoCall \in ChatCallForm /\ Chat!NoCall.pc = "idle" /\ Chat!NoCall.request = 0 /\ Chat!NoCall.asked = 0
  /\ Chat!NoCall.token = 0 /\ Chat!NoCall.version = 0
BY DEF Chat!NoCall, ChatCallForm

LEMMA ChatInit == Chat!ChatAssumption /\ Chat!Init => ChatInv
<1> SUFFICES ASSUME Chat!ChatAssumption, Chat!Init
             PROVE  ChatInv
  OBVIOUS
<1>1. session.version = 0 /\ session.current = 0 /\ session \in [here : BOOLEAN, version : Nat, current : Nat]
  BY DEF Chat!Init
<1>2. messages = <<>> /\ Len(messages) = 0 /\ messages \in Seq(MessageForm) /\ fenced = {} /\ stops = {}
  BY DEF Chat!Init
<1>3. /\ chatBounds \in ChatBoundsForm /\ chatBounds.runs = 0 /\ chatBounds.changes = 0
  BY DEF Chat!Init, Chat!ChatAssumption, ChatBoundsForm
<1>4. Chat!NoRun \in TurnForm /\ Chat!NoRun.status = "none" /\ Chat!NoRun.token = 0 /\ Chat!NoRun.version = 0
  BY DEF Chat!NoRun, TurnForm
<1>5. runs \in [ChatRequests -> TurnForm] /\ \A r \in ChatRequests : runs[r] = Chat!NoRun
  BY <1>4 DEF Chat!Init
<1>6. registry \in [ChatRequests -> {"none", "running", "stopping", "marker"}]
  BY DEF Chat!Init
<1>7. calls \in [ChatHandlers -> ChatCallForm] /\ \A h \in ChatHandlers : calls[h] = Chat!NoCall
  BY NoCallOfChat DEF Chat!Init
<1>8. library \in [Chat!Positions -> CardForm]
  <2>1. Chat!NoDocument \in CardForm
    BY DEF Chat!NoDocument, CardForm
  <2>2. QED
    BY <2>1 DEF Chat!Init
<1>9. ChatShape
  BY <1>1, <1>2, <1>3, <1>5, <1>6, <1>7, <1>8 DEF ChatShape
<1>10. ChatCounted /\ TurnsDiffer
  BY <1>1, <1>2, <1>3, <1>4, <1>5 DEF ChatCounted, TurnsDiffer, Chat!Pending
<1>11. Chat!ChatHistory /\ \A i \in 1..Len(messages) : MessageIsSound(i)
  BY <1>2 DEF Chat!ChatHistory
<1>12. \A r \in ChatRequests : TurnIsSound(r)
  BY <1>1, <1>2, <1>3, <1>4, <1>5 DEF TurnIsSound
<1>13. ChatAgreed /\ \A h \in ChatHandlers : ChatCallIsSound(h)
  BY <1>1, <1>3, <1>7, NoCallOfChat DEF ChatAgreed, ChatCallIsSound, ChatEarly, ChatLate
<1>14. QED
  BY <1>9, <1>10, <1>11, <1>12, <1>13 DEF ChatInv

\* A call that is over, or moves on in its part of the handler.
ChatCallMoved(h) ==
  \/ calls'[h] = Chat!NoCall
  \/ /\ calls'[h].request = calls[h].request /\ calls'[h].asked = calls[h].asked /\ calls'[h].fresh = calls[h].fresh
     /\ calls'[h].read = calls[h].read /\ calls'[h].token = calls[h].token /\ calls'[h].version = calls[h].version
     /\ calls'[h].pc \in ChatEarly => calls[h].pc \in ChatEarly
     /\ calls'[h].pc \in ChatLate => calls[h].pc \in ChatLate
     /\ calls'[h].pc \in ChatLate \cup {"fail"} => calls[h].pc \in ChatLate \cup {"fail"}
     /\ calls'[h].pc # "idle" => calls[h].pc # "idle"

\* Turns that fail or lose their lease.
TurnsOnlyEnd ==
  \A r \in ChatRequests :
    /\ runs'[r].token = runs[r].token /\ runs'[r].version = runs[r].version
    /\ runs'[r].status = runs[r].status \/ (runs[r].status = "pending" /\ runs'[r].status = "failed")
    /\ runs'[r].live => runs[r].live

\* Whatever only ends turns, moves handlers or changes something at a new version keeps the rest.
LEMMA ChatSettles ==
  ASSUME Chat!ChatAssumption, ChatInv, UNCHANGED messages, chatBounds' \in ChatBoundsForm, chatBounds'.runs = chatBounds.runs,
         session' \in [here : BOOLEAN, version : Nat, current : Nat], session'.current = session.current,
         library' \in [Chat!Positions -> CardForm],
         \/ session'.version = session.version /\ Chat!Shown' = Chat!Shown /\ chatBounds'.changes >= chatBounds.changes
         \/ session'.version = session.version + 1 /\ chatBounds'.changes = chatBounds.changes + 1,
         runs' \in [ChatRequests -> TurnForm], TurnsOnlyEnd,
         fenced' \subseteq 1..chatBounds.runs,
         \A t \in fenced' \ fenced :
           \E r \in ChatRequests : runs[r].token = t /\ runs[r].status = "pending" /\ runs'[r].status = "failed",
         registry' \in [ChatRequests -> {"none", "running", "stopping", "marker"}], stops' \subseteq ChatRequests,
         calls' \in [ChatHandlers -> ChatCallForm], \A h \in ChatHandlers : ChatCallMoved(h)
  PROVE  ChatInv'
<1>1. /\ session \in [here : BOOLEAN, version : Nat, current : Nat] /\ chatBounds \in ChatBoundsForm
      /\ runs \in [ChatRequests -> TurnForm] /\ calls \in [ChatHandlers -> ChatCallForm] /\ messages \in Seq(MessageForm)
      /\ session.current <= Len(messages) /\ session.version \in Nat /\ chatBounds.runs \in Nat /\ chatBounds.changes \in Nat
      /\ chatBounds'.changes \in Nat /\ session'.version \in Nat
  BY DEF ChatInv, ChatShape, ChatBoundsForm
<1>0. ASSUME NEW t, t \in fenced', t \notin fenced
      PROVE  \E r \in ChatRequests : runs[r].token = t /\ runs[r].status = "pending" /\ runs'[r].status = "failed"
  <2>1. t \in fenced' \ fenced
    BY <1>0
  <2>2. QED
    BY <2>1
<1>2. ChatShape'
  BY <1>1 DEF ChatShape
<1>3. /\ \A r \in ChatRequests : Chat!Pending(r)' => Chat!Pending(r)
      /\ \A r \in ChatRequests : runs'[r].status = "pending" => runs[r].status = "pending"
  BY DEF TurnsOnlyEnd, Chat!Pending
<1>4. ChatCounted'
  <2>1. session'.version <= 2 * chatBounds'.runs + chatBounds'.changes /\ Len(messages') <= 2 * chatBounds'.runs
    BY <1>1 DEF ChatInv, ChatCounted
  <2>2. ASSUME NEW r \in ChatRequests, Chat!Pending(r)'
        PROVE  session'.version < 2 * chatBounds'.runs + chatBounds'.changes /\ Len(messages') < 2 * chatBounds'.runs
    <3>1. session.version < 2 * chatBounds.runs + chatBounds.changes /\ Len(messages) < 2 * chatBounds.runs
      BY <1>3, <2>2 DEF ChatInv, ChatCounted
    <3>2. QED
      BY <1>1, <3>1
  <2>3. QED
    BY <2>1, <2>2 DEF ChatCounted
<1>5. Chat!ChatHistory'
  BY DEF ChatInv, Chat!ChatHistory
<1>6. TurnsDiffer'
  BY <1>3 DEF ChatInv, TurnsDiffer, TurnsOnlyEnd
<1>7. ASSUME NEW r \in ChatRequests
      PROVE  TurnIsSound(r)'
  <2>1. TurnIsSound(r) /\ runs[r] \in TurnForm /\ runs'[r].token = runs[r].token /\ runs'[r].version = runs[r].version
    BY <1>1 DEF ChatInv, TurnsOnlyEnd
  <2>2. runs'[r].token <= chatBounds'.runs /\ runs'[r].version <= session'.version
    BY <1>1, <2>1 DEF TurnIsSound, TurnForm
  <2>3. runs'[r].status = "pending" => runs'[r].token # 0 /\ runs'[r].token \notin fenced'
    <3>1. ASSUME runs'[r].status = "pending"
          PROVE  runs[r].token # 0 /\ runs[r].token \notin fenced /\ runs[r].status = "pending"
      BY <1>3, <2>1, <3>1 DEF TurnIsSound
    <3>2. ASSUME runs'[r].status = "pending", runs[r].token \in fenced'
          PROVE  FALSE
      <4>1. PICK q \in ChatRequests : runs[q].token = runs[r].token /\ runs'[q].status = "failed"
        BY <1>0, <3>1, <3>2
      <4>2. q = r
        BY <3>1, <3>2, <4>1 DEF ChatInv, TurnsDiffer
      <4>3. QED
        BY <3>2, <4>1, <4>2
    <3>3. QED
      BY <2>1, <3>1, <3>2
  <2>4. (runs'[r].status \in {"pending", "failed"} /\ runs'[r].version = session'.version) => AsksLast(r)'
    BY <1>1, <2>1 DEF TurnIsSound, AsksLast, TurnsOnlyEnd, TurnForm
  <2>5. QED
    BY <2>2, <2>3, <2>4 DEF TurnIsSound
<1>8. ASSUME NEW i \in 1..Len(messages)
      PROVE  MessageIsSound(i)'
  <2>1. MessageIsSound(i) /\ messages[i] \in MessageForm
    BY <1>1 DEF ChatInv
  <2>2. messages[i].request \in ChatRequests
    BY <2>1 DEF MessageForm
  <2>3. messages[i].token \notin fenced'
    <3>1. ASSUME messages[i].token \in fenced'
          PROVE  FALSE
      <4>1. messages[i].token \notin fenced
        BY <2>1 DEF MessageIsSound
      <4>2. PICK q \in ChatRequests : runs[q].token = messages[i].token /\ runs[q].status = "pending"
        BY <1>0, <3>1, <4>1
      <4>3. QED
        BY <2>1, <4>2 DEF MessageIsSound
    <3>2. QED
      BY <3>1
  <2>4. /\ runs'[messages[i].request].status # "none"
        /\ messages[i].role = "assistant" => runs'[messages[i].request].status = "complete"
    BY <2>1, <2>2 DEF MessageIsSound, TurnsOnlyEnd
  <2>5. \A r \in ChatRequests : runs'[r].status = "pending" => messages[i].token # runs'[r].token
    BY <1>3, <2>1 DEF MessageIsSound, TurnsOnlyEnd
  <2>6. QED
    BY <2>1, <2>3, <2>4, <2>5 DEF MessageIsSound
<1>9. ASSUME NEW h \in ChatHandlers
      PROVE  ChatCallIsSound(h)'
  <2>1. ChatCallIsSound(h) /\ calls[h] \in ChatCallForm /\ ChatCallMoved(h)
    BY <1>1 DEF ChatInv
  <2>2. CASE calls'[h] = Chat!NoCall
    BY <1>1, <2>2, NoCallOfChat DEF ChatCallIsSound, ChatEarly, ChatLate
  <2>3. CASE calls'[h] # Chat!NoCall
    <3>1. /\ calls'[h].request = calls[h].request /\ calls'[h].asked = calls[h].asked
          /\ calls'[h].fresh = calls[h].fresh /\ calls'[h].read = calls[h].read
          /\ calls'[h].token = calls[h].token /\ calls'[h].version = calls[h].version
          /\ calls'[h].pc \in ChatEarly => calls[h].pc \in ChatEarly
          /\ calls'[h].pc \in ChatLate => calls[h].pc \in ChatLate
          /\ calls'[h].pc \in ChatLate \cup {"fail"} => calls[h].pc \in ChatLate \cup {"fail"}
          /\ calls'[h].pc # "idle" => calls[h].pc # "idle"
      BY <2>1, <2>3 DEF ChatCallMoved
    <3>2. /\ calls'[h].asked <= session'.version /\ calls'[h].version <= session'.version
          /\ calls'[h].token <= chatBounds'.runs
          /\ calls'[h].pc # "idle" => calls'[h].request \in ChatRequests
      BY <1>1, <2>1, <3>1 DEF ChatCallIsSound, ChatCallForm
    <3>3. calls'[h].pc \in ChatLate \cup {"fail"} =>
            /\ calls'[h].token # 0
            /\ runs'[calls'[h].request].token = calls'[h].token =>
                 runs'[calls'[h].request].version = calls'[h].version
      BY <2>1, <3>1, <3>2 DEF ChatCallIsSound, TurnsOnlyEnd, ChatLate
    <3>4. (calls'[h].pc \in ChatLate /\ session'.version = calls'[h].version) => calls'[h].read = Chat!Shown'
      BY <1>1, <2>1, <3>1 DEF ChatCallIsSound, ChatCallForm
    <3>5. (calls'[h].pc \in ChatEarly /\ session'.version = calls'[h].asked) => calls'[h].read = Chat!Shown'
      BY <1>1, <2>1, <3>1 DEF ChatCallIsSound, ChatCallForm
    <3>6. ASSUME calls'[h].pc \in ChatEarly, runs'[calls'[h].request].status # "none",
                 session'.version = runs'[calls'[h].request].version
          PROVE  WillRead(h)' = Chat!Shown'
      <4>1. calls[h].request \in ChatRequests /\ calls[h].pc \in ChatEarly
        BY <2>1, <3>1, <3>6 DEF ChatCallIsSound, ChatEarly
      <4>2. /\ runs[calls[h].request].status # "none" /\ session'.version = runs[calls[h].request].version
            /\ runs[calls[h].request].version <= session.version /\ runs[calls[h].request].version \in Nat
        <5>1. PICK r \in ChatRequests : r = calls[h].request
          BY <4>1
        <5>2. TurnIsSound(r) /\ runs[r] \in TurnForm
          BY <1>1 DEF ChatInv
        <5>3. runs[r].version <= session.version /\ runs[r].version \in Nat
          BY <5>2 DEF TurnIsSound, TurnForm
        <5>4. runs'[r].version = runs[r].version /\ (runs[r].status = "none" => runs'[r].status = "none")
          BY DEF TurnsOnlyEnd
        <5>5. QED
          BY <3>1, <3>6, <5>1, <5>3, <5>4
      <4>3. session'.version = session.version /\ Chat!Shown' = Chat!Shown
        BY <1>1, <4>2
      <4>4. WillRead(h) = Chat!Shown
        BY <2>1, <4>1, <4>2, <4>3 DEF ChatCallIsSound
      <4>5. WillRead(h)' = WillRead(h)
        BY <3>1 DEF WillRead
      <4>6. QED
        BY <4>3, <4>4, <4>5
    <3>7. QED
      BY <3>2, <3>3, <3>4, <3>5, <3>6 DEF ChatCallIsSound
  <2>4. QED
    BY <2>2, <2>3
<1>10. ChatAgreed'
  <2>1. ASSUME NEW g \in ChatHandlers, NEW h \in ChatHandlers, calls'[g].pc # "idle", calls'[h].pc # "idle",
               calls'[g].request = calls'[h].request, runs'[calls'[g].request].status = "none",
               calls'[g].asked = session'.version
        PROVE  calls'[h].asked = calls'[g].asked /\ calls'[h].fresh = calls'[g].fresh
    <3>1. /\ calls'[g].request = calls[g].request /\ calls'[g].asked = calls[g].asked /\ calls'[g].fresh = calls[g].fresh
          /\ calls'[h].request = calls[h].request /\ calls'[h].asked = calls[h].asked /\ calls'[h].fresh = calls[h].fresh
          /\ calls[g].pc # "idle" /\ calls[h].pc # "idle"
      BY <2>1, NoCallOfChat DEF ChatCallMoved
    <3>2. calls[g].request \in ChatRequests /\ calls[g].asked <= session.version /\ calls[g].asked \in Int
      BY <1>1, <3>1 DEF ChatInv, ChatCallIsSound, ChatCallForm
    <3>3. runs[calls[g].request].status = "none" /\ calls[g].asked = session.version
      BY <1>1, <2>1, <3>1, <3>2 DEF TurnsOnlyEnd
    <3>4. QED
      <4>1. ChatAgreed /\ calls[g].request = calls[h].request
        BY <2>1, <3>1 DEF ChatInv
      <4>2. calls[h].asked = calls[g].asked /\ calls[h].fresh = calls[g].fresh
        BY <3>1, <3>3, <4>1 DEF ChatAgreed
      <4>3. QED
        BY <3>1, <4>2
  <2>2. QED
    BY <2>1 DEF ChatAgreed
<1>11. QED
  BY <1>2, <1>4, <1>5, <1>6, <1>7, <1>8, <1>9, <1>10 DEF ChatInv

\* The steps of HandleAgentChat that touch nothing but themselves, and the failure of a turn.
LEMMA ChatMoves ==
  ASSUME Chat!ChatAssumption, ChatInv, NEW h \in ChatHandlers,
         \/ Chat!Replay(h) \/ Chat!Register(h) \/ Chat!Preflight(h) \/ Chat!BeginRefused(h) \/ Chat!Remember(h) \/ Chat!Work(h)
         \/ Chat!FinishRefused(h) \/ Chat!Fail(h) \/ Chat!Release(h)
  PROVE  ChatInv'
<1>0. /\ session \in [here : BOOLEAN, version : Nat, current : Nat] /\ chatBounds \in ChatBoundsForm
      /\ runs \in [ChatRequests -> TurnForm] /\ calls \in [ChatHandlers -> ChatCallForm] /\ fenced \subseteq 1..chatBounds.runs
      /\ library \in [Chat!Positions -> CardForm] /\ stops \subseteq ChatRequests
      /\ registry \in [ChatRequests -> {"none", "running", "stopping", "marker"}]
      /\ chatBounds.changes \in Nat
  BY DEF ChatInv, ChatShape, ChatBoundsForm
<1>1. UNCHANGED <<session, messages, stops, fenced, library, chatBounds>> /\ Chat!Shown' = Chat!Shown
  BY DEF Chat!Replay, Chat!Register, Chat!Preflight, Chat!BeginRefused, Chat!Remember, Chat!Work, Chat!FinishRefused, Chat!Fail, Chat!Release, Chat!handling, Chat!Shown
<1>2. registry' \in [ChatRequests -> {"none", "running", "stopping", "marker"}]
  BY <1>0 DEF Chat!Replay, Chat!Register, Chat!Preflight, Chat!BeginRefused, Chat!Remember, Chat!Work, Chat!FinishRefused, Chat!Fail, Chat!Release
<1>3. runs' \in [ChatRequests -> TurnForm] /\ TurnsOnlyEnd
  <2>1. CASE UNCHANGED runs
    BY <1>0, <2>1 DEF TurnsOnlyEnd
  <2>2. CASE Chat!Fail(h) /\ ~UNCHANGED runs
    <3>1. PICK r : r = calls[h].request
      OBVIOUS
    <3>2. runs[r].status = "pending" /\ runs' = [runs EXCEPT ![r].status = "failed"]
      BY <2>2, <3>1 DEF Chat!Fail
    <3>3. QED
      BY <1>0, <3>2 DEF TurnsOnlyEnd, TurnForm
  <2>3. QED
    BY <2>1, <2>2 DEF Chat!Replay, Chat!Register, Chat!Preflight, Chat!BeginRefused, Chat!Remember, Chat!Work, Chat!FinishRefused, Chat!Fail, Chat!Release, Chat!handling
<1>4. /\ calls[h].pc # "idle"
      /\ \/ Chat!Leave(h)
         \/ \E p \in {"register", "begin", "release", "work", "finish", "fail"} :
              /\ Chat!Move(h, p)
              /\ p \in ChatEarly => calls[h].pc \in ChatEarly
              /\ p \in ChatLate => calls[h].pc \in ChatLate
              /\ p = "fail" => calls[h].pc \in ChatLate
  BY DEF Chat!Replay, Chat!Register, Chat!Preflight, Chat!BeginRefused, Chat!Remember, Chat!Work, Chat!FinishRefused, Chat!Fail, Chat!Release, ChatEarly, ChatLate
<1>5. calls' \in [ChatHandlers -> ChatCallForm] /\ \A g \in ChatHandlers : ChatCallMoved(g)
  <2>1. CASE Chat!Leave(h)
    BY <1>0, <2>1, NoCallOfChat DEF Chat!Leave, ChatCallMoved
  <2>2. ASSUME NEW p \in {"register", "begin", "release", "work", "finish", "fail"}, Chat!Move(h, p),
               p \in ChatEarly => calls[h].pc \in ChatEarly, p \in ChatLate => calls[h].pc \in ChatLate,
               p = "fail" => calls[h].pc \in ChatLate
        PROVE  calls' \in [ChatHandlers -> ChatCallForm] /\ \A g \in ChatHandlers : ChatCallMoved(g)
    <3>1. calls' = [calls EXCEPT ![h].pc = p]
      BY <2>2 DEF Chat!Move
    <3>2. calls[h] \in ChatCallForm /\ [calls[h] EXCEPT !.pc = p] \in ChatCallForm
      BY <1>0 DEF ChatCallForm, ChatEarly, ChatLate
    <3>3. calls' \in [ChatHandlers -> ChatCallForm] /\ \A g \in ChatHandlers \ {h} : calls'[g] = calls[g]
      BY <1>0, <3>1, <3>2
    <3>4. /\ calls'[h].pc = p /\ calls'[h].request = calls[h].request /\ calls'[h].asked = calls[h].asked
          /\ calls'[h].fresh = calls[h].fresh /\ calls'[h].read = calls[h].read
          /\ calls'[h].token = calls[h].token /\ calls'[h].version = calls[h].version
      BY <1>0, <3>1, <3>2 DEF ChatCallForm
    <3>5. ChatCallMoved(h)
      BY <1>4, <2>2, <3>4 DEF ChatCallMoved, ChatEarly, ChatLate
    <3>6. \A g \in ChatHandlers \ {h} : ChatCallMoved(g)
      BY <3>3 DEF ChatCallMoved
    <3>7. QED
      BY <3>3, <3>5, <3>6
  <2>3. QED
    BY <1>4, <2>1, <2>2
<1>6. QED
  BY <1>0, <1>1, <1>2, <1>3, <1>5, ChatSettles

\* The stop of a request, in two parts, the leases and the process that die.
LEMMA ChatStops ==
  ASSUME Chat!ChatAssumption, ChatInv,
         \/ \E r \in ChatRequests : Chat!Stop(r) \/ Chat!Cancel(r) \/ Chat!MarkerExpires(r) \/ Chat!LeaseExpires(r)
         \/ Chat!Crash
  PROVE  ChatInv'
<1>0. /\ session \in [here : BOOLEAN, version : Nat, current : Nat] /\ chatBounds \in ChatBoundsForm
      /\ runs \in [ChatRequests -> TurnForm] /\ calls \in [ChatHandlers -> ChatCallForm] /\ fenced \subseteq 1..chatBounds.runs
      /\ library \in [Chat!Positions -> CardForm] /\ stops \subseteq ChatRequests
      /\ registry \in [ChatRequests -> {"none", "running", "stopping", "marker"}]
      /\ chatBounds.changes \in 0..MaxChatChanges /\ chatBounds.faults \in 0..MaxFaults /\ MaxChatChanges \in Nat /\ MaxFaults \in Nat
  BY DEF ChatInv, ChatShape, ChatBoundsForm, Chat!ChatAssumption
<1>1. /\ UNCHANGED <<session, messages, library>> /\ Chat!Shown' = Chat!Shown
  BY DEF Chat!Stop, Chat!Cancel, Chat!MarkerExpires, Chat!LeaseExpires, Chat!Crash, Chat!handling, Chat!Shown
<1>2. stops' \subseteq ChatRequests /\ registry' \in [ChatRequests -> {"none", "running", "stopping", "marker"}]
  BY <1>0 DEF Chat!Stop, Chat!Cancel, Chat!MarkerExpires, Chat!LeaseExpires, Chat!Crash, Chat!handling
<1>3. chatBounds' \in ChatBoundsForm /\ chatBounds'.runs = chatBounds.runs /\ chatBounds'.changes >= chatBounds.changes
  <2>1. \/ UNCHANGED chatBounds
        \/ chatBounds' = [chatBounds EXCEPT !.changes = chatBounds.changes + 1] /\ chatBounds.changes < MaxChatChanges
        \/ chatBounds' = [chatBounds EXCEPT !.faults = chatBounds.faults + 1] /\ chatBounds.faults < MaxFaults
    BY DEF Chat!Stop, Chat!Cancel, Chat!MarkerExpires, Chat!LeaseExpires, Chat!Crash, Chat!Change, Chat!Fault
  <2>2. QED
    BY <1>0, <2>1 DEF ChatBoundsForm
<1>4. calls' \in [ChatHandlers -> ChatCallForm] /\ \A g \in ChatHandlers : ChatCallMoved(g)
  <2>1. UNCHANGED calls \/ calls' = [g \in ChatHandlers |-> Chat!NoCall]
    BY DEF Chat!Stop, Chat!Cancel, Chat!MarkerExpires, Chat!LeaseExpires, Chat!Crash
  <2>2. QED
    BY <1>0, <2>1, NoCallOfChat DEF ChatCallMoved
<1>5. CASE UNCHANGED <<runs, fenced>>
  <2>1. TurnsOnlyEnd
    BY <1>5 DEF TurnsOnlyEnd
  <2>2. QED
    BY <1>0, <1>1, <1>2, <1>3, <1>4, <1>5, <2>1, ChatSettles
<1>6. ASSUME NEW r \in ChatRequests, Chat!LeaseExpires(r)
      PROVE  ChatInv'
  <2>1. runs' = [runs EXCEPT ![r].live = FALSE] /\ UNCHANGED fenced
    BY <1>6 DEF Chat!LeaseExpires
  <2>2. runs' \in [ChatRequests -> TurnForm] /\ TurnsOnlyEnd
    BY <1>0, <2>1 DEF TurnsOnlyEnd, TurnForm
  <2>3. QED
    BY <1>0, <1>1, <1>2, <1>3, <1>4, <2>1, <2>2, ChatSettles
<1>7. ASSUME NEW r \in ChatRequests, Chat!Cancel(r), ~UNCHANGED <<runs, fenced>>
      PROVE  ChatInv'
  <2>1. CASE runs[r].status = "pending"
    <3>1. runs' = [runs EXCEPT ![r].status = "failed"] /\ fenced' = fenced \cup {runs[r].token}
      BY <1>7, <2>1 DEF Chat!Cancel
    <3>2. runs' \in [ChatRequests -> TurnForm] /\ TurnsOnlyEnd /\ runs'[r].status = "failed"
      BY <1>0, <2>1, <3>1 DEF TurnsOnlyEnd, TurnForm
    <3>3. runs[r].token \in 1..chatBounds.runs
      <4>1. TurnIsSound(r) /\ runs[r] \in TurnForm /\ chatBounds.runs \in Nat
        BY <1>0 DEF ChatInv, ChatBoundsForm
      <4>2. QED
        BY <2>1, <4>1 DEF TurnIsSound, TurnForm
    <3>4. fenced' \subseteq 1..chatBounds.runs
      BY <1>0, <3>1, <3>3
    <3>5. \A t \in fenced' \ fenced :
            \E q \in ChatRequests : runs[q].token = t /\ runs[q].status = "pending" /\ runs'[q].status = "failed"
      BY <2>1, <3>1, <3>2
    <3>6. QED
      BY <1>0, <1>1, <1>2, <1>3, <1>4, <3>2, <3>4, <3>5, ChatSettles
  <2>2. CASE runs[r].status # "pending"
    <3>1. runs' = [runs EXCEPT ![r].status = runs[r].status] /\ fenced' = fenced
      BY <1>7, <2>2 DEF Chat!Cancel
    <3>2. runs' \in [ChatRequests -> TurnForm] /\ TurnsOnlyEnd
      BY <1>0, <3>1 DEF TurnsOnlyEnd, TurnForm
    <3>3. QED
      BY <1>0, <1>1, <1>2, <1>3, <1>4, <3>1, <3>2, ChatSettles
  <2>3. QED
    BY <2>1, <2>2
<1>8. QED
  BY <1>5, <1>6, <1>7 DEF Chat!Stop, Chat!MarkerExpires, Chat!Crash, Chat!handling

\* The business context, and what the user does with the documents.
LEMMA ChatChanges ==
  ASSUME Chat!ChatAssumption, ChatInv,
         \/ Chat!Business
         \/ \E card \in Chat!Cards : Chat!SaveCard(card) \/ Chat!EditDocument(card) \/ Chat!DeleteDocument(card)
  PROVE  ChatInv'
<1>0. /\ session \in [here : BOOLEAN, version : Nat, current : Nat] /\ chatBounds \in ChatBoundsForm
      /\ runs \in [ChatRequests -> TurnForm] /\ calls \in [ChatHandlers -> ChatCallForm] /\ fenced \subseteq 1..chatBounds.runs
      /\ library \in [Chat!Positions -> CardForm] /\ stops \subseteq ChatRequests
      /\ registry \in [ChatRequests -> {"none", "running", "stopping", "marker"}]
      /\ chatBounds.changes \in 0..MaxChatChanges /\ MaxChatChanges \in Nat /\ session.version \in Nat
  BY DEF ChatInv, ChatShape, ChatBoundsForm, Chat!ChatAssumption
<1>1. /\ UNCHANGED <<messages, registry, calls, stops, fenced>>
      /\ chatBounds' = [chatBounds EXCEPT !.changes = chatBounds.changes + 1] /\ chatBounds.changes < MaxChatChanges
  BY DEF Chat!Business, Chat!SaveCard, Chat!EditDocument, Chat!DeleteDocument, Chat!Change
<1>2. chatBounds' \in ChatBoundsForm /\ chatBounds'.runs = chatBounds.runs /\ chatBounds'.changes = chatBounds.changes + 1
      /\ chatBounds'.changes >= chatBounds.changes
  BY <1>0, <1>1 DEF ChatBoundsForm
<1>3. \A g \in ChatHandlers : ChatCallMoved(g)
  BY <1>1 DEF ChatCallMoved
<1>4. CASE Chat!Business
  <2>1. session' = [session EXCEPT !.version = session.version + 1] /\ UNCHANGED <<runs, library>>
    BY <1>4 DEF Chat!Business
  <2>2. /\ session' \in [here : BOOLEAN, version : Nat, current : Nat]
        /\ session'.version = session.version + 1 /\ session'.current = session.current
    BY <1>0, <2>1
  <2>3. TurnsOnlyEnd
    BY <2>1 DEF TurnsOnlyEnd
  <2>4. QED
    BY <1>0, <1>1, <1>2, <1>3, <2>1, <2>2, <2>3, ChatSettles
<1>5. ASSUME NEW card \in Chat!Cards, Chat!SaveCard(card) \/ Chat!EditDocument(card) \/ Chat!DeleteDocument(card)
      PROVE  ChatInv'
  <2>1. card \in Chat!Positions
    <3>1. card \in 1..Len(messages) /\ Len(messages) <= 2 * chatBounds.runs /\ Len(messages) \in Nat
      BY DEF Chat!Cards, ChatInv, ChatCounted, ChatShape
    <3>2. chatBounds.runs \in 0..MaxRuns /\ MaxRuns \in Nat
      BY <1>0 DEF ChatBoundsForm, Chat!ChatAssumption
    <3>3. QED
      BY <3>1, <3>2 DEF Chat!Positions
  <2>2. Chat!Invalidate(card)
    BY <1>5 DEF Chat!SaveCard, Chat!EditDocument, Chat!DeleteDocument
  <2>3. PICK d \in CardForm : library' = [library EXCEPT ![card] = d]
    <3>1. library[card] \in CardForm
      BY <1>0, <2>1
    <3>2. CASE Chat!SaveCard(card)
      <4>1. [linked |-> TRUE, revision |-> 1] \in CardForm
        BY DEF CardForm
      <4>2. QED
        BY <3>2, <4>1 DEF Chat!SaveCard
    <3>3. CASE Chat!EditDocument(card)
      <4>1. PICK d : d = [library[card] EXCEPT !.revision = library[card].revision + 1]
        OBVIOUS
      <4>2. d \in CardForm
        BY <3>1, <4>1 DEF CardForm
      <4>3. library' = [library EXCEPT ![card] = d]
        BY <3>3, <4>1 DEF Chat!EditDocument
      <4>4. QED
        BY <4>2, <4>3
    <3>4. CASE Chat!DeleteDocument(card)
      <4>1. PICK d : d = [library[card] EXCEPT !.revision = 0]
        OBVIOUS
      <4>2. d \in CardForm
        BY <3>1, <4>1 DEF CardForm
      <4>3. library' = [library EXCEPT ![card] = d]
        BY <3>4, <4>1 DEF Chat!DeleteDocument
      <4>4. QED
        BY <4>2, <4>3
    <3>5. QED
      BY <1>5, <3>2, <3>3, <3>4
  <2>4. library' \in [Chat!Positions -> CardForm] /\ \A c \in Chat!Positions \ {card} : library'[c] = library[c]
    BY <1>0, <2>1, <2>3
  <2>5. CASE session.current = card
    <3>1. /\ session' = [session EXCEPT !.version = session.version + 1]
          /\ runs' = [r \in ChatRequests |-> IF runs[r].status = "pending"
                        THEN [runs[r] EXCEPT !.status = "failed"] ELSE runs[r]]
      BY <2>2, <2>5 DEF Chat!Invalidate
    <3>2. /\ session' \in [here : BOOLEAN, version : Nat, current : Nat]
          /\ session'.version = session.version + 1 /\ session'.current = session.current
      BY <1>0, <3>1
    <3>3. runs' \in [ChatRequests -> TurnForm] /\ TurnsOnlyEnd
      BY <1>0, <3>1 DEF TurnsOnlyEnd, TurnForm
    <3>4. QED
      BY <1>0, <1>1, <1>2, <1>3, <2>4, <3>2, <3>3, ChatSettles
  <2>6. CASE session.current # card
    <3>1. UNCHANGED <<session, runs>>
      BY <2>2, <2>6 DEF Chat!Invalidate
    <3>2. session.current # 0 => session.current \in Chat!Positions
      <4>1. session.current <= Len(messages) /\ Len(messages) <= 2 * chatBounds.runs /\ Len(messages) \in Nat
            /\ session.current \in Nat
        BY <1>0 DEF ChatInv, ChatCounted, ChatShape
      <4>2. chatBounds.runs \in 0..MaxRuns /\ MaxRuns \in Nat
        BY <1>0 DEF ChatBoundsForm, Chat!ChatAssumption
      <4>3. QED
        BY <4>1, <4>2 DEF Chat!Positions
    <3>3. Chat!Shown' = Chat!Shown
      BY <2>4, <2>6, <3>1, <3>2 DEF Chat!Shown
    <3>4. TurnsOnlyEnd
      BY <3>1 DEF TurnsOnlyEnd
    <3>5. QED
      BY <1>0, <1>1, <1>2, <1>3, <2>4, <3>1, <3>3, <3>4, ChatSettles
  <2>7. QED
    BY <2>5, <2>6
<1>6. QED
  BY <1>4, <1>5

\* A request that begins to be handled has read the session as it is.
LEMMA ChatReads ==
  ASSUME Chat!ChatAssumption, ChatInv, NEW h \in ChatHandlers, NEW r \in ChatRequests, NEW a \in Int, NEW f \in BOOLEAN,
         Chat!Read(h, r, a, f), a <= session.version,
         runs[r].status = "none" =>
           \A g \in ChatHandlers : calls[g].request = r => calls[g].asked = a /\ calls[g].fresh = f,
         runs[r].status # "none" => f = FALSE
  PROVE  ChatInv'
<1>0. /\ session \in [here : BOOLEAN, version : Nat, current : Nat] /\ calls \in [ChatHandlers -> ChatCallForm]
      /\ library \in [Chat!Positions -> CardForm]
  BY DEF ChatInv, ChatShape
<1>1. PICK s : s = Chat!Shown
  OBVIOUS
<1>2. s \in Nat \X Nat
  <2>1. session.current # 0 => session.current \in Chat!Positions
    <3>1. /\ session.current <= Len(messages) /\ Len(messages) <= 2 * chatBounds.runs /\ Len(messages) \in Nat
          /\ session.current \in Nat
      BY <1>0 DEF ChatInv, ChatCounted, ChatShape
    <3>2. chatBounds.runs \in 0..MaxRuns /\ MaxRuns \in Nat
      BY DEF ChatBoundsForm, Chat!ChatAssumption, ChatInv, ChatShape
    <3>3. QED
      BY <3>1, <3>2 DEF Chat!Positions
  <2>2. session.current # 0 => library[session.current].revision \in Nat
    BY <1>0, <2>1 DEF CardForm
  <2>3. QED
    BY <1>0, <1>1, <2>2 DEF Chat!Shown
<1> DEFINE c == [Chat!NoCall EXCEPT !.pc = "replay", !.request = r, !.asked = a, !.fresh = f, !.read = s]
<1>3. /\ c \in ChatCallForm /\ c.pc = "replay" /\ c.request = r /\ c.asked = a /\ c.fresh = f /\ c.read = s
      /\ c.token = 0 /\ c.version = 0
  BY <1>2, NoCallOfChat DEF ChatCallForm, ChatEarly, ChatLate
<1>4. calls' = [calls EXCEPT ![h] = c]
  BY <1>1 DEF Chat!Read
<1>5. UNCHANGED <<session, messages, runs, stops, fenced, library, registry, chatBounds>> /\ Chat!Shown' = s
  BY <1>1 DEF Chat!Read, Chat!handling, Chat!Shown
<1> HIDE DEF c
<1>6. calls'[h] = c /\ calls' \in [ChatHandlers -> ChatCallForm] /\ \A g \in ChatHandlers \ {h} : calls'[g] = calls[g]
  BY <1>0, <1>3, <1>4
<1>7. /\ ChatShape' /\ ChatCounted' /\ Chat!ChatHistory' /\ TurnsDiffer'
      /\ \A q \in ChatRequests : TurnIsSound(q)'
      /\ \A i \in 1..Len(messages') : MessageIsSound(i)'
  <2>1. ChatShape' /\ ChatCounted'
    BY <1>5, <1>6 DEF ChatInv, ChatShape, ChatCounted, Chat!Pending
  <2>2. Chat!ChatHistory' /\ TurnsDiffer'
    BY <1>5 DEF ChatInv, Chat!ChatHistory, TurnsDiffer, Chat!Pending
  <2>3. \A q \in ChatRequests : TurnIsSound(q)'
    BY <1>5 DEF ChatInv, TurnIsSound, AsksLast
  <2>4. \A i \in 1..Len(messages') : MessageIsSound(i)'
    BY <1>5 DEF ChatInv, MessageIsSound
  <2>5. QED
    BY <2>1, <2>2, <2>3, <2>4
<1>8. ASSUME NEW g \in ChatHandlers
      PROVE  ChatCallIsSound(g)'
  <2>1. CASE g # h
    BY <1>1, <1>5, <1>6, <2>1 DEF ChatInv, ChatCallIsSound, WillRead
  <2>2. CASE g = h
    <3>1. runs[r].status # "none" => WillRead(h)' = s
      BY <1>3, <1>6 DEF WillRead
    <3>2. session.version >= 0 /\ chatBounds.runs >= 0
      BY <1>0 DEF ChatInv, ChatShape, ChatBoundsForm
    <3>3. QED
      BY <1>3, <1>5, <1>6, <2>2, <3>1, <3>2 DEF ChatCallIsSound, ChatEarly, ChatLate
  <2>3. QED
    BY <2>1, <2>2
<1>9. ChatAgreed'
  <2>1. ASSUME NEW g \in ChatHandlers, NEW k \in ChatHandlers, calls'[g].pc # "idle", calls'[k].pc # "idle",
               calls'[g].request = calls'[k].request, runs[calls'[g].request].status = "none",
               calls'[g].asked = session.version
        PROVE  calls'[k].asked = calls'[g].asked /\ calls'[k].fresh = calls'[g].fresh
    <3>1. CASE g # h /\ k # h
      BY <1>6, <2>1, <3>1 DEF ChatInv, ChatAgreed
    <3>2. CASE g = h /\ k # h
      BY <1>3, <1>6, <2>1, <3>2
    <3>3. CASE g # h /\ k = h
      BY <1>3, <1>6, <2>1, <3>3
    <3>4. QED
      BY <3>1, <3>2, <3>3
  <2>2. QED
    BY <1>5, <2>1 DEF ChatAgreed
<1>10. QED
  BY <1>7, <1>8, <1>9 DEF ChatInv

\* A cleared or deleted session has a new version, and nothing that could be found in it.
LEMMA ChatDeletes ==
  ASSUME Chat!ChatAssumption, ChatInv, NEW clear \in BOOLEAN, Chat!Delete(clear)
  PROVE  ChatInv'
<1>0. /\ session \in [here : BOOLEAN, version : Nat, current : Nat] /\ calls \in [ChatHandlers -> ChatCallForm]
      /\ chatBounds \in ChatBoundsForm /\ fenced \subseteq 1..chatBounds.runs /\ MaxChatChanges \in Nat
      /\ session.version \in Nat /\ chatBounds.runs \in Nat /\ chatBounds.changes \in 0..MaxChatChanges
      /\ session.version <= 2 * chatBounds.runs + chatBounds.changes
  BY DEF ChatInv, ChatShape, ChatCounted, Chat!ChatAssumption, ChatBoundsForm
<1>1. /\ session' = [here |-> clear, version |-> session.version + 1, current |-> 0] /\ messages' = <<>>
      /\ runs' = [q \in ChatRequests |-> Chat!NoRun] /\ library' = [n \in Chat!Positions |-> Chat!NoDocument]
      /\ UNCHANGED <<registry, calls, stops, fenced>>
      /\ chatBounds' = [chatBounds EXCEPT !.changes = chatBounds.changes + 1] /\ chatBounds.changes < MaxChatChanges
  BY DEF Chat!Delete, Chat!Change
<1>2. /\ chatBounds' \in ChatBoundsForm /\ chatBounds'.runs = chatBounds.runs /\ chatBounds'.changes = chatBounds.changes + 1
      /\ session' \in [here : BOOLEAN, version : Nat, current : Nat] /\ session'.version = session.version + 1
      /\ session'.current = 0 /\ Len(messages') = 0 /\ messages' \in Seq(MessageForm)
  BY <1>0, <1>1 DEF ChatBoundsForm
<1>3. Chat!NoRun \in TurnForm /\ Chat!NoRun.status = "none" /\ Chat!NoRun.token = 0 /\ Chat!NoRun.version = 0 /\ Chat!NoDocument \in CardForm
  BY DEF Chat!NoRun, TurnForm, Chat!NoDocument, CardForm
<1>4. runs' \in [ChatRequests -> TurnForm] /\ (\A q \in ChatRequests : runs'[q] = Chat!NoRun) /\ library' \in [Chat!Positions -> CardForm]
  BY <1>1, <1>3
<1>5. ChatShape'
  BY <1>1, <1>2, <1>4 DEF ChatInv, ChatShape
<1>6. ChatCounted' /\ Chat!ChatHistory' /\ TurnsDiffer'
  BY <1>0, <1>2, <1>3, <1>4 DEF ChatCounted, Chat!ChatHistory, TurnsDiffer, Chat!Pending
<1>7. \A q \in ChatRequests : TurnIsSound(q)'
  BY <1>0, <1>2, <1>3, <1>4 DEF TurnIsSound
<1>8. \A i \in 1..Len(messages') : MessageIsSound(i)'
  BY <1>2
<1>9. ASSUME NEW g \in ChatHandlers
      PROVE  ChatCallIsSound(g)' /\ calls'[g].asked < session'.version
  <2>1. ChatCallIsSound(g) /\ calls[g] \in ChatCallForm /\ calls'[g] = calls[g]
    BY <1>0, <1>1 DEF ChatInv
  <2>2. calls[g].asked < session'.version /\ calls[g].version < session'.version
    BY <1>0, <1>2, <2>1 DEF ChatCallIsSound, ChatCallForm
  <2>3. calls[g].pc # "idle" => runs'[calls[g].request] = Chat!NoRun
    BY <1>4, <2>1 DEF ChatCallIsSound
  <2>4. ChatCallIsSound(g)'
    <3>1. /\ calls'[g].asked <= session'.version /\ calls'[g].version <= session'.version
          /\ session'.version # calls'[g].asked /\ session'.version # calls'[g].version
      BY <1>2, <2>1, <2>2 DEF ChatCallForm
    <3>2. calls'[g].token <= chatBounds'.runs /\ (calls'[g].pc # "idle" => calls'[g].request \in ChatRequests)
      BY <1>2, <2>1 DEF ChatCallIsSound
    <3>3. calls'[g].pc \in ChatLate \cup {"fail"} =>
            /\ calls'[g].token # 0
            /\ runs'[calls'[g].request].token # calls'[g].token
      BY <1>3, <2>1, <2>3 DEF ChatCallIsSound, ChatLate
    <3>4. calls'[g].pc \in ChatEarly => runs'[calls'[g].request].status = "none"
      BY <1>3, <2>1, <2>3 DEF ChatEarly
    <3>5. QED
      BY <3>1, <3>2, <3>3, <3>4 DEF ChatCallIsSound
  <2>5. QED
    BY <2>1, <2>2, <2>4
<1>10. ChatAgreed'
  <2>1. \A g \in ChatHandlers : calls'[g].asked # session'.version
    BY <1>0, <1>1, <1>2, <1>9 DEF ChatCallForm
  <2>2. QED
    BY <2>1 DEF ChatAgreed
<1>11. QED
  BY <1>5, <1>6, <1>7, <1>8, <1>9, <1>10 DEF ChatInv

\* The answer is filed behind its question, at a version nobody has seen.
LEMMA ChatFinishes ==
  ASSUME Chat!ChatAssumption, ChatInv, NEW h \in ChatHandlers, Chat!Finish(h)
  PROVE  ChatInv'
<1>0. /\ session \in [here : BOOLEAN, version : Nat, current : Nat] /\ calls \in [ChatHandlers -> ChatCallForm]
      /\ chatBounds \in ChatBoundsForm /\ fenced \subseteq 1..chatBounds.runs /\ runs \in [ChatRequests -> TurnForm]
      /\ messages \in Seq(MessageForm) /\ Len(messages) \in Nat /\ session.current <= Len(messages)
      /\ session.version \in Nat /\ session.current \in Nat /\ chatBounds.runs \in Nat /\ chatBounds.changes \in Nat
      /\ library \in [Chat!Positions -> CardForm]
  BY DEF ChatInv, ChatShape, ChatCounted, ChatBoundsForm
<1>1. PICK r : r = calls[h].request
  OBVIOUS
<1>2. /\ calls[h].pc = "finish" /\ Chat!Owns(h) /\ session.version = calls[h].version
      /\ calls' = [calls EXCEPT ![h].pc = "fail"] /\ runs' = [runs EXCEPT ![r].status = "complete"]
      /\ UNCHANGED <<registry, stops, fenced, library, chatBounds>>
  BY <1>1 DEF Chat!Finish, Chat!MayFinish, Chat!Move
<1>3. /\ calls[h] \in ChatCallForm /\ ChatCallIsSound(h) /\ r \in ChatRequests
      /\ calls[h].read = Chat!Shown /\ calls[h].token # 0
      /\ runs[r].version = calls[h].version /\ runs[r].token = calls[h].token
      /\ runs[r].status = "pending" /\ Chat!Pending(r) /\ TurnIsSound(r)
  <2>1. calls[h] \in ChatCallForm /\ ChatCallIsSound(h)
    BY <1>0 DEF ChatInv
  <2>2. r \in ChatRequests /\ calls[h].read = Chat!Shown /\ calls[h].token # 0
    BY <1>1, <1>2, <2>1 DEF ChatCallIsSound, ChatLate
  <2>3. runs[r].token = calls[h].token /\ runs[r].status = "pending" /\ Chat!Pending(r)
    BY <1>1, <1>2 DEF Chat!Owns, Chat!Pending
  <2>4. runs[r].version = calls[h].version
    BY <1>1, <1>2, <2>1, <2>3 DEF ChatCallIsSound, ChatLate
  <2>5. QED
    BY <2>1, <2>2, <2>3, <2>4 DEF ChatInv
<1>4. PICK last : /\ last = [role |-> "assistant", request |-> r, token |-> calls[h].token,
                             read |-> calls[h].read, then |-> Chat!Shown]
  OBVIOUS
<1>5. /\ last \in MessageForm /\ last.role = "assistant" /\ last.request = r /\ last.token = runs[r].token
      /\ last.read = last.then
  <2>1. calls[h].read \in Nat \X Nat /\ calls[h].token \in Nat
    BY <1>3 DEF ChatCallForm
  <2>2. QED
    BY <1>3, <1>4, <2>1 DEF MessageForm
<1>6. messages' = Append(messages, last)
  BY <1>1, <1>2, <1>4 DEF Chat!Finish
<1>7. messages' \in Seq(MessageForm) /\ Len(messages') = Len(messages) + 1
  BY <1>0, <1>5, <1>6, AppendProperties
<1>8. \A i \in 1..Len(messages) : messages'[i] = messages[i]
  BY <1>0, <1>5, <1>6, AppendProperties
<1>9. messages'[Len(messages) + 1] = last
  BY <1>0, <1>5, <1>6, AppendProperties
<1>10. /\ session' \in [here : BOOLEAN, version : Nat, current : Nat] /\ session'.version = session.version + 1
       /\ session'.current <= Len(messages) + 1
  <2>1. PICK card \in BOOLEAN :
          session' = [session EXCEPT !.version = session.version + 1,
                                     !.current = IF card THEN Len(messages) + 1 ELSE session.current]
    BY DEF Chat!Finish
  <2>2. PICK n \in Nat : n = (IF card THEN Len(messages) + 1 ELSE session.current)
    BY <1>0
  <2>3. n <= Len(messages) + 1
    BY <1>0, <2>2
  <2>4. PICK v \in Nat : v = session.version + 1
    BY <1>0
  <2>5. session' = [session EXCEPT !.version = v, !.current = n]
    BY <2>1, <2>2, <2>4
  <2>6. session' \in [here : BOOLEAN, version : Nat, current : Nat] /\ session'.version = v /\ session'.current = n
    BY <1>0, <2>5
  <2>7. QED
    BY <2>3, <2>4, <2>6
<1>11. /\ runs' \in [ChatRequests -> TurnForm] /\ runs'[r].status = "complete"
       /\ runs'[r].token = runs[r].token /\ runs'[r].version = runs[r].version
       /\ \A q \in ChatRequests \ {r} : runs'[q] = runs[q]
  BY <1>0, <1>2, <1>3 DEF TurnForm
<1>12. /\ calls' \in [ChatHandlers -> ChatCallForm] /\ calls'[h].pc = "fail"
       /\ calls'[h].request = calls[h].request /\ calls'[h].asked = calls[h].asked
       /\ calls'[h].token = calls[h].token /\ calls'[h].version = calls[h].version
       /\ \A g \in ChatHandlers \ {h} : calls'[g] = calls[g]
  BY <1>0, <1>2, <1>3 DEF ChatCallForm
<1>13. \A q \in ChatRequests : ~Chat!Pending(q)'
  BY <1>3, <1>11 DEF ChatInv, TurnsDiffer, Chat!Pending
<1>14. ChatShape'
  BY <1>2, <1>7, <1>10, <1>11, <1>12 DEF ChatInv, ChatShape
<1>15. ChatCounted'
  <2>1. session.version < 2 * chatBounds.runs + chatBounds.changes /\ Len(messages) < 2 * chatBounds.runs
    BY <1>3 DEF ChatInv, ChatCounted
  <2>2. session'.version <= 2 * chatBounds'.runs + chatBounds'.changes /\ Len(messages') <= 2 * chatBounds'.runs
    BY <1>0, <1>2, <1>7, <1>10, <2>1
  <2>3. QED
    BY <1>13, <2>2 DEF ChatCounted
<1>16. TurnsDiffer'
  <2>1. \A q \in ChatRequests : runs'[q].token = runs[q].token
    BY <1>11
  <2>2. QED
    BY <1>13, <2>1 DEF ChatInv, TurnsDiffer
<1>17. ASSUME NEW q \in ChatRequests
       PROVE  TurnIsSound(q)' /\ runs'[q].version < session'.version
  <2>1. TurnIsSound(q) /\ runs[q] \in TurnForm /\ runs'[q].version = runs[q].version /\ runs'[q].token = runs[q].token
    BY <1>0, <1>11 DEF ChatInv
  <2>2. runs'[q].version < session'.version
    BY <1>0, <1>10, <2>1 DEF TurnIsSound, TurnForm
  <2>3. runs'[q].status = "pending" => runs[q].status = "pending"
    BY <1>11
  <2>4. runs'[q].version # session'.version /\ runs'[q].version <= session'.version
    BY <1>10, <2>1, <2>2 DEF TurnForm
  <2>5. TurnIsSound(q)'
    BY <1>2, <2>1, <2>3, <2>4 DEF TurnIsSound
  <2>6. QED
    BY <2>2, <2>5
<1>18. AsksLast(r)
  BY <1>2, <1>3 DEF TurnIsSound
<1>19. \A i \in 1..Len(messages) : MessageIsSound(i) /\ messages[i] \in MessageForm /\ messages[i].request \in ChatRequests
  <2>1. \A i \in 1..Len(messages) : messages[i] \in MessageForm
    BY <1>0
  <2>2. QED
    BY <2>1 DEF ChatInv, MessageForm
<1>20. ASSUME NEW i \in 1..(Len(messages) + 1)
       PROVE  MessageIsSound(i)'
  <2>1. CASE i = Len(messages) + 1
    <3>1. messages'[i] = last
      BY <1>9, <2>1
    <3>2. last.token <= chatBounds'.runs /\ last.token \notin fenced'
      BY <1>2, <1>3, <1>5 DEF TurnIsSound
    <3>3. \A q \in ChatRequests : runs'[q].status = "pending" => last.token # runs'[q].token
      BY <1>3, <1>5, <1>11 DEF ChatInv, TurnsDiffer
    <3>4. QED
      BY <1>5, <1>11, <3>1, <3>2, <3>3 DEF MessageIsSound
  <2>2. CASE i # Len(messages) + 1
    <3>1. i \in 1..Len(messages)
      BY <1>0, <2>2
    <3>2. messages'[i] = messages[i] /\ MessageIsSound(i) /\ messages[i].request \in ChatRequests
      BY <1>8, <1>19, <3>1
    <3>3. /\ runs'[messages[i].request].status # "none"
          /\ messages[i].role = "assistant" => runs'[messages[i].request].status = "complete"
      BY <1>11, <3>2 DEF MessageIsSound
    <3>4. \A q \in ChatRequests : runs'[q].status = "pending" => messages[i].token # runs'[q].token
      BY <1>11, <3>2 DEF MessageIsSound
    <3>5. QED
      BY <1>2, <3>2, <3>3, <3>4 DEF MessageIsSound
  <2>3. QED
    BY <2>1, <2>2
<1>21. Chat!ChatHistory'
  <2>1. ASSUME NEW i \in 1..Len(messages'), messages'[i].role = "assistant"
        PROVE  /\ i > 1 /\ messages'[i - 1].role = "user" /\ messages'[i - 1].request = messages'[i].request
    <3>1. CASE i = Len(messages) + 1
      <4>1. i - 1 = Len(messages) /\ i - 1 \in 1..Len(messages) /\ i > 1
        BY <1>0, <1>18, <3>1 DEF AsksLast
      <4>2. QED
        BY <1>5, <1>8, <1>9, <1>18, <3>1, <4>1 DEF AsksLast
    <3>2. CASE i # Len(messages) + 1
      <4>1. i \in 1..Len(messages)
        BY <1>0, <1>7, <3>2
      <4>2. i > 1 /\ messages[i - 1].role = "user" /\ messages[i - 1].request = messages[i].request
        BY <1>8, <2>1, <4>1 DEF ChatInv, Chat!ChatHistory
      <4>3. i - 1 \in 1..Len(messages)
        BY <1>0, <4>1, <4>2
      <4>4. QED
        BY <1>8, <4>1, <4>2, <4>3
    <3>3. QED
      BY <3>1, <3>2
  <2>2. ASSUME NEW i \in 1..Len(messages)
        PROVE  ~(messages'[i].role = "assistant" /\ messages'[i].request = r)
    BY <1>3, <1>8, <1>19 DEF MessageIsSound
  <2>3. ASSUME NEW i \in 1..Len(messages'), NEW j \in 1..Len(messages'),
               messages'[i].role = messages'[j].role, messages'[i].request = messages'[j].request
        PROVE  i = j
    <3>1. CASE i \in 1..Len(messages) /\ j \in 1..Len(messages)
      BY <1>8, <2>3, <3>1 DEF ChatInv, Chat!ChatHistory
    <3>2. CASE i \notin 1..Len(messages) \/ j \notin 1..Len(messages)
      <4>1. i = Len(messages) + 1 \/ j = Len(messages) + 1
        BY <1>0, <1>7, <3>2
      <4>2. i \in 1..(Len(messages) + 1) /\ j \in 1..(Len(messages) + 1)
        BY <1>7
      <4>3. (i = Len(messages) + 1 \/ i \in 1..Len(messages)) /\ (j = Len(messages) + 1 \/ j \in 1..Len(messages))
        BY <1>0, <4>2
      <4>4. QED
        BY <1>5, <1>9, <2>2, <2>3, <4>1, <4>3
    <3>3. QED
      BY <3>1, <3>2
  <2>4. QED
    BY <2>1, <2>3 DEF Chat!ChatHistory
<1>22. ASSUME NEW g \in ChatHandlers
       PROVE  ChatCallIsSound(g)' /\ calls'[g].asked < session'.version
  <2>1. /\ ChatCallIsSound(g) /\ calls[g] \in ChatCallForm
        /\ calls'[g].asked = calls[g].asked /\ calls'[g].version = calls[g].version
        /\ calls'[g].token = calls[g].token /\ calls'[g].request = calls[g].request
    BY <1>0, <1>12 DEF ChatInv
  <2>2. calls[g].asked < session'.version /\ calls[g].version < session'.version
    <3>1. /\ calls[g].asked <= session.version /\ calls[g].version <= session.version
          /\ calls[g].asked \in Int /\ calls[g].version \in Int
      BY <2>1 DEF ChatCallIsSound, ChatCallForm
    <3>2. session'.version = session.version + 1 /\ session.version \in Int
      BY <1>0, <1>10
    <3>3. QED
      BY <3>1, <3>2
  <2>3. /\ calls'[g].pc # "idle" => calls[g].pc # "idle" /\ calls[g].request \in ChatRequests
        /\ calls'[g].pc \in ChatLate \cup {"fail"} => calls[g].pc \in ChatLate \cup {"fail"}
    BY <1>2, <1>12, <2>1 DEF ChatCallIsSound, ChatLate
  <2>4. calls'[g].pc \in ChatLate \cup {"fail"} =>
          /\ calls'[g].token # 0
          /\ runs'[calls'[g].request].token = calls'[g].token => runs'[calls'[g].request].version = calls'[g].version
    BY <1>11, <2>1, <2>3 DEF ChatCallIsSound, ChatLate
  <2>5. calls'[g].pc # "idle" => runs'[calls'[g].request].version < session'.version
    BY <1>17, <2>1, <2>3
  <2>6. calls'[g].pc \in ChatEarly => calls'[g].pc # "idle" /\ session'.version # runs'[calls'[g].request].version
    <3>1. CASE calls'[g].pc = "idle"
      BY <3>1 DEF ChatEarly
    <3>2. CASE calls'[g].pc # "idle"
      <4>1. calls'[g].request \in ChatRequests
        BY <2>1, <2>3, <3>2
      <4>2. runs'[calls'[g].request].version \in Nat /\ session'.version \in Nat
        BY <1>10, <1>11, <4>1 DEF TurnForm
      <4>3. QED
        BY <2>5, <3>2, <4>2
    <3>3. QED
      BY <3>1, <3>2
  <2>7. QED
    <3>1. calls'[g].asked <= session'.version /\ calls'[g].version <= session'.version
          /\ session'.version # calls'[g].asked /\ session'.version # calls'[g].version
      BY <1>10, <2>1, <2>2 DEF ChatCallForm
    <3>2. calls'[g].token <= chatBounds'.runs
      BY <1>2, <2>1 DEF ChatCallIsSound
    <3>3. calls'[g].pc # "idle" => calls'[g].request \in ChatRequests
      BY <2>1, <2>3
    <3>4. ChatCallIsSound(g)'
      BY <2>4, <2>6, <3>1, <3>2, <3>3 DEF ChatCallIsSound
    <3>5. QED
      BY <2>1, <2>2, <3>4
<1>23. ChatAgreed'
  <2>1. \A g \in ChatHandlers : calls'[g].asked # session'.version
    BY <1>10, <1>12, <1>22 DEF ChatCallForm
  <2>2. QED
    BY <2>1 DEF ChatAgreed
<1>24. QED
  <2>1. \A i \in 1..Len(messages') : MessageIsSound(i)'
    BY <1>7, <1>20
  <2>2. QED
    BY <1>14, <1>15, <1>16, <1>17, <1>21, <1>22, <1>23, <2>1 DEF ChatInv

\* A turn that begins: what its handler read is what it is shown now.
LEMMA ChatBegins ==
  ASSUME Chat!ChatAssumption, ChatInv, NEW h \in ChatHandlers, Chat!Begin(h)
  PROVE  ChatInv'
<1>0. /\ session \in [here : BOOLEAN, version : Nat, current : Nat] /\ calls \in [ChatHandlers -> ChatCallForm]
      /\ chatBounds \in ChatBoundsForm /\ fenced \subseteq 1..chatBounds.runs /\ runs \in [ChatRequests -> TurnForm]
      /\ messages \in Seq(MessageForm) /\ Len(messages) \in Nat /\ session.current <= Len(messages)
      /\ session.version \in Nat /\ session.current \in Nat /\ chatBounds.runs \in 0..MaxRuns /\ chatBounds.changes \in Nat
      /\ library \in [Chat!Positions -> CardForm] /\ MaxRuns \in Nat
  BY DEF ChatInv, ChatShape, ChatCounted, ChatBoundsForm, Chat!ChatAssumption
<1>1. PICK r : r = calls[h].request
  OBVIOUS
<1> DEFINE first == runs[r].status = "none"
<1>2. PICK v \in Nat : v = session.version + (IF first THEN 1 ELSE 0)
  BY <1>0
<1>3. PICK t \in Nat : t = chatBounds.runs + 1
  BY <1>0
<1>4. PICK last : last = [role |-> "user", request |-> r, token |-> 0, read |-> <<0, 0>>, then |-> <<0, 0>>]
  OBVIOUS
<1>5. /\ calls[h].pc = "begin" /\ Chat!BeginAllowed(h) /\ chatBounds.runs < MaxRuns
      /\ chatBounds' = [chatBounds EXCEPT !.runs = t]
      /\ messages' = IF first THEN Append(messages, last) ELSE messages
      /\ session' = [session EXCEPT !.version = v, !.current = IF first /\ calls[h].fresh THEN 0 ELSE session.current]
      /\ runs' = [runs EXCEPT ![r] = [runs[r] EXCEPT !.status = "pending", !.token = t, !.live = TRUE, !.version = v]]
      /\ calls' = [calls EXCEPT ![h].pc = "remember", ![h].token = t, ![h].version = v,
                                ![h].read = WillRead(h)]
      /\ UNCHANGED <<registry, stops, fenced, library>>
  BY <1>1, <1>2, <1>3, <1>4 DEF Chat!Begin, WillRead
<1>6. /\ calls[h] \in ChatCallForm /\ ChatCallIsSound(h) /\ r \in ChatRequests /\ runs[r] \in TurnForm /\ TurnIsSound(r)
  <2>1. calls[h] \in ChatCallForm /\ ChatCallIsSound(h)
    BY <1>0 DEF ChatInv
  <2>2. r \in ChatRequests
    BY <1>1, <1>5, <2>1 DEF ChatCallIsSound
  <2>3. QED
    BY <1>0, <2>1, <2>2 DEF ChatInv
<1>7. /\ \A q \in ChatRequests : ~Chat!Pending(q)
      /\ first => session.version = calls[h].asked
      /\ ~first => runs[r].status \in {"pending", "failed"} /\ session.version = runs[r].version
  <2>1. runs[r].status \in {"none", "pending", "complete", "failed"}
    BY <1>6 DEF TurnForm
  <2>2. QED
    BY <1>1, <1>5, <2>1 DEF Chat!BeginAllowed
<1>8. v >= session.version /\ (first => v > session.version) /\ (~first => v = session.version) /\ v <= session.version + 1
  BY <1>0, <1>2
<1>9. /\ chatBounds' \in ChatBoundsForm /\ chatBounds'.runs = t /\ chatBounds'.changes = chatBounds.changes /\ t > chatBounds.runs
      /\ t # 0 /\ t \notin fenced /\ fenced \subseteq 1..t
  <2>1. t \in 0..MaxRuns /\ t > chatBounds.runs /\ t # 0
    BY <1>0, <1>3, <1>5
  <2>2. chatBounds' \in ChatBoundsForm /\ chatBounds'.runs = t /\ chatBounds'.changes = chatBounds.changes
    BY <1>0, <1>5, <2>1 DEF ChatBoundsForm
  <2>3. t \notin fenced /\ fenced \subseteq 1..t
    BY <1>0, <2>1
  <2>4. QED
    BY <2>1, <2>2, <2>3
<1>10. /\ session' \in [here : BOOLEAN, version : Nat, current : Nat] /\ session'.version = v
       /\ session'.current = (IF first /\ calls[h].fresh THEN 0 ELSE session.current)
       /\ session'.current <= Len(messages)
  <2>1. PICK n \in Nat : n = (IF first /\ calls[h].fresh THEN 0 ELSE session.current)
    BY <1>0
  <2>2. n <= Len(messages)
    BY <1>0, <2>1
  <2>3. session' = [session EXCEPT !.version = v, !.current = n]
    BY <1>5, <2>1
  <2>4. session' \in [here : BOOLEAN, version : Nat, current : Nat] /\ session'.version = v /\ session'.current = n
    BY <1>0, <2>3
  <2>5. QED
    BY <2>1, <2>2, <2>4
<1>11. /\ runs' \in [ChatRequests -> TurnForm] /\ runs'[r].status = "pending" /\ runs'[r].token = t
       /\ runs'[r].version = v /\ \A q \in ChatRequests \ {r} : runs'[q] = runs[q]
  <2>1. PICK n : n = [runs[r] EXCEPT !.status = "pending", !.token = t, !.live = TRUE, !.version = v]
    OBVIOUS
  <2>2. n \in TurnForm /\ n.status = "pending" /\ n.token = t /\ n.version = v
    BY <1>6, <2>1 DEF TurnForm
  <2>3. runs' = [runs EXCEPT ![r] = n]
    BY <1>5, <2>1
  <2>4. QED
    BY <1>0, <1>6, <2>2, <2>3
<1>12. /\ calls' \in [ChatHandlers -> ChatCallForm] /\ calls'[h].pc = "remember"
       /\ calls'[h].request = r /\ calls'[h].asked = calls[h].asked /\ calls'[h].fresh = calls[h].fresh
       /\ calls'[h].token = t /\ calls'[h].version = v /\ calls'[h].read = WillRead(h)
       /\ \A g \in ChatHandlers \ {h} : calls'[g] = calls[g]
  <2>1. PICK w \in Nat \X Nat : w = WillRead(h)
    BY <1>6 DEF WillRead, ChatCallForm
  <2>2. PICK c : c = [calls[h] EXCEPT !.pc = "remember", !.token = t, !.version = v, !.read = w]
    OBVIOUS
  <2>3. /\ c \in ChatCallForm /\ c.pc = "remember" /\ c.request = r /\ c.asked = calls[h].asked
        /\ c.fresh = calls[h].fresh /\ c.token = t /\ c.version = v /\ c.read = w
    BY <1>1, <1>6, <2>2 DEF ChatCallForm, ChatLate
  <2>4. calls' = [calls EXCEPT ![h] = c]
    BY <1>5, <2>1, <2>2
  <2>5. QED
    BY <1>0, <2>1, <2>3, <2>4
<1>13. /\ messages' \in Seq(MessageForm) /\ Len(messages') \in Nat
       /\ Len(messages') = (IF first THEN Len(messages) + 1 ELSE Len(messages))
       /\ \A i \in 1..Len(messages) : messages'[i] = messages[i]
       /\ first => messages'[Len(messages) + 1] = last
  <2>1. CASE first
    <3>1. last \in MessageForm /\ messages' = Append(messages, last)
      BY <1>4, <1>5, <1>6, <2>1 DEF MessageForm
    <3>2. messages' \in Seq(MessageForm) /\ Len(messages') = Len(messages) + 1
      BY <1>0, <3>1, AppendProperties
    <3>3. \A i \in 1..Len(messages) : messages'[i] = messages[i]
      BY <1>0, <3>1, AppendProperties
    <3>4. messages'[Len(messages) + 1] = last
      BY <1>0, <3>1, AppendProperties
    <3>5. QED
      BY <2>1, <3>2, <3>3, <3>4
  <2>2. CASE ~first
    BY <1>0, <1>5, <2>2
  <2>3. QED
    BY <2>1, <2>2
<1>14. last.role = "user" /\ last.request = r /\ last.token = 0 /\ last.read = last.then
  BY <1>4
<1>15. Chat!Shown' = WillRead(h) /\ (~(first /\ calls[h].fresh) => Chat!Shown' = Chat!Shown)
  <2>1. CASE first
    <3>1. calls[h].read = Chat!Shown
      BY <1>5, <1>6, <1>7, <2>1 DEF ChatCallIsSound, ChatEarly
    <3>2. CASE calls[h].fresh
      <4>1. Chat!Shown' = <<0, 0>>
        BY <1>10, <2>1, <3>2 DEF Chat!Shown
      <4>2. QED
        BY <2>1, <3>2, <4>1 DEF WillRead
    <3>3. CASE ~calls[h].fresh
      <4>1. Chat!Shown' = Chat!Shown
        BY <1>5, <1>10, <3>3 DEF Chat!Shown
      <4>2. QED
        BY <3>1, <3>3, <4>1 DEF WillRead
    <3>4. QED
      BY <3>2, <3>3
  <2>2. CASE ~first
    <3>1. Chat!Shown' = Chat!Shown
      BY <1>5, <1>10, <2>2 DEF Chat!Shown
    <3>2. WillRead(h) = Chat!Shown
      BY <1>1, <1>5, <1>6, <1>7, <2>2 DEF ChatCallIsSound, ChatEarly
    <3>3. QED
      BY <3>1, <3>2
  <2>3. QED
    BY <2>1, <2>2
<1> HIDE DEF first
<1>16. ChatShape'
  <2>1. session'.current <= Len(messages')
    BY <1>0, <1>10, <1>13
  <2>2. QED
    BY <1>5, <1>9, <1>10, <1>11, <1>12, <1>13, <2>1 DEF ChatInv, ChatShape
<1>17. ChatCounted'
  <2>1. session.version <= 2 * chatBounds.runs + chatBounds.changes /\ Len(messages) <= 2 * chatBounds.runs
    BY DEF ChatInv, ChatCounted
  <2>2. session'.version < 2 * chatBounds'.runs + chatBounds'.changes /\ Len(messages') < 2 * chatBounds'.runs
    <3>1. PICK R \in Nat, C \in Nat, n \in Nat, s \in Nat :
            R = chatBounds.runs /\ C = chatBounds.changes /\ n = Len(messages) /\ s = session.version
      BY <1>0
    <3>2. s <= 2 * R + C /\ n <= 2 * R /\ t = R + 1 /\ v <= s + 1 /\ Len(messages') <= n + 1 /\ Len(messages') \in Nat
      BY <1>3, <1>8, <1>13, <2>1, <3>1
    <3>3. v < 2 * t + C /\ Len(messages') < 2 * t
      BY <3>2
    <3>4. QED
      BY <1>9, <1>10, <3>1, <3>3
  <2>3. session'.version \in Nat /\ Len(messages') \in Nat /\ chatBounds'.runs \in Nat /\ chatBounds'.changes \in Nat
    BY <1>0, <1>9, <1>10, <1>13
  <2>4. QED
    BY <2>2, <2>3 DEF ChatCounted
<1>18. \A q \in ChatRequests : TurnIsSound(q) /\ runs[q] \in TurnForm /\ runs[q].token # t
  BY <1>0, <1>3 DEF ChatInv, TurnIsSound, TurnForm
<1>19. TurnsDiffer'
  <2>1. \A q \in ChatRequests \ {r} : ~Chat!Pending(q)' /\ runs'[q].token = runs[q].token /\ runs'[q].token # t
    BY <1>7, <1>11, <1>18 DEF Chat!Pending
  <2>2. ASSUME NEW q \in ChatRequests, NEW p \in ChatRequests, q # p
        PROVE  (runs'[q].token = runs'[p].token => runs'[q].token = 0) /\ ~(Chat!Pending(q)' /\ Chat!Pending(p)')
    <3>1. CASE q # r /\ p # r
      BY <2>1, <2>2, <3>1 DEF ChatInv, TurnsDiffer
    <3>2. CASE q = r \/ p = r
      BY <1>11, <2>1, <2>2, <3>2
    <3>3. QED
      BY <3>1, <3>2
  <2>3. QED
    BY <2>2 DEF TurnsDiffer
<1>20. ASSUME NEW q \in ChatRequests
       PROVE  TurnIsSound(q)'
  <2>1. CASE q = r
    <3>1. AsksLast(r)'
      <4>1. CASE first
        BY <1>0, <1>13, <1>14, <4>1 DEF AsksLast
      <4>2. CASE ~first
        <5>1. AsksLast(r)
          BY <1>6, <1>7, <4>2 DEF TurnIsSound
        <5>2. Len(messages) \in 1..Len(messages)
          BY <1>0, <5>1 DEF AsksLast
        <5>3. QED
          BY <1>13, <4>2, <5>1, <5>2 DEF AsksLast
      <4>3. QED
        BY <4>1, <4>2
    <3>2. QED
      BY <1>5, <1>9, <1>10, <1>11, <2>1, <3>1 DEF TurnIsSound
  <2>2. CASE q # r
    <3>1. TurnIsSound(q) /\ runs'[q] = runs[q] /\ runs[q] \in TurnForm
      BY <1>11, <1>18, <2>2
    <3>2. runs'[q].token <= chatBounds'.runs /\ runs'[q].version <= session'.version
      BY <1>0, <1>8, <1>9, <1>10, <3>1 DEF TurnIsSound, TurnForm
    <3>3. (runs'[q].status \in {"pending", "failed"} /\ runs'[q].version = session'.version) => AsksLast(q)'
      <4>1. CASE first
        BY <1>0, <1>8, <1>10, <3>1, <4>1 DEF TurnIsSound, TurnForm
      <4>2. CASE ~first
        <5>1. ASSUME AsksLast(q)
              PROVE  AsksLast(q)'
          <6>1. Len(messages) \in 1..Len(messages)
            BY <1>0, <5>1 DEF AsksLast
          <6>2. QED
            BY <1>13, <4>2, <5>1, <6>1 DEF AsksLast
        <5>2. QED
          BY <1>8, <1>10, <3>1, <4>2, <5>1 DEF TurnIsSound
      <4>3. QED
        BY <4>1, <4>2
    <3>4. QED
      <4>1. runs[q].status = "pending" => runs[q].token # 0 /\ runs[q].token \notin fenced'
        BY <1>5, <3>1 DEF TurnIsSound
      <4>2. QED
        BY <3>1, <3>2, <3>3, <4>1 DEF TurnIsSound
  <2>3. QED
    BY <2>1, <2>2
<1>21. \A i \in 1..Len(messages) : MessageIsSound(i) /\ messages[i] \in MessageForm /\ messages[i].request \in ChatRequests
  <2>1. \A i \in 1..Len(messages) : messages[i] \in MessageForm
    BY <1>0
  <2>2. QED
    BY <2>1 DEF ChatInv, MessageForm
<1>22. ASSUME NEW i \in 1..Len(messages), messages[i].request = r
       PROVE  messages[i].role = "user" /\ ~first
  <2>1. MessageIsSound(i) /\ messages[i] \in MessageForm
    BY <1>21
  <2>2. messages[i].role \in {"user", "assistant"}
    BY <2>1 DEF MessageForm
  <2>3. QED
    BY <1>7, <1>22, <2>1, <2>2 DEF MessageIsSound, first
<1>23. ASSUME NEW i \in 1..Len(messages')
       PROVE  MessageIsSound(i)'
  <2>1. CASE i \in 1..Len(messages)
    <3>1. messages'[i] = messages[i] /\ MessageIsSound(i) /\ messages[i].request \in ChatRequests /\ messages[i].token \in Nat
      BY <1>13, <1>21, <2>1 DEF MessageForm
    <3>2. messages[i].token <= chatBounds'.runs /\ messages[i].token # t
      BY <1>0, <1>9, <3>1 DEF MessageIsSound
    <3>3. /\ runs'[messages[i].request].status # "none"
          /\ messages[i].role = "assistant" => runs'[messages[i].request].status = "complete"
      BY <1>11, <1>22, <2>1, <3>1 DEF MessageIsSound
    <3>4. \A q \in ChatRequests : runs'[q].status = "pending" => messages[i].token # runs'[q].token
      BY <1>11, <3>1, <3>2 DEF MessageIsSound
    <3>5. QED
      BY <1>5, <3>1, <3>2, <3>3, <3>4 DEF MessageIsSound
  <2>2. CASE i \notin 1..Len(messages)
    <3>1. first /\ i = Len(messages) + 1
      BY <1>0, <1>13, <2>2
    <3>2. messages'[i] = last
      BY <1>13, <3>1
    <3>3. 0 <= chatBounds'.runs /\ 0 \notin fenced
      BY <1>0, <1>9
    <3>4. \A q \in ChatRequests : runs'[q].status = "pending" => 0 # runs'[q].token
      <4>1. \A q \in ChatRequests \ {r} : runs[q].status = "pending" => 0 # runs[q].token
        BY <1>18 DEF TurnIsSound
      <4>2. QED
        BY <1>9, <1>11, <4>1
    <3>5. QED
      BY <1>5, <1>6, <1>11, <1>14, <3>2, <3>3, <3>4 DEF MessageIsSound
  <2>3. QED
    BY <2>1, <2>2
<1>24. Chat!ChatHistory'
  <2>1. \A i \in 1..Len(messages') : i \in 1..Len(messages) \/ (first /\ i = Len(messages) + 1 /\ messages'[i] = last)
    BY <1>0, <1>13
  <2>2. ASSUME NEW i \in 1..Len(messages'), messages'[i].role = "assistant"
        PROVE  i > 1 /\ messages'[i - 1].role = "user" /\ messages'[i - 1].request = messages'[i].request
    <3>1. i \in 1..Len(messages)
      BY <1>14, <2>1, <2>2
    <3>2. i > 1 /\ messages[i - 1].role = "user" /\ messages[i - 1].request = messages[i].request
      BY <1>13, <2>2, <3>1 DEF ChatInv, Chat!ChatHistory
    <3>3. i - 1 \in 1..Len(messages)
      BY <1>0, <3>1, <3>2
    <3>4. QED
      BY <1>13, <3>1, <3>2, <3>3
  <2>3. ASSUME NEW i \in 1..Len(messages'), NEW j \in 1..Len(messages'),
               messages'[i].role = messages'[j].role, messages'[i].request = messages'[j].request
        PROVE  i = j
    <3>1. CASE i \in 1..Len(messages) /\ j \in 1..Len(messages)
      BY <1>13, <2>3, <3>1 DEF ChatInv, Chat!ChatHistory
    <3>2. CASE i \notin 1..Len(messages) \/ j \notin 1..Len(messages)
      BY <1>13, <1>14, <1>22, <2>1, <2>3, <3>2
    <3>3. QED
      BY <3>1, <3>2
  <2>4. QED
    BY <2>2, <2>3 DEF Chat!ChatHistory
<1>25. \A g \in ChatHandlers : ChatCallIsSound(g) /\ calls[g] \in ChatCallForm
  BY <1>0 DEF ChatInv
<1>26. ChatCallIsSound(h)'
  <2>1. calls'[h].asked <= session'.version /\ calls'[h].version <= session'.version /\ calls'[h].token <= chatBounds'.runs
    BY <1>0, <1>8, <1>9, <1>10, <1>12, <1>25 DEF ChatCallIsSound, ChatCallForm
  <2>2. QED
    BY <1>6, <1>9, <1>11, <1>12, <1>15, <2>1 DEF ChatCallIsSound, ChatEarly
<1>27. ASSUME NEW g \in ChatHandlers, g # h
       PROVE  ChatCallIsSound(g)'
  <2>1. ChatCallIsSound(g) /\ calls[g] \in ChatCallForm /\ calls'[g] = calls[g]
    BY <1>12, <1>25, <1>27
  <2>2. /\ calls[g].asked \in Int /\ calls[g].version \in Nat /\ calls[g].token \in Nat
        /\ calls[g].asked <= session.version /\ calls[g].version <= session.version /\ calls[g].token <= chatBounds.runs
        /\ calls[g].pc # "idle" => calls[g].request \in ChatRequests
    BY <2>1 DEF ChatCallIsSound, ChatCallForm
  <2>3. calls[g].asked <= v /\ calls[g].version <= v /\ calls[g].token <= t /\ calls[g].token # t
    BY <1>0, <1>8, <1>9, <2>2
  <2>4. calls[g].pc \in ChatLate \cup {"fail"} =>
          /\ calls[g].token # 0
          /\ runs'[calls[g].request].token = calls[g].token => runs'[calls[g].request].version = calls[g].version
    <3>1. calls[g].pc \in ChatLate \cup {"fail"} => calls[g].request \in ChatRequests
      BY <2>2 DEF ChatLate
    <3>2. QED
      BY <1>11, <2>1, <2>3, <3>1 DEF ChatCallIsSound
  <2>5. v = calls[g].version \/ v = calls[g].asked => ~first /\ Chat!Shown' = Chat!Shown /\ v = session.version
    BY <1>0, <1>8, <1>15, <2>2
  <2>6. (calls[g].pc \in ChatLate /\ v = calls[g].version) => calls[g].read = Chat!Shown'
    BY <2>1, <2>5 DEF ChatCallIsSound
  <2>7. (calls[g].pc \in ChatEarly /\ v = calls[g].asked) => calls[g].read = Chat!Shown'
    BY <2>1, <2>5 DEF ChatCallIsSound
  <2>8. ASSUME calls[g].pc \in ChatEarly, runs'[calls[g].request].status # "none", v = runs'[calls[g].request].version
        PROVE  WillRead(g) = Chat!Shown'
    <3>1. PICK q \in ChatRequests : q = calls[g].request /\ calls[g].pc # "idle"
      BY <2>2, <2>8 DEF ChatEarly
    <3>2. CASE first
      <4>1. q = r
        <5>1. runs[q].version \in Nat /\ runs[q].version <= session.version
          BY <1>18 DEF TurnIsSound, TurnForm
        <5>2. runs[q].version # v
          BY <1>0, <1>8, <3>2, <5>1
        <5>3. QED
          BY <1>11, <2>8, <3>1, <5>2
      <4>2. calls[g].asked = calls[h].asked /\ calls[g].fresh = calls[h].fresh
        <5>1. ChatAgreed
          BY DEF ChatInv
        <5>2. calls[h].pc # "idle" /\ runs[calls[h].request].status = "none" /\ calls[h].asked = session.version
          BY <1>1, <1>5, <1>7, <3>2 DEF first
        <5>3. QED
          BY <1>1, <3>1, <4>1, <5>1, <5>2 DEF ChatAgreed
      <4>3. calls[g].read = Chat!Shown /\ calls[h].read = Chat!Shown
        BY <1>5, <1>7, <1>25, <2>8, <3>2, <4>2 DEF ChatCallIsSound, ChatEarly
      <4>4. WillRead(g) = WillRead(h)
        BY <4>2, <4>3 DEF WillRead
      <4>5. QED
        BY <1>15, <4>4
    <3>3. CASE ~first
      <4>1. runs[q].status # "none" /\ session.version = runs[q].version
        BY <1>7, <1>8, <1>11, <2>8, <3>1, <3>3 DEF first
      <4>2. WillRead(g) = Chat!Shown
        BY <2>1, <2>8, <3>1, <4>1 DEF ChatCallIsSound
      <4>3. QED
        BY <1>15, <3>3, <4>2
    <3>4. QED
      BY <3>2, <3>3
  <2>9. WillRead(g)' = WillRead(g)
    BY <2>1 DEF WillRead
  <2>10. QED
    BY <1>9, <1>10, <2>1, <2>2, <2>3, <2>4, <2>6, <2>7, <2>8, <2>9 DEF ChatCallIsSound
<1>28. ChatAgreed'
  <2>1. ASSUME NEW g \in ChatHandlers, NEW k \in ChatHandlers, calls'[g].pc # "idle", calls'[k].pc # "idle",
               calls'[g].request = calls'[k].request, runs'[calls'[g].request].status = "none",
               calls'[g].asked = session'.version
        PROVE  calls'[k].asked = calls'[g].asked /\ calls'[k].fresh = calls'[g].fresh
    <3>1. ASSUME NEW x \in ChatHandlers
          PROVE  /\ calls'[x].asked = calls[x].asked /\ calls'[x].fresh = calls[x].fresh
                 /\ calls'[x].request = calls[x].request /\ (calls'[x].pc # "idle" => calls[x].pc # "idle")
      BY <1>1, <1>5, <1>12
    <3>2. calls[g].asked <= session.version /\ calls[g].asked \in Int /\ calls[g].request \in ChatRequests
      BY <1>25, <2>1, <3>1 DEF ChatCallIsSound, ChatCallForm
    <3>3. ~first /\ calls[g].asked = session.version
      BY <1>0, <1>8, <1>10, <2>1, <3>1, <3>2
    <3>4. runs[calls[g].request].status = "none"
      BY <1>11, <2>1, <3>1, <3>2
    <3>5. ChatAgreed
      BY DEF ChatInv
    <3>6. QED
      BY <2>1, <3>1, <3>3, <3>4, <3>5 DEF ChatAgreed
  <2>2. QED
    BY <2>1 DEF ChatAgreed
<1>29. QED
  <2>1. \A g \in ChatHandlers : ChatCallIsSound(g)'
    BY <1>26, <1>27
  <2>2. QED
    BY <1>16, <1>17, <1>19, <1>20, <1>23, <1>24, <1>28, <2>1 DEF ChatInv

LEMMA ChatStep == ASSUME Chat!ChatAssumption, ChatInv, [Chat!Next]_(Chat!vars) PROVE ChatInv'
<1>1. CASE UNCHANGED Chat!vars
  <2>1. /\ UNCHANGED <<session, messages, runs, registry, calls, stops, fenced, library, chatBounds>>
        /\ Chat!Shown' = Chat!Shown /\ TurnsOnlyEnd /\ \A h \in ChatHandlers : ChatCallMoved(h)
    BY <1>1 DEF Chat!vars, Chat!Shown, TurnsOnlyEnd, ChatCallMoved
  <2>2. /\ ChatShape /\ chatBounds.changes >= chatBounds.changes
    BY DEF ChatInv, ChatShape, ChatBoundsForm
  <2>3. QED
    BY <2>1, <2>2, ChatSettles DEF ChatShape
<1>2. ASSUME NEW h \in ChatHandlers, NEW r \in ChatRequests, Chat!Ask(h, r)
      PROVE  ChatInv'
  <2>1. session.version \in Nat
    BY DEF ChatInv, ChatShape
  <2>2. PICK a \in {session.version, session.version - 1}, f \in BOOLEAN :
          /\ Chat!Read(h, r, a, f)
          /\ \A g \in ChatHandlers : calls[g].request = r => calls[g].asked = a /\ calls[g].fresh = f
    BY <1>2 DEF Chat!Ask
  <2>3. a \in Int /\ a <= session.version
    BY <2>1
  <2>4. runs[r].status = "none"
    BY <1>2 DEF Chat!Ask
  <2>5. QED
    BY <2>2, <2>3, <2>4, ChatReads
<1>3. ASSUME NEW h \in ChatHandlers, NEW r \in ChatRequests, Chat!Retry(h, r)
      PROVE  ChatInv'
  <2>1. session.version \in Nat /\ runs[r].version \in Nat /\ runs[r].version <= session.version
    BY DEF ChatInv, ChatShape, TurnIsSound, TurnForm
  <2>2. PICK a \in Int : a = runs[r].version - 1 /\ a <= session.version
    BY <2>1
  <2>3. runs[r].status # "none" /\ Chat!Read(h, r, a, FALSE)
    BY <1>3, <2>2 DEF Chat!Retry
  <2>4. QED
    BY <2>2, <2>3, ChatReads
<1>4. ASSUME NEW h \in ChatHandlers, Chat!Handle(h)
      PROVE  ChatInv'
  BY <1>4, ChatMoves, ChatBegins, ChatFinishes DEF Chat!Handle
<1>5. CASE Chat!Next
  BY <1>2, <1>3, <1>4, <1>5, ChatStops, ChatChanges, ChatDeletes DEF Chat!Next
<1>6. QED
  BY <1>1, <1>5

LEMMA ChatSafe ==
  ASSUME Chat!ChatAssumption, ChatInv
  PROVE  Chat!TypeOK /\ Chat!ChatHistory /\ Chat!OneTurn /\ Chat!StoppedStaysSilent /\ Chat!ReadersAreCurrent
<1>1. Chat!ChatHistory /\ Chat!StoppedStaysSilent /\ Chat!ReadersAreCurrent
  BY DEF ChatInv, MessageIsSound, Chat!StoppedStaysSilent, Chat!ReadersAreCurrent
<1>2. Chat!OneTurn
  <2>1. CASE \A r \in ChatRequests : ~Chat!Pending(r)
    <3>1. {r \in ChatRequests : Chat!Pending(r)} = {}
      BY <2>1
    <3>2. QED
      BY <3>1, FS_EmptySet, SameCount DEF Chat!OneTurn
  <2>2. ASSUME NEW q \in ChatRequests, Chat!Pending(q)
        PROVE  Chat!OneTurn
    <3>1. {r \in ChatRequests : Chat!Pending(r)} = {q}
      BY <2>2 DEF ChatInv, TurnsDiffer
    <3>2. QED
      <4>1. Cardinality({q}) = 1
        BY FS_Singleton
      <4>2. QED
        BY <3>1, <4>1, SameCount DEF Chat!OneTurn
  <2>3. QED
    BY <2>1, <2>2
<1>3. Chat!TypeOK
  <2>1. /\ session \in [here : BOOLEAN, version : Nat, current : Nat] /\ session.current <= Len(messages)
        /\ messages \in Seq(MessageForm) /\ runs \in [ChatRequests -> TurnForm] /\ calls \in [ChatHandlers -> ChatCallForm]
        /\ registry \in [ChatRequests -> {"none", "running", "stopping", "marker"}]
        /\ stops \subseteq ChatRequests /\ fenced \subseteq 1..chatBounds.runs /\ chatBounds \in ChatBoundsForm
    BY DEF ChatInv, ChatShape
  <2>2. session.version \in 0..(2 * MaxRuns + MaxChatChanges)
    <3>1. session.version <= 2 * chatBounds.runs + chatBounds.changes /\ session.version \in Nat
      BY <2>1 DEF ChatInv, ChatCounted
    <3>2. chatBounds.runs \in 0..MaxRuns /\ chatBounds.changes \in 0..MaxChatChanges /\ MaxRuns \in Nat /\ MaxChatChanges \in Nat
      BY <2>1 DEF ChatBoundsForm, Chat!ChatAssumption
    <3>3. QED
      BY <3>1, <3>2
  <2>3. session.current \in 0..Len(messages) /\ \A i \in 1..Len(messages) : messages[i].role \in {"user", "assistant"}
    <3>1. \A i \in 1..Len(messages) : messages[i] \in MessageForm
      BY <2>1
    <3>2. \A i \in 1..Len(messages) : messages[i].role \in {"user", "assistant"}
      BY <3>1 DEF MessageForm
    <3>3. session.current \in Nat /\ Len(messages) \in Nat
      BY <2>1
    <3>4. QED
      BY <2>1, <3>2, <3>3
  <2>4. ASSUME NEW r \in ChatRequests
        PROVE  /\ runs[r].status \in {"none", "pending", "complete", "failed"}
               /\ runs[r].token \in 0..chatBounds.runs /\ runs[r].version \in 0..session.version
               /\ registry[r] \in {"none", "running", "stopping", "marker"}
    BY <2>1 DEF ChatInv, TurnIsSound, TurnForm, ChatBoundsForm
  <2>5. ASSUME NEW h \in ChatHandlers
        PROVE  /\ calls[h].pc \in {"idle", "replay", "register", "begin", "remember", "work", "finish", "fail", "release"}
               /\ calls[h].pc \in {"remember", "work", "finish", "fail"} => calls[h].token # 0
    BY <2>1 DEF ChatInv, ChatCallIsSound, ChatCallForm, ChatEarly, ChatLate
  <2>6. QED
    BY <2>1, <2>2, <2>3, <2>4, <2>5 DEF Chat!TypeOK
<1>4. QED
  BY <1>1, <1>2, <1>3
-----------------------------------------------------------------------------
(* The leased results of a mail (AIResults) *)

CallSteps == {"idle", "hash", "look", "claim", "wait", "work", "write"}
HashForm == [trigger : Nat, history : Nat]
CallerForm == [pc : CallSteps, regenerate : BOOLEAN, message : Nat, since : Nat,
               hash : HashForm, token : Nat, read : Nat]
AnswerForm == [text : Nat, stale : BOOLEAN, source : HashForm, message : Nat, since : Nat]
RowForm == [status : {"none", "generating", "ready", "failed"}, token : Nat, live : BOOLEAN,
            text : Nat, source : HashForm]

ResultShape ==
  /\ kind \in Results!Kinds /\ row \in RowForm /\ mail \in HashForm
  /\ callers \in [Callers -> CallerForm] /\ answers \in [Callers -> AnswerForm]
  /\ renewed \in BOOLEAN /\ bounds \in [asks : Nat, claims : Nat, changes : Nat, crashes : Nat]

\* A lease is newer than the text it may replace, and replaces one only for a regeneration.
Leased ==
  /\ row.token <= bounds.claims /\ row.text <= bounds.claims
  /\ row.status = "generating" <=> row.token # 0
  /\ row.token # 0 => row.token > row.text /\ (row.text # 0 => renewed)
  /\ row.live => row.token # 0
  /\ row.status = "ready" => row.text # 0
  /\ row.status \in {"none", "failed"} => row.text = 0

\* A caller that generates holds a lease, and a finished analysis has read what it was asked about.
Working(c) ==
  /\ callers[c].pc \in {"work", "write"} => callers[c].token # 0
  /\ callers[c].pc # "idle" => callers[c].since \in 1..mail.history
  /\ callers[c].pc = "write" /\ kind = "summary" => callers[c].read >= callers[c].since

\* A source hash that names older mail names no older state of it than the caller asked about.
Hashed(c) ==
  callers[c].pc \in {"look", "claim", "wait"} =>
    /\ callers[c].hash.trigger = callers[c].message
    /\ callers[c].hash.history = 0 \/ callers[c].hash.history >= callers[c].since

\* What a caller was told is current was made from the mail it asked about.
Told(c) ==
  answers[c].text # 0 /\ ~answers[c].stale /\ kind = "summary" =>
    /\ answers[c].source.trigger = answers[c].message
    /\ answers[c].source.history >= answers[c].since

ResultInv ==
  /\ ResultShape /\ Leased
  /\ mail.history >= 1
  /\ kind = "summary" /\ row.text # 0 => row.source.history >= 1
  /\ \A c \in Callers : Working(c) /\ Hashed(c) /\ Told(c)

LEMMA ResultInit == Results!ResultsAssumption /\ Results!Init => ResultInv
<1> SUFFICES ASSUME Results!ResultsAssumption, Results!Init
             PROVE  ResultInv
  OBVIOUS
<1>1. Results!NoHash \in HashForm /\ Results!NoCall \in CallerForm /\ Results!NoAnswer \in AnswerForm /\ Results!Empty \in RowForm
  BY DEF Results!NoHash, Results!NoCall, Results!NoAnswer, Results!Empty, HashForm, CallerForm, AnswerForm, RowForm, CallSteps
<1>2. ResultShape
  BY <1>1 DEF Results!Init, ResultShape, HashForm
<1>3. Leased
  BY DEF Results!Init, Leased, Results!Empty
<1>4. \A c \in Callers : callers[c].pc = "idle" /\ answers[c].text = 0
  BY DEF Results!Init, Results!NoCall, Results!NoAnswer
<1>5. \A c \in Callers : Working(c) /\ Hashed(c) /\ Told(c)
  BY <1>4 DEF Working, Hashed, Told
<1>6. QED
  BY <1>2, <1>3, <1>5 DEF ResultInv, Results!Init, Results!Empty

\* A step that leaves the row and the mail alone concerns its caller only.
LEMMA OnlyItsCaller ==
  ASSUME ResultInv, NEW c \in Callers, UNCHANGED <<kind, row, mail, renewed, bounds>>,
         callers' \in [Callers -> CallerForm], answers' \in [Callers -> AnswerForm],
         \A o \in Callers \ {c} : callers'[o] = callers[o] /\ answers'[o] = answers[o],
         Working(c)', Hashed(c)', Told(c)'
  PROVE  ResultInv'
<1>1. ResultShape'
  BY DEF ResultInv, ResultShape
<1>2. Leased'
  BY DEF ResultInv, Leased
<1>4. \A o \in Callers : Working(o)' /\ Hashed(o)' /\ Told(o)'
  BY DEF ResultInv, Working, Hashed, Told
<1>5. QED
  BY <1>1, <1>2, <1>4 DEF ResultInv

\* A caller that goes on.
LEMMA CallerMoved ==
  ASSUME ResultInv, NEW c \in Callers, NEW s \in CallSteps, Results!Move(c, s)
  PROVE  /\ callers' \in [Callers -> CallerForm]
         /\ \A o \in Callers \ {c} : callers'[o] = callers[o]
         /\ callers'[c].pc = s /\ callers'[c].message = callers[c].message
         /\ callers'[c].since = callers[c].since /\ callers'[c].hash = callers[c].hash
         /\ callers'[c].token = callers[c].token /\ callers'[c].read = callers[c].read
BY DEF ResultInv, ResultShape, Results!Move, CallerForm

\* A caller that is told something is done.
LEMMA CallerAnswered ==
  ASSUME ResultInv, NEW c \in Callers, NEW text \in Nat, NEW stale \in BOOLEAN, NEW source \in HashForm,
         Results!Answer(c, text, stale, source)
  PROVE  /\ callers' \in [Callers -> CallerForm] /\ answers' \in [Callers -> AnswerForm]
         /\ \A o \in Callers \ {c} : callers'[o] = callers[o] /\ answers'[o] = answers[o]
         /\ callers'[c].pc = "idle" /\ answers'[c].text = text /\ answers'[c].stale = stale
         /\ answers'[c].source = source /\ answers'[c].message = callers[c].message
         /\ answers'[c].since = callers[c].since
<1>1. Results!NoCall \in CallerForm /\ Results!NoCall.pc = "idle"
  BY DEF Results!NoCall, Results!NoHash, HashForm, CallerForm, CallSteps
<1>2. callers \in [Callers -> CallerForm] /\ answers \in [Callers -> AnswerForm]
  BY DEF ResultInv, ResultShape
<1> DEFINE a == [text |-> text, stale |-> stale, source |-> source,
                 message |-> callers[c].message, since |-> callers[c].since]
<1>3. a \in AnswerForm
  BY <1>2 DEF AnswerForm, CallerForm
<1>4. callers' = [callers EXCEPT ![c] = Results!NoCall] /\ answers' = [answers EXCEPT ![c] = a]
  BY DEF Results!Answer, Results!Return
<1>5. QED
  BY <1>1, <1>2, <1>3, <1>4

LEMMA CallerErred ==
  ASSUME ResultInv, NEW c \in Callers, Results!Error(c)
  PROVE  /\ callers' \in [Callers -> CallerForm] /\ answers' \in [Callers -> AnswerForm]
         /\ \A o \in Callers \ {c} : callers'[o] = callers[o] /\ answers'[o] = answers[o]
         /\ callers'[c].pc = "idle" /\ answers'[c].text = 0
<1>1. Results!NoCall \in CallerForm /\ Results!NoCall.pc = "idle"
  BY DEF Results!NoCall, Results!NoHash, HashForm, CallerForm, CallSteps
<1>2. Results!NoAnswer \in AnswerForm /\ Results!NoAnswer.text = 0
  BY DEF Results!NoAnswer, Results!NoHash, HashForm, AnswerForm
<1>3. QED
  BY <1>1, <1>2 DEF ResultInv, ResultShape, Results!Error, Results!Return

\* The steps of a caller that read the row.
LEMMA ReadingStep ==
  ASSUME ResultInv, NEW c \in Callers,
         Results!Hash(c) \/ Results!Look(c) \/ Results!Refused(c) \/ Results!NotClaimed(c) \/ Results!Poll(c) \/ Results!GiveUp(c) \/ Results!ReadMail(c) \/ Results!Checked(c)
  PROVE  ResultInv'
<1>0. /\ row.text \in Nat /\ row.source \in HashForm /\ mail.history \in Nat /\ mail.history >= 1
      /\ row.status = "ready" => row.text # 0
      /\ kind = "summary" /\ row.text # 0 => row.source.history >= 1
      /\ callers \in [Callers -> CallerForm] /\ callers[c] \in CallerForm /\ callers[c].message \in Nat
      /\ answers \in [Callers -> AnswerForm] /\ Working(c) /\ Hashed(c) /\ Told(c)
  BY DEF ResultInv, ResultShape, Leased, RowForm, HashForm, CallerForm
<1>1. ASSUME NEW s \in {"claim", "wait", "hash"}, Results!Move(c, s), UNCHANGED <<kind, row, mail, renewed, bounds, answers>>,
             callers[c].pc \in {"look", "claim", "wait"}
      PROVE  ResultInv'
  <2>1. s \in CallSteps
    BY DEF CallSteps
  <2>2. Working(c)' /\ Hashed(c)' /\ Told(c)'
    BY <1>0, <1>1, <2>1, CallerMoved DEF Working, Hashed, Told
  <2>3. QED
    BY <1>0, <1>1, <2>1, <2>2, CallerMoved, OnlyItsCaller
<1>2. ASSUME Results!Error(c), UNCHANGED <<kind, row, mail, renewed, bounds>>
      PROVE  ResultInv'
  <2>1. Working(c)' /\ Hashed(c)' /\ Told(c)'
    BY <1>0, <1>2, CallerErred DEF Working, Hashed, Told
  <2>2. QED
    BY <1>0, <1>2, <2>1, CallerErred, OnlyItsCaller
<1>3. ASSUME NEW stale \in BOOLEAN, Results!Answer(c, row.text, stale, row.source), UNCHANGED <<kind, row, mail, renewed, bounds>>,
             row.status = "ready", callers[c].pc \in {"look", "claim", "wait"},
             kind = "summary" /\ ~stale =>
               /\ row.source.trigger = callers[c].message
               /\ row.source.history >= callers[c].since
      PROVE  ResultInv'
  <2>1. Working(c)' /\ Hashed(c)' /\ Told(c)'
    BY <1>0, <1>3, CallerAnswered DEF Working, Hashed, Told
  <2>2. QED
    BY <1>0, <1>3, <2>1, CallerAnswered, OnlyItsCaller
<1>4. Results!Stale(c) \in BOOLEAN
  BY DEF Results!Stale
<1>5. ASSUME callers[c].pc \in {"look", "claim"}, kind = "summary", ~Results!Stale(c), row.status = "ready"
      PROVE  row.source.trigger = callers[c].message /\ row.source.history >= callers[c].since
  BY <1>0, <1>5 DEF Results!Stale, Hashed, CallerForm, HashForm
<1>6. CASE Results!Hash(c)
  <2> DEFINE hash == Results!SourceHash(c)
  <2>1. hash \in HashForm /\ hash.trigger = callers[c].message /\ (hash.history = 0 \/ hash.history = mail.history)
    BY <1>0 DEF Results!SourceHash, HashForm
  <2>2. callers[c].pc = "hash" /\ callers' = [callers EXCEPT ![c].pc = "look", ![c].hash = hash]
        /\ UNCHANGED <<kind, row, mail, renewed, bounds, answers>>
    BY <1>6 DEF Results!Hash
  <2> HIDE DEF hash
  <2>3. callers' \in [Callers -> CallerForm] /\ \A o \in Callers \ {c} : callers'[o] = callers[o]
    BY <1>0, <2>1, <2>2 DEF CallerForm, CallSteps
  <2>4. callers'[c].pc = "look" /\ callers'[c].hash = hash /\ callers'[c].since = callers[c].since
        /\ callers'[c].message = callers[c].message
    BY <1>0, <2>2 DEF CallerForm
  <2>5. Working(c)' /\ Hashed(c)' /\ Told(c)'
    BY <1>0, <2>1, <2>2, <2>4 DEF Working, Hashed, Told
  <2>6. QED
    BY <1>0, <2>2, <2>3, <2>5, OnlyItsCaller
<1>7. CASE Results!Look(c)
  BY <1>1, <1>3, <1>4, <1>5, <1>7 DEF Results!Look
<1>8. CASE Results!Refused(c) \/ Results!GiveUp(c)
  BY <1>2, <1>8 DEF Results!Refused, Results!GiveUp
<1>9. CASE Results!NotClaimed(c)
  BY <1>1, <1>3, <1>4, <1>5, <1>9 DEF Results!NotClaimed
<1>10. CASE Results!Poll(c)
  <2>1. callers[c].pc = "wait" /\ UNCHANGED <<kind, row, mail, renewed, bounds>>
    BY <1>10 DEF Results!Poll
  <2> DEFINE stale == kind = "summary" /\ row.source # Results!SourceHash(c)
  <2>2. CASE row.status = "ready" /\ Results!Answer(c, row.text, stale, row.source)
    <3>1. kind = "summary" /\ ~stale =>
               /\ row.source.trigger = callers[c].message
               /\ row.source.history >= callers[c].since
      BY <1>0, <2>1, <2>2 DEF Results!SourceHash, Working, CallerForm
    <3>2. QED
      BY <1>3, <2>1, <2>2, <3>1
  <2>3. CASE Results!Error(c)
    BY <1>2, <2>1, <2>3
  <2>4. CASE Results!Move(c, "hash") /\ UNCHANGED answers
    BY <1>1, <2>1, <2>4
  <2>5. QED
    BY <1>10, <2>2, <2>3, <2>4, Zenon DEF Results!Poll
<1>11. CASE Results!ReadMail(c)
  <2>1. callers[c].pc = "work" /\ callers' = [callers EXCEPT ![c].read = mail.history]
        /\ UNCHANGED <<kind, row, mail, renewed, bounds, answers>>
    BY <1>11 DEF Results!ReadMail
  <2>2. callers' \in [Callers -> CallerForm] /\ \A o \in Callers \ {c} : callers'[o] = callers[o]
    BY <1>0, <2>1 DEF CallerForm
  <2>3. callers'[c].pc = "work" /\ callers'[c].since = callers[c].since /\ callers'[c].token = callers[c].token
    BY <1>0, <2>1 DEF CallerForm
  <2>4. Working(c)' /\ Hashed(c)' /\ Told(c)'
    BY <1>0, <2>1, <2>3 DEF Working, Hashed, Told
  <2>5. QED
    BY <1>0, <2>1, <2>2, <2>4, OnlyItsCaller
<1>12. CASE Results!Checked(c)
  <2>1. callers[c].pc = "work" /\ Results!Unchanged(c) /\ Results!Move(c, "write") /\ "write" \in CallSteps
        /\ UNCHANGED <<kind, row, mail, renewed, bounds, answers>>
    BY <1>12 DEF Results!Checked, CallSteps
  <2>2. Working(c)' /\ Hashed(c)' /\ Told(c)'
    BY <1>0, <2>1, CallerMoved DEF Working, Hashed, Told, Results!Unchanged, CallerForm
  <2>3. QED
    BY <1>0, <2>1, <2>2, CallerMoved, OnlyItsCaller
<1>13. QED
  BY <1>6, <1>7, <1>8, <1>9, <1>10, <1>11, <1>12

\* The steps of a caller that change the row or take from a bound.
LEMMA WritingStep ==
  ASSUME ResultInv, NEW c \in Callers,
         Results!Claim(c) \/ Results!Complete(c) \/ Results!Fail(c) \/ \E regenerate \in BOOLEAN : Results!Start(c, regenerate)
  PROVE  ResultInv'
<1>0. /\ kind \in Results!Kinds /\ row \in RowForm /\ mail \in HashForm /\ mail.history >= 1 /\ renewed \in BOOLEAN
      /\ bounds \in [asks : Nat, claims : Nat, changes : Nat, crashes : Nat]
      /\ callers \in [Callers -> CallerForm] /\ callers[c] \in CallerForm
      /\ answers \in [Callers -> AnswerForm] /\ Working(c) /\ Hashed(c) /\ Told(c)
  BY DEF ResultInv, ResultShape
<1>1. CASE Results!Claim(c)
  <2> DEFINE lease == bounds.claims + 1
  <2>1. /\ callers[c].pc = "claim" /\ bounds' = [bounds EXCEPT !.claims = @ + 1]
        /\ callers' = [callers EXCEPT ![c].pc = "work", ![c].token = lease]
        /\ renewed' = (renewed \/ callers[c].regenerate)
        /\ UNCHANGED <<kind, mail, answers>>
    BY <1>1 DEF Results!Claim
  <2> DEFINE source == IF row.status = "none" THEN callers[c].hash ELSE row.source
  <2>2. row' = [row EXCEPT !.status = "generating", !.token = lease, !.live = TRUE, !.source = source]
    BY <1>1 DEF Results!Claim
  <2>3. row.status = "generating" \/ callers[c].regenerate \/ row.status \in {"none", "failed"}
    BY <1>0, <1>1 DEF Results!Claim, Results!Claimable, RowForm
  <2>4. source \in HashForm /\ (row.status # "none" => source = row.source) /\ lease \in Nat /\ lease # 0 /\ lease = bounds.claims + 1
    BY <1>0 DEF CallerForm, RowForm
  <2> HIDE DEF source, lease
  <2>5. /\ row'.status = "generating" /\ row'.token = lease /\ row'.text = row.text
        /\ row'.source = source
    BY <1>0, <2>2, <2>4 DEF RowForm
  <2>6. row' \in RowForm
    BY <1>0, <2>2, <2>4 DEF RowForm
  <2>7. bounds' \in [asks : Nat, claims : Nat, changes : Nat, crashes : Nat] /\ bounds'.claims = lease
    BY <1>0, <2>1, <2>4
  <2>8. callers' \in [Callers -> CallerForm]
    BY <1>0, <2>1, <2>4 DEF CallerForm, CallSteps
  <2>9. renewed' \in BOOLEAN
    BY <1>0, <2>1, Zenon DEF CallerForm
  <2>10. ResultShape'
    BY <1>0, <2>1, <2>6, <2>7, <2>8, <2>9 DEF ResultShape
  <2>11. row.text # 0 => renewed'
    BY <2>1, <2>3 DEF ResultInv, Leased
  <2>12. Leased'
    BY <1>0, <2>4, <2>5, <2>7, <2>11 DEF ResultInv, Leased, RowForm
  <2>13. kind = "summary" /\ row'.text # 0 => row'.source.history >= 1
    BY <2>4, <2>5 DEF ResultInv, Leased
  <2>14. callers'[c].pc = "work" /\ callers'[c].since = callers[c].since /\ callers'[c].token # 0
    BY <1>0, <2>1, <2>4 DEF CallerForm
  <2>15. Working(c)' /\ Hashed(c)' /\ Told(c)'
    BY <1>0, <2>1, <2>14 DEF Working, Hashed, Told
  <2>16. \A o \in Callers \ {c} : callers'[o] = callers[o] /\ answers'[o] = answers[o]
    BY <1>0, <2>1
  <2>17. \A o \in Callers : Working(o)' /\ Hashed(o)' /\ Told(o)'
    BY <2>1, <2>15, <2>16 DEF ResultInv, Working, Hashed, Told
  <2>18. QED
    BY <1>0, <2>1, <2>10, <2>12, <2>13, <2>17 DEF ResultInv
<1>2. CASE Results!Complete(c)
  <2> DEFINE source == [trigger |-> callers[c].message, history |-> callers[c].read]
  <2>1. source \in HashForm /\ source.trigger = callers[c].message /\ source.history = callers[c].read
    BY <1>0 DEF CallerForm, HashForm
  <2> HIDE DEF source
  <2>2. callers[c].pc = "write" /\ UNCHANGED <<kind, mail, bounds>> /\ callers[c].token \in Nat /\ callers[c].token # 0
    BY <1>0, <1>2 DEF Results!Complete, Working, CallerForm
  <2>3. CASE Results!Owns(c)
    <3>1. /\ row' = [status |-> "ready", token |-> 0, live |-> FALSE,
                       text |-> callers[c].token, source |-> source]
          /\ Results!Answer(c, callers[c].token, FALSE, source)
      BY <1>2, <2>3, Zenon DEF Results!Complete, source
    <3>2. ~renewed' /\ renewed' \in BOOLEAN
      BY <1>2, <2>3, Zenon DEF Results!Complete
    <3>3. row' \in RowForm /\ row'.status = "ready" /\ row'.token = 0 /\ row'.text = callers[c].token
          /\ row'.source = source
      BY <2>1, <2>2, <3>1 DEF RowForm
    <3>4. ~row'.live
      BY <3>1
    <3>5. callers[c].token <= bounds.claims
      BY <2>3 DEF ResultInv, Leased, Results!Owns
    <3>6. Leased'
      BY <1>0, <2>2, <3>3, <3>4, <3>5 DEF Leased
    <3>7. /\ callers' \in [Callers -> CallerForm] /\ answers' \in [Callers -> AnswerForm]
          /\ \A o \in Callers \ {c} : callers'[o] = callers[o] /\ answers'[o] = answers[o]
          /\ callers'[c].pc = "idle" /\ answers'[c].text = callers[c].token
          /\ answers'[c].source = source /\ answers'[c].message = callers[c].message
          /\ answers'[c].since = callers[c].since
      <4>1. FALSE \in BOOLEAN
        OBVIOUS
      <4>2. QED
        BY <2>1, <2>2, <3>1, <4>1, CallerAnswered
    <3>8. Working(c)' /\ Hashed(c)' /\ Told(c)'
      BY <1>0, <2>1, <2>2, <3>7 DEF Working, Hashed, Told
    <3>9. \A o \in Callers : Working(o)' /\ Hashed(o)' /\ Told(o)'
      BY <2>2, <3>7, <3>8 DEF ResultInv, Working, Hashed, Told
    <3>10. ResultShape'
      BY <1>0, <2>2, <3>2, <3>3, <3>7 DEF ResultShape
    <3>11. kind = "summary" => row'.source.history >= 1
      BY <1>0, <2>1, <2>2, <3>3 DEF Working, CallerForm, HashForm
    <3>12. QED
      BY <1>0, <2>2, <3>6, <3>9, <3>10, <3>11 DEF ResultInv
  <2>4. CASE ~Results!Owns(c)
    <3>1. Results!Error(c) /\ UNCHANGED <<row, renewed>>
      BY <1>2, <2>4 DEF Results!Complete
    <3>2. Working(c)' /\ Hashed(c)' /\ Told(c)'
      BY <3>1, CallerErred DEF Working, Hashed, Told
    <3>3. QED
      BY <2>2, <3>1, <3>2, CallerErred, OnlyItsCaller
  <2>5. QED
    BY <2>3, <2>4
<1>3. CASE Results!Fail(c)
  <2>1. Results!Error(c) /\ UNCHANGED <<kind, mail, renewed, bounds>>
    BY <1>3 DEF Results!Fail
  <2>2. \/ row' = row
        \/ row' = [row EXCEPT !.status = Results!FailedStatus, !.token = 0, !.live = FALSE]
    BY <1>3, Zenon DEF Results!Fail
  <2>3. Working(c)' /\ Hashed(c)' /\ Told(c)'
    BY <2>1, CallerErred DEF Working, Hashed, Told
  <2>4. CASE row' = row
    BY <2>1, <2>3, <2>4, CallerErred, OnlyItsCaller
  <2>5. CASE row' = [row EXCEPT !.status = Results!FailedStatus, !.token = 0, !.live = FALSE]
    <3>1. row' \in RowForm /\ row'.status = Results!FailedStatus /\ row'.token = 0 /\ row'.text = row.text
          /\ row'.source = row.source
      BY <1>0, <2>5 DEF RowForm, Results!FailedStatus
    <3>2. ~row'.live
      BY <1>0, <2>5, Zenon DEF RowForm
    <3>3. Leased'
      BY <1>0, <2>1, <3>1, <3>2 DEF ResultInv, Leased, Results!FailedStatus
    <3>4. ResultShape'
      BY <1>0, <2>1, <3>1, CallerErred DEF ResultShape
    <3>5. \A o \in Callers : Working(o)' /\ Hashed(o)' /\ Told(o)'
      BY <2>1, <2>3, CallerErred DEF ResultInv, Working, Hashed, Told
    <3>6. QED
      BY <1>0, <2>1, <3>1, <3>3, <3>4, <3>5 DEF ResultInv
  <2>6. QED
    BY <2>2, <2>4, <2>5
<1>4. ASSUME NEW regenerate \in BOOLEAN, Results!Start(c, regenerate)
      PROVE  ResultInv'
  <2> DEFINE k == [Results!NoCall EXCEPT !.pc = "hash", !.regenerate = regenerate,
                                 !.message = mail.trigger, !.since = mail.history]
  <2>1. callers' = [callers EXCEPT ![c] = k] /\ bounds' = [bounds EXCEPT !.asks = @ + 1]
        /\ UNCHANGED <<kind, row, mail, answers, renewed>>
    BY <1>4 DEF Results!Start
  <2>2. k \in CallerForm /\ k.pc = "hash" /\ k.since = mail.history
    BY <1>0 DEF Results!NoCall, Results!NoHash, HashForm, CallerForm, CallSteps
  <2> HIDE DEF k
  <2>3. bounds' \in [asks : Nat, claims : Nat, changes : Nat, crashes : Nat] /\ bounds'.claims = bounds.claims
    BY <1>0, <2>1
  <2>4. /\ callers' \in [Callers -> CallerForm] /\ callers'[c] = k
        /\ \A o \in Callers \ {c} : callers'[o] = callers[o] /\ answers'[o] = answers[o]
    BY <1>0, <2>1, <2>2
  <2>5. ResultShape' /\ Leased'
    BY <1>0, <2>1, <2>3, <2>4 DEF ResultInv, ResultShape, Leased
  <2>6. Working(c)' /\ Hashed(c)' /\ Told(c)'
    BY <1>0, <2>1, <2>2, <2>4 DEF Working, Hashed, Told, HashForm
  <2>7. \A o \in Callers : Working(o)' /\ Hashed(o)' /\ Told(o)'
    BY <2>1, <2>4, <2>6 DEF ResultInv, Working, Hashed, Told
  <2>8. QED
    BY <2>1, <2>5, <2>7 DEF ResultInv
<1>5. QED
  BY <1>1, <1>2, <1>3, <1>4

LEMMA ResultStep == ASSUME ResultInv, [Results!Next]_(Results!vars) PROVE ResultInv'
<1>0. /\ kind \in Results!Kinds /\ row \in RowForm /\ mail \in HashForm /\ mail.history >= 1 /\ renewed \in BOOLEAN
      /\ bounds \in [asks : Nat, claims : Nat, changes : Nat, crashes : Nat]
      /\ callers \in [Callers -> CallerForm] /\ answers \in [Callers -> AnswerForm]
  BY DEF ResultInv, ResultShape
<1>1. CASE UNCHANGED Results!vars
  BY <1>1 DEF Results!vars, ResultInv, ResultShape, Leased, Working, Hashed, Told
<1>2. ASSUME NEW c \in Callers, Results!Step(c) \/ \E regenerate \in BOOLEAN : Results!Start(c, regenerate)
      PROVE  ResultInv'
  BY <1>2, ReadingStep, WritingStep DEF Results!Step
<1>3. CASE Results!LeaseExpires
  <2>1. row' = [row EXCEPT !.live = FALSE] /\ UNCHANGED <<kind, mail, callers, answers, renewed, bounds>>
    BY <1>3 DEF Results!LeaseExpires
  <2>2. /\ row' \in RowForm /\ row'.status = row.status /\ row'.token = row.token /\ row'.text = row.text
        /\ row'.source = row.source
    BY <1>0, <2>1 DEF RowForm
  <2>3. ~row'.live
    BY <1>0, <2>1, Zenon DEF RowForm
  <2>4. ResultShape' /\ Leased'
    BY <1>0, <2>1, <2>2, <2>3 DEF ResultInv, ResultShape, Leased
  <2>5. QED
    BY <2>1, <2>2, <2>4 DEF ResultInv, Working, Hashed, Told
<1>4. CASE Results!MailChanges
  <2>1. bounds' = [bounds EXCEPT !.changes = @ + 1] /\ UNCHANGED <<kind, callers, answers, renewed>>
    BY <1>4 DEF Results!MailChanges
  <2>2. bounds' \in [asks : Nat, claims : Nat, changes : Nat, crashes : Nat] /\ bounds'.claims = bounds.claims
    BY <1>0, <2>1
  <2>3. /\ mail' \in HashForm /\ mail'.history \in Nat /\ mail.history \in Nat /\ mail'.history >= mail.history
        /\ row' = row \/ row' = Results!Empty
    BY <1>0, <1>4 DEF Results!MailChanges, HashForm
  <2>4. Results!Empty \in RowForm /\ Results!Empty.text = 0 /\ Results!Empty.status = "none" /\ Results!Empty.token = 0
    BY DEF Results!Empty, RowForm, Results!NoHash, HashForm
  <2>5. ~Results!Empty.live
    BY Zenon DEF Results!Empty
  <2>6. ResultShape'
    BY <1>0, <2>1, <2>2, <2>3, <2>4 DEF ResultShape
  <2>7. Leased'
    BY <1>0, <2>1, <2>2, <2>3, <2>4, <2>5 DEF ResultInv, Leased
  <2>8. \A c \in Callers : Working(c)' /\ Hashed(c)' /\ Told(c)'
    BY <1>0, <2>1, <2>3 DEF ResultInv, Working, Hashed, Told
  <2>9. QED
    BY <1>0, <2>1, <2>3, <2>4, <2>6, <2>7, <2>8 DEF ResultInv
<1>5. CASE Results!Crash
  <2>1. /\ bounds' = [bounds EXCEPT !.crashes = @ + 1] /\ callers' = [c \in Callers |-> Results!NoCall]
        /\ answers' = [c \in Callers |-> Results!NoAnswer] /\ UNCHANGED <<kind, row, mail, renewed>>
    BY <1>5 DEF Results!Crash
  <2>2. bounds' \in [asks : Nat, claims : Nat, changes : Nat, crashes : Nat] /\ bounds'.claims = bounds.claims
    BY <1>0, <2>1
  <2>3. Results!NoCall \in CallerForm /\ Results!NoAnswer \in AnswerForm /\ Results!NoCall.pc = "idle" /\ Results!NoAnswer.text = 0
    BY DEF Results!NoHash, Results!NoCall, Results!NoAnswer, HashForm, CallerForm, AnswerForm, CallSteps
  <2>4. ResultShape' /\ Leased'
    BY <1>0, <2>1, <2>2, <2>3 DEF ResultInv, ResultShape, Leased
  <2>5. \A c \in Callers : Working(c)' /\ Hashed(c)' /\ Told(c)'
    BY <2>1, <2>3 DEF Working, Hashed, Told
  <2>6. QED
    BY <2>1, <2>4, <2>5 DEF ResultInv
<1>6. QED
  BY <1>1, <1>2, <1>3, <1>4, <1>5 DEF Results!Next

LEMMA ResultSafe == ASSUME ResultInv PROVE Results!TypeOK /\ Results!CurrentIsCurrent
<1>1. row \in RowForm /\ bounds.claims \in Nat /\ callers \in [Callers -> CallerForm] /\ kind \in Results!Kinds
  BY DEF ResultInv, ResultShape
<1>2. row.token \in 0..bounds.claims /\ row.text \in 0..bounds.claims /\ row.status \in {"none", "generating", "ready", "failed"}
  BY <1>1 DEF ResultInv, Leased, RowForm
<1>3. \A c \in Callers :
        /\ callers[c].pc \in CallSteps
        /\ callers[c].pc \in {"work", "write"} => callers[c].token # 0
  BY <1>1 DEF ResultInv, Working, CallerForm
<1>4. Results!TypeOK
  BY <1>1, <1>2, <1>3 DEF Results!TypeOK, ResultInv, Leased, CallSteps
<1>5. Results!CurrentIsCurrent
  BY DEF ResultInv, Told, Results!CurrentIsCurrent
<1>6. QED
  BY <1>4, <1>5

\* Only Complete writes a text, and its lease is newer than the text there.
LEMMA TextKept == ASSUME ResultInv, [Results!Next]_(Results!vars) PROVE Results!ResultKept
<1>1. row \in RowForm /\ row.text \in Nat /\ callers \in [Callers -> CallerForm]
  BY DEF ResultInv, ResultShape, RowForm
<1>2. CASE row'.text = row.text
  BY <1>2 DEF Results!ResultKept
<1>3. ASSUME NEW c \in Callers, Results!Complete(c)
      PROVE  Results!ResultKept
  <2>1. CASE Results!Owns(c)
    <3>1. row'.text = callers[c].token /\ row.token = callers[c].token /\ callers[c].token # 0
      BY <1>3, <2>1 DEF Results!Complete, Results!Owns, ResultInv, Working
    <3>2. row.token > row.text /\ (row.text # 0 => renewed)
      BY <3>1 DEF ResultInv, Leased
    <3>3. QED
      BY <3>1, <3>2 DEF Results!ResultKept
  <2>2. CASE ~Results!Owns(c)
    BY <1>3, <2>2 DEF Results!Complete, Results!ResultKept
  <2>3. QED
    BY <2>1, <2>2
<1>4. CASE Results!MailChanges
  BY <1>1, <1>4 DEF Results!MailChanges, Results!ResultKept, ResultInv, ResultShape, HashForm
<1>5. ASSUME NEW c \in Callers, Results!Claim(c) \/ Results!Fail(c)
      PROVE  row'.text = row.text
  BY <1>1, <1>5, Zenon DEF Results!Claim, Results!Fail, RowForm
<1>6. ASSUME NEW c \in Callers,
             Results!Hash(c) \/ Results!Look(c) \/ Results!Refused(c) \/ Results!NotClaimed(c) \/ Results!Poll(c) \/ Results!GiveUp(c) \/ Results!ReadMail(c) \/ Results!Checked(c)
             \/ \E regenerate \in BOOLEAN : Results!Start(c, regenerate)
      PROVE  row'.text = row.text
  BY <1>6 DEF Results!Hash, Results!Look, Results!Refused, Results!NotClaimed, Results!Poll, Results!GiveUp, Results!ReadMail, Results!Checked, Results!Start
<1>7. CASE Results!LeaseExpires \/ Results!Crash \/ UNCHANGED Results!vars
  <2>1. row' = row \/ row' = [row EXCEPT !.live = FALSE]
    BY <1>7 DEF Results!LeaseExpires, Results!Crash, Results!vars
  <2>2. row'.text = row.text
    BY <1>1, <2>1 DEF RowForm
  <2>3. QED
    BY <1>2, <2>2
<1>8. QED
  BY <1>2, <1>3, <1>4, <1>5, <1>6, <1>7, Zenon DEF Results!Next, Results!Step
-----------------------------------------------------------------------------
(* The components together *)

\* What a step of the whole is for each component.
LEMMA StepOfOne ==
  ASSUME [AssistantNext]_assistantVars
  PROVE  /\ [Next]_vars
         /\ [Completion!Next]_(Completion!vars)
         /\ [Chat!Next]_(Chat!vars)
         /\ [Results!Next]_(Results!vars)
         /\ [Config!Next]_(Config!vars)
         /\ [Users!Next]_(Users!vars)
         /\ [Connected!Next]_(Connected!vars)
         /\ [Update!Next]_(Update!vars)
         /\ UNCHANGED working
<1>1. /\ Next \/ UNCHANGED vars
      /\ Completion!Next \/ UNCHANGED completionVars
      /\ Chat!Next \/ UNCHANGED chatVars
      /\ Results!Next \/ UNCHANGED resultVars
      /\ Config!Next \/ UNCHANGED configVars
      /\ Users!Next \/ UNCHANGED userVars
      /\ Connected!Next \/ UNCHANGED connectedVars
      /\ Update!Next \/ UNCHANGED updateVars
      /\ UNCHANGED working
  BY DEF AssistantNext, assistantVars, aiVars, programVars
<1>2. UNCHANGED completionVars => UNCHANGED Completion!vars
  BY DEF completionVars, Completion!vars
<1>3. UNCHANGED resultVars => UNCHANGED Results!vars
  BY DEF resultVars, Results!vars
<1>4. UNCHANGED updateVars => UNCHANGED Update!vars
  BY DEF updateVars, Update!vars, Update!files, Update!process
<1>5. UNCHANGED chatVars => UNCHANGED Chat!vars
  BY DEF chatVars, Chat!vars
<1>6. UNCHANGED configVars => UNCHANGED Config!vars
  BY DEF configVars, Config!vars
<1>7. UNCHANGED userVars => UNCHANGED Users!vars
  BY DEF userVars, Users!vars
<1>8. UNCHANGED connectedVars => UNCHANGED Connected!vars
  BY DEF connectedVars, Connected!vars
<1>9. QED
  BY <1>1, <1>2, <1>3, <1>4, <1>5, <1>6, <1>7, <1>8

\* The invariants of these components.
AIInv == RunInv /\ CompletionInv /\ ChatInv /\ ResultInv

LEMMA AIInvariant == AssistantSpec => []AIInv
<1>1. AssistantInit => AIInv
  BY AssistantAssumption, RunInit, CompletionInit, ChatInit, ResultInit
  DEF AssistantInit, AssistantAssumption, AIInv
<1>2. AIInv /\ [AssistantNext]_assistantVars => AIInv'
  <2> SUFFICES ASSUME AIInv, [AssistantNext]_assistantVars
               PROVE  AIInv'
    OBVIOUS
  <2>1. RunInv' /\ CompletionInv'
    BY AssistantAssumption, RunStep, CompletionStep, StepOfOne DEF AssistantAssumption, AIInv
  <2>2. ChatInv' /\ ResultInv'
    BY AssistantAssumption, ChatStep, ResultStep, StepOfOne DEF AssistantAssumption, AIInv
  <2>3. QED
    BY <2>1, <2>2 DEF AIInv
<1>3. QED
  BY <1>1, <1>2, PTL DEF AssistantSpec

\* The answer of a run is earned (runtime.go): a model gave it within the budgets, with every call
\* answered in order.  And a completion that was streamed is whole (ai_stream.go).
THEOREM AnswersAreEarned == AssistantSpec => []AnswersAreSound
<1>1. AIInv => AnswersAreSound
  BY RunSafe DEF AnswersAreSound, CompletionInv, AIInv
<1>2. QED
  BY <1>1, AIInvariant, PTL

\* However turns, stops, edits and restarts overlap, one turn works at a time, its answer is filed
\* under its question and never after a stop, and a reader's document card is the current one
\* (ai_agent_chat.go, ai_chat_sessions.go).
THEOREM ChatsAreSound == AssistantSpec => []ChatIsSound
<1>1. AIInv => ChatIsSound
  BY AssistantAssumption, ChatSafe DEF ChatIsSound, AssistantAssumption, AIInv
<1>2. QED
  BY <1>1, AIInvariant, PTL

\* A result that is served as current was made from the mail its caller asked about and from no
\* older state of the mailbox than the caller saw (message_summaries.go).
THEOREM ServedIsCurrent == AssistantSpec => []CurrentIsCurrent
<1>1. AIInv => CurrentIsCurrent
  BY ResultSafe DEF CurrentIsCurrent, AIInv
<1>2. QED
  BY <1>1, AIInvariant, PTL

\* A finished result gives way only to a newer one that was asked for, or leaves with its mail,
\* whatever leases expire and whoever finishes late (message_summaries.go).
THEOREM ResultsAreKept == AssistantSpec => ResultKept
<1>1. AIInv /\ [AssistantNext]_assistantVars => [working = "results" => Results!ResultKept]_assistantVars
  BY TextKept, StepOfOne DEF AIInv
<1>2. QED
  BY <1>1, AIInvariant, PTL DEF AssistantSpec, ResultKept

-----------------------------------------------------------------------------
(* The AI settings of an owner (AIConfig) *)

\* The lists, the bindings and the table of skills.
ListsAreSound ==
  /\ models \in Seq(Models) /\ agents \in Seq(Agents)
  /\ default \subseteq Config!ToSet(models) /\ summarizer \subseteq Config!ToSet(agents)
  /\ models = <<>> => default = {}
  /\ models # <<>> => \E m \in Config!ToSet(models) : default = {m}

BindingsAreSound ==
  /\ binding = [t \in Tasks |-> binding[t]]
  /\ \A t \in Tasks : binding[t] # None => binding[t] \in Config!Binding
  /\ turnedOff \subseteq Tasks /\ edits \in 0..MaxEdits /\ selected \in Skills \union {None}

\* Every edit of a skill counts, and the table can be resolved as it is stored.
SkillsAreSound ==
  /\ skills \in UNION {[D -> Config!Skill] : D \in SUBSET Skills}
  /\ \A s \in DOMAIN skills : skills[s].rev <= edits + 1
  /\ Config!ValidGraph(skills, active)

\* What a handler holds: an update is of a skill, and what a run has read is in its catalogue.
HoldsRequest(h) ==
  /\ "op" \in DOMAIN request[h]
  /\ request[h].op = "update" =>
       request[h].skill \in Skills /\ request[h].new \in Config!Skill /\ request[h].read \in Config!Skill
  /\ request[h].op = "run" =>
       /\ "loaded" \in DOMAIN request[h]
       /\ \A p \in request[h].loaded : p = <<p[1], request[h].catalogue[p[1]]>>

RequestsAreSound == request = [h \in ConfigHandlers |-> request[h]] /\ \A h \in ConfigHandlers : HoldsRequest(h)

ConfigInv == ListsAreSound /\ BindingsAreSound /\ SkillsAreSound /\ RequestsAreSound

\* A list without one of its members has the others.
LEMMA RemovedKeepsOthers ==
  ASSUME NEW S, NEW s \in Seq(S), NEW x \in Config!ToSet(s)
  PROVE  /\ Config!Removed(s, x) \in Seq(S)
         /\ \A y \in Config!ToSet(s) : y # x => y \in Config!ToSet(Config!Removed(s, x))
<1>1. PICK k \in DOMAIN s : s[k] = x /\ Config!Removed(s, x) = SubSeq(s, 1, k - 1) \o SubSeq(s, k + 1, Len(s))
  <2>1. \E i \in DOMAIN s : s[i] = x
    BY DEF Config!ToSet
  <2> DEFINE k == CHOOSE i \in DOMAIN s : s[i] = x
  <2>2. k \in DOMAIN s /\ s[k] = x
    BY <2>1
  <2>3. QED
    BY <2>2 DEF Config!Removed, Config!RemoveAt
<1>2. /\ k \in 1..Len(s) /\ Len(s) \in Nat /\ DOMAIN s = 1..Len(s) /\ \A i \in 1..Len(s) : s[i] \in S
  OBVIOUS
<1>3. PICK front : front = SubSeq(s, 1, k - 1)
  OBVIOUS
<1>4. front \in Seq(S) /\ Len(front) = k - 1 /\ \A i \in 1..(k - 1) : front[i] = s[i]
  <2>1. 1 \in Int /\ k - 1 \in Int /\ (\A i \in 1..(k - 1) : s[i] \in S)
    BY <1>2
  <2>2. front \in Seq(S)
    BY <1>3, <2>1, SubSeqProperties
  <2>3. Len(front) = IF 1 <= k - 1 THEN (k - 1) - 1 + 1 ELSE 0
    BY <1>3, <2>1, SubSeqProperties
  <2>4. \A i \in 1..((k - 1) - 1 + 1) : front[i] = s[1 + i - 1]
    BY <1>3, <2>1, SubSeqProperties
  <2>5. QED
    BY <1>2, <2>2, <2>3, <2>4
<1>5. PICK back : back = SubSeq(s, k + 1, Len(s))
  OBVIOUS
<1>6. back \in Seq(S) /\ Len(back) = Len(s) - k /\ \A i \in 1..(Len(s) - k) : back[i] = s[k + i]
  <2>1. k + 1 \in Int /\ Len(s) \in Int /\ (\A i \in (k + 1)..Len(s) : s[i] \in S)
    BY <1>2
  <2>2. back \in Seq(S)
    BY <1>5, <2>1, SubSeqProperties
  <2>3. Len(back) = IF k + 1 <= Len(s) THEN Len(s) - (k + 1) + 1 ELSE 0
    BY <1>5, <2>1, SubSeqProperties
  <2>4. \A i \in 1..(Len(s) - (k + 1) + 1) : back[i] = s[(k + 1) + i - 1]
    BY <1>5, <2>1, SubSeqProperties
  <2>5. Len(s) - (k + 1) + 1 = Len(s) - k /\ \A i \in 1..(Len(s) - k) : (k + 1) + i - 1 = k + i
    BY <1>2
  <2>6. Len(back) = Len(s) - k
    BY <1>2, <2>3
  <2>7. QED
    BY <2>2, <2>4, <2>5, <2>6
<1>7. PICK left : left = front \o back
  OBVIOUS
<1>8. /\ left \in Seq(S) /\ Len(left) = Len(s) - 1 /\ DOMAIN left = 1..(Len(s) - 1)
      /\ \A i \in 1..(Len(s) - 1) : left[i] = IF i <= k - 1 THEN front[i] ELSE back[i - (k - 1)]
  <2>1. left \in Seq(S)
    BY <1>4, <1>6, <1>7, ConcatProperties
  <2>2. Len(left) = Len(front) + Len(back)
    BY <1>4, <1>6, <1>7, ConcatProperties
  <2>3. \A i \in 1..(Len(front) + Len(back)) : left[i] = IF i <= Len(front) THEN front[i] ELSE back[i - Len(front)]
    BY <1>4, <1>6, <1>7, ConcatProperties
  <2>4. Len(front) + Len(back) = Len(s) - 1 /\ Len(front) = k - 1
    BY <1>2, <1>4, <1>6
  <2>5. QED
    BY <2>1, <2>2, <2>3, <2>4
<1>9. ASSUME NEW y \in Config!ToSet(s), y # x
      PROVE  y \in Config!ToSet(left)
  <2>1. PICK i \in 1..Len(s) : s[i] = y
    BY <1>2 DEF Config!ToSet
  <2>2. CASE i < k
    <3>1. i \in 1..(Len(s) - 1) /\ left[i] = y
      BY <1>2, <1>4, <1>8, <2>1, <2>2
    <3>2. QED
      BY <1>8, <3>1 DEF Config!ToSet
  <2>3. CASE i > k
    <3>1. i - 1 \in 1..(Len(s) - 1) /\ ~(i - 1 <= k - 1) /\ (i - 1) - (k - 1) = i - k /\ i - k \in 1..(Len(s) - k)
          /\ k + (i - k) = i
      BY <1>2, <2>1, <2>3
    <3>2. left[i - 1] = y
      BY <1>6, <1>8, <2>1, <3>1
    <3>3. QED
      BY <1>8, <3>1, <3>2 DEF Config!ToSet
  <2>4. QED
    BY <1>1, <1>2, <1>9, <2>1, <2>2, <2>3
<1>10. QED
  BY <1>1, <1>3, <1>5, <1>7, <1>8, <1>9

\* A list with one more member has it and the others.
LEMMA AppendedSet ==
  ASSUME NEW S, NEW s \in Seq(S), NEW x \in S
  PROVE  /\ Append(s, x) \in Seq(S) /\ Append(s, x) # <<>>
         /\ Config!ToSet(Append(s, x)) = Config!ToSet(s) \union {x}
<1>1. PICK more : more = Append(s, x)
  OBVIOUS
<1>2. more \in Seq(S) /\ more # <<>> /\ Len(more) = Len(s) + 1
  BY <1>1, AppendProperties
<1>3. \A i \in 1..Len(s) : more[i] = s[i]
  BY <1>1, AppendProperties
<1>4. more[Len(s) + 1] = x
  BY <1>1, AppendProperties
<1>5. DOMAIN more = 1..(Len(s) + 1) /\ DOMAIN s = 1..Len(s) /\ Len(s) \in Nat
  BY <1>2
<1>6. Config!ToSet(more) = Config!ToSet(s) \union {x}
  BY <1>3, <1>4, <1>5 DEF Config!ToSet
<1>7. QED
  BY <1>1, <1>2, <1>6

\* A set that has a skill and all that its members depend on.
ClosedOver(sk, s, C) == s \in C /\ \A t \in C \intersect DOMAIN sk : sk[t].deps \subseteq C

\* The skills collected are the least such set.
LEMMA CollectedIsLeast ==
  ASSUME NEW sk, \A t \in DOMAIN sk : sk[t].deps \subseteq Skills, NEW s \in Skills
  PROVE  /\ Config!Collected(sk, s) \in SUBSET Skills /\ ClosedOver(sk, s, Config!Collected(sk, s))
         /\ \A D \in SUBSET Config!Collected(sk, s) : ClosedOver(sk, s, D) => D = Config!Collected(sk, s)
<1> DEFINE Least == {x \in Skills : \A D \in SUBSET Skills : ClosedOver(sk, s, D) => x \in D}
<1> DEFINE Holds(C) == /\ s \in C
                       /\ \A t \in C \intersect DOMAIN sk : sk[t].deps \subseteq C
                       /\ \A D \in SUBSET C :
                            (s \in D /\ \A t \in D \intersect DOMAIN sk : sk[t].deps \subseteq D) => D = C
<1>1. ClosedOver(sk, s, Least)
  <2>1. s \in Least
    BY DEF ClosedOver
  <2>2. ASSUME NEW t \in Least \intersect DOMAIN sk, NEW d \in sk[t].deps
        PROVE  d \in Least
    <3>1. d \in Skills
      OBVIOUS
    <3>2. \A D \in SUBSET Skills : ClosedOver(sk, s, D) => d \in D
      BY DEF ClosedOver
    <3>3. QED
      BY <3>1, <3>2
  <2>3. QED
    BY <2>1, <2>2 DEF ClosedOver
<1>2. ASSUME NEW D \in SUBSET Least, ClosedOver(sk, s, D)
      PROVE  D = Least
  <2>1. D \in SUBSET Skills
    OBVIOUS
  <2>2. QED
    BY <1>2, <2>1
<1>3. Least \in SUBSET Skills
  OBVIOUS
<1> HIDE DEF Least
<1>4. Holds(Least)
  BY <1>1, <1>2 DEF ClosedOver
<1>5. \E C \in SUBSET Skills : Holds(C)
  BY <1>3, <1>4
<1>6. Config!Collected(sk, s) = CHOOSE C \in SUBSET Skills : Holds(C)
  BY DEF Config!Collected
<1> HIDE DEF Holds
<1>7. Config!Collected(sk, s) \in SUBSET Skills /\ Holds(Config!Collected(sk, s))
  BY <1>5, <1>6
<1>8. QED
  BY <1>7 DEF Holds, ClosedOver

\* In a table that resolves, a skill whose dependencies are on would resolve if it were on too.
LEMMA WouldResolve ==
  ASSUME NEW sk, NEW D0 \in SUBSET Skills, sk \in [D0 -> Config!Skill], NEW act, Config!ValidGraph(sk, act),
         NEW s \in DOMAIN sk, \A d \in Config!Collected(sk, s) \ {s} : d \in DOMAIN sk => sk[d].on
  PROVE  Config!Resolves([sk EXCEPT ![s].on = TRUE], s, sk[s].kind)
<1>1. /\ DOMAIN sk = D0 /\ s \in Skills
      /\ \A t \in DOMAIN sk : sk[t] \in Config!Skill /\ sk[t].deps \subseteq Skills
      /\ \A t \in DOMAIN sk : \A d \in sk[t].deps : d \in DOMAIN sk /\ sk[d].kind = sk[t].kind
      /\ Config!NoCycle(sk, DOMAIN sk)
  BY DEF Config!ValidGraph, Config!Inspected, Config!Skill
<1>2. PICK on : on = [sk EXCEPT ![s].on = TRUE]
  OBVIOUS
<1>3. /\ DOMAIN on = DOMAIN sk /\ on[s].on = TRUE
      /\ \A t \in DOMAIN sk : on[t].deps = sk[t].deps /\ on[t].kind = sk[t].kind
      /\ \A t \in DOMAIN sk \ {s} : on[t].on = sk[t].on
  BY <1>1, <1>2 DEF Config!Skill
<1>4. \A C : ClosedOver(on, s, C) <=> ClosedOver(sk, s, C)
  BY <1>3 DEF ClosedOver
<1>5. PICK C \in SUBSET Skills : C = Config!Collected(on, s)
  BY <1>1, <1>3, CollectedIsLeast
<1>6. /\ ClosedOver(sk, s, C) /\ \A D \in SUBSET C : ClosedOver(sk, s, D) => D = C
  <2>1. \A t \in DOMAIN on : on[t].deps \subseteq Skills
    BY <1>1, <1>3
  <2>2. /\ ClosedOver(on, s, C) /\ \A D \in SUBSET C : ClosedOver(on, s, D) => D = C
    BY <1>1, <1>5, <2>1, CollectedIsLeast
  <2>3. QED
    BY <1>4, <2>2
<1>7. C = Config!Collected(sk, s)
  <2>1. PICK B \in SUBSET Skills : /\ B = Config!Collected(sk, s) /\ ClosedOver(sk, s, B)
                                   /\ \A D \in SUBSET B : ClosedOver(sk, s, D) => D = B
    BY <1>1, CollectedIsLeast
  <2>2. ClosedOver(sk, s, B \intersect C)
    BY <1>6, <2>1 DEF ClosedOver
  <2>3. B \intersect C = B /\ B \intersect C = C
    BY <1>6, <2>1, <2>2
  <2>4. QED
    BY <2>1, <2>3
<1>8. C \subseteq DOMAIN on
  <2>1. ClosedOver(sk, s, C \intersect DOMAIN sk)
    BY <1>1, <1>6 DEF ClosedOver
  <2>2. QED
    BY <1>3, <1>6, <2>1
<1>9. \A t \in C : on[t].kind = sk[s].kind
  <2> DEFINE D == {t \in C : sk[t].kind = sk[s].kind}
  <2>1. ClosedOver(sk, s, D)
    BY <1>1, <1>6 DEF ClosedOver
  <2>2. D = C
    BY <1>6, <2>1
  <2>3. QED
    BY <1>3, <1>8, <2>2
<1>10. \A t \in C : on[t].on
  BY <1>3, <1>7, <1>8
<1>11. Config!NoCycle(on, C)
  BY <1>1, <1>3, <1>8 DEF Config!NoCycle
<1>12. Config!Resolves(on, s, sk[s].kind)
  BY <1>5, <1>8, <1>9, <1>10, <1>11 DEF Config!Resolves
<1>13. QED
  BY <1>2, <1>12

-----------------------------------------------------------------------------

LEMMA ConfigInit == Config!AIConfigAssumption /\ Config!Init => ConfigInv
<1> SUFFICES ASSUME Config!AIConfigAssumption, Config!Init
             PROVE  ConfigInv
  OBVIOUS
<1>1. ListsAreSound /\ BindingsAreSound
  <2>1. Config!ToSet(<<>>) = {}
    BY DEF Config!ToSet
  <2>2. QED
    BY <2>1 DEF Config!Init, ListsAreSound, BindingsAreSound, Config!AIConfigAssumption
<1>2. \A h \in ConfigHandlers : HoldsRequest(h)
  BY DEF Config!Init, Config!Idle, HoldsRequest
<1>3. RequestsAreSound
  BY <1>2 DEF Config!Init, RequestsAreSound
<1>4. PICK first : first = [deps |-> {}, on |-> TRUE, kind |-> "summary", rev |-> 1]
  OBVIOUS
<1>5. first \in Config!Skill /\ first.deps = {} /\ first.on = TRUE /\ first.kind = "summary" /\ first.rev = 1
  BY <1>4 DEF Config!Skill, Config!Kinds, Config!AIConfigAssumption
<1>6. skills = [s \in {BuiltIn} |-> first] /\ active = BuiltIn /\ edits = 0 /\ BuiltIn \in Skills
  BY <1>4 DEF Config!Init, Config!AIConfigAssumption
<1>7. /\ DOMAIN skills = {BuiltIn} /\ skills[BuiltIn] = first
      /\ skills \in UNION {[D -> Config!Skill] : D \in SUBSET Skills} /\ \A t \in DOMAIN skills : skills[t].deps = {}
  BY <1>5, <1>6
<1>8. ClosedOver(skills, BuiltIn, {BuiltIn})
  BY <1>7 DEF ClosedOver
<1>9. Config!Collected(skills, BuiltIn) = {BuiltIn}
  <2>1. PICK C \in SUBSET Skills : /\ C = Config!Collected(skills, BuiltIn) /\ ClosedOver(skills, BuiltIn, C)
                                   /\ \A D \in SUBSET C : ClosedOver(skills, BuiltIn, D) => D = C
    BY <1>6, <1>7, CollectedIsLeast
  <2>2. {BuiltIn} \in SUBSET C
    BY <2>1 DEF ClosedOver
  <2>3. QED
    BY <1>8, <2>1, <2>2
<1>10. Config!NoCycle(skills, {BuiltIn})
  BY <1>7 DEF Config!NoCycle
<1>11. Config!Resolves(skills, BuiltIn, "summary")
  BY <1>5, <1>7, <1>9, <1>10 DEF Config!Resolves
<1>12. Config!ValidGraph(skills, active)
  BY <1>5, <1>6, <1>7, <1>10, <1>11 DEF Config!ValidGraph, Config!Inspected
<1>13. SkillsAreSound
  BY <1>5, <1>6, <1>7, <1>12 DEF SkillsAreSound
<1>14. QED
  BY <1>1, <1>3, <1>13 DEF ConfigInv

\* A binding that names a deleted row goes with it.
LEMMA Unbinding ==
  ASSUME BindingsAreSound, NEW field, NEW x, binding' = Config!Unbound(field, x), UNCHANGED <<turnedOff, selected>>,
         edits' \in 0..MaxEdits
  PROVE  BindingsAreSound'
<1>1. \A t \in Tasks : binding'[t] = IF binding[t] # None => binding[t][field] = x THEN None ELSE binding[t]
  BY DEF Config!Unbound
<1>2. \A t \in Tasks : binding'[t] = None \/ binding'[t] = binding[t]
  BY <1>1
<1>3. binding' = [t \in Tasks |-> binding'[t]]
  BY <1>1 DEF Config!Unbound
<1>4. QED
  BY <1>2, <1>3 DEF BindingsAreSound

\* An edit of something else.
LEMMA SkillsKept ==
  ASSUME SkillsAreSound, UNCHANGED <<skills, active>>, edits \in 0..MaxEdits, MaxEdits \in Nat,
         edits' \in {edits, edits + 1}
  PROVE  SkillsAreSound'
<1>1. \A s \in DOMAIN skills : skills[s].rev \in 1..(MaxEdits + 1) /\ skills[s].rev <= edits + 1
  BY DEF SkillsAreSound, Config!Skill
<1>2. \A s \in DOMAIN skills : skills[s].rev <= edits' + 1
  BY <1>1
<1>3. QED
  BY <1>2 DEF SkillsAreSound

\* The settings that are changed in one transaction.
LEMMA ModelsChange ==
  ASSUME Config!AIConfigAssumption, ConfigInv, NEW m \in Models, Config!CreateModel(m) \/ Config!SetDefaultModel(m) \/ Config!DeleteModel(m)
  PROVE  ConfigInv'
<1>0. /\ models \in Seq(Models) /\ agents \in Seq(Agents) /\ edits \in 0..MaxEdits /\ MaxEdits \in Nat
      /\ default \subseteq Config!ToSet(models) /\ models = <<>> => default = {}
      /\ models # <<>> => \E x \in Config!ToSet(models) : default = {x}
  BY DEF ConfigInv, ListsAreSound, BindingsAreSound, Config!AIConfigAssumption
<1>1. /\ UNCHANGED <<agents, summarizer, turnedOff, skills, active, selected, request>>
      /\ edits' = edits + 1 /\ edits' \in 0..MaxEdits
  BY <1>0 DEF Config!CreateModel, Config!SetDefaultModel, Config!DeleteModel, Config!Edit, Config!agentVars, Config!bindVars, Config!skillVars
<1>2. SkillsAreSound'
  BY <1>0, <1>1, SkillsKept DEF ConfigInv
<1>3. RequestsAreSound'
  BY <1>1 DEF ConfigInv, RequestsAreSound, HoldsRequest
<1>4. CASE Config!CreateModel(m)
  <2>1. /\ models' = Append(models, m) /\ default' = (IF models = <<>> THEN {m} ELSE default)
        /\ UNCHANGED binding
    BY <1>4 DEF Config!CreateModel, Config!DefaultAfter, Config!bindVars
  <2>2. models' \in Seq(Models) /\ models' # <<>> /\ Config!ToSet(models)' = Config!ToSet(models) \union {m}
    BY <1>0, <2>1, AppendedSet
  <2>3. ListsAreSound'
    BY <1>0, <1>1, <2>1, <2>2 DEF ConfigInv, ListsAreSound
  <2>4. BindingsAreSound'
    BY <1>1, <2>1 DEF ConfigInv, BindingsAreSound
  <2>5. QED
    BY <1>2, <1>3, <2>3, <2>4 DEF ConfigInv
<1>5. CASE Config!SetDefaultModel(m)
  <2>1. UNCHANGED <<models, binding>> /\ default' = {m} /\ m \in Config!ToSet(models)
    BY <1>5 DEF Config!SetDefaultModel, Config!bindVars, Config!Exists
  <2>2. models # <<>>
    BY <2>1 DEF Config!ToSet
  <2>3. ListsAreSound' /\ BindingsAreSound'
    BY <1>1, <2>1, <2>2 DEF ConfigInv, ListsAreSound, BindingsAreSound, Config!ToSet
  <2>4. QED
    BY <1>2, <1>3, <2>3 DEF ConfigInv
<1>6. CASE Config!DeleteModel(m)
  <2>1. PICK left : left = Config!Removed(models, m)
    OBVIOUS
  <2>2. /\ models' = left /\ m \in Config!ToSet(models) /\ binding' = Config!Unbound("model", m)
        /\ default' = IF m \in default THEN Config!Promoted(left) ELSE default
    BY <1>6, <2>1 DEF Config!DeleteModel, Config!Exists
  <2>3. left \in Seq(Models) /\ \A y \in Config!ToSet(models) : y # m => y \in Config!ToSet(left)
    BY <1>0, <2>1, <2>2, RemovedKeepsOthers
  <2>4. models # <<>> /\ Config!ToSet(<<>>) = {}
    BY <2>2 DEF Config!ToSet
  <2>5. PICK x \in Config!ToSet(models) : default = {x}
    BY <1>0, <2>4
  <2>6. CASE m \in default
    <3>1. left # <<>> => Head(left) = left[1] /\ 1 \in DOMAIN left
      BY <2>3
    <3>2. left # <<>> => Head(left) \in Config!ToSet(left)
      BY <3>1 DEF Config!ToSet
    <3>3. default' = IF left = <<>> THEN {} ELSE {Head(left)}
      BY <2>2, <2>6 DEF Config!Promoted
    <3>4. default' \subseteq Config!ToSet(left) /\ (left = <<>> => default' = {})
          /\ (left # <<>> => \E y \in Config!ToSet(left) : default' = {y})
      BY <3>2, <3>3
    <3>5. QED
      BY <1>1, <2>2, <2>3, <3>4, <1>2, <1>3, Unbinding DEF ConfigInv, ListsAreSound, Config!ToSet
  <2>7. CASE m \notin default
    <3>1. default' = {x} /\ x \in Config!ToSet(left) /\ left # <<>>
      BY <2>2, <2>3, <2>4, <2>5, <2>7
    <3>2. QED
      BY <1>1, <2>2, <2>3, <3>1, <1>2, <1>3, Unbinding DEF ConfigInv, ListsAreSound, Config!ToSet
  <2>8. QED
    BY <2>6, <2>7
<1>7. QED
  BY <1>4, <1>5, <1>6

LEMMA AgentsChange ==
  ASSUME Config!AIConfigAssumption, ConfigInv, NEW a \in Agents,
         \/ Config!CreateAgent(a) \/ Config!DeleteAgent(a)
         \/ \E t \in Tasks, m \in Models, on \in BOOLEAN : Config!SaveTaskBinding(t, a, m, on)
  PROVE  ConfigInv'
<1>0. /\ models \in Seq(Models) /\ agents \in Seq(Agents) /\ edits \in 0..MaxEdits /\ MaxEdits \in Nat
      /\ summarizer \subseteq Config!ToSet(agents)
  BY DEF ConfigInv, ListsAreSound, BindingsAreSound, Config!AIConfigAssumption
<1>1. /\ UNCHANGED <<models, default, skills, active, selected, request>>
      /\ edits' = edits + 1 /\ edits' \in 0..MaxEdits
  BY <1>0 DEF Config!CreateAgent, Config!DeleteAgent, Config!SaveTaskBinding, Config!Edit, Config!modelVars, Config!skillVars
<1>2. SkillsAreSound'
  BY <1>0, <1>1, SkillsKept DEF ConfigInv
<1>3. RequestsAreSound'
  BY <1>1 DEF ConfigInv, RequestsAreSound, HoldsRequest
<1>4. ASSUME agents' \in Seq(Agents), summarizer' \subseteq Config!ToSet(agents')
      PROVE  ListsAreSound'
  BY <1>1, <1>4 DEF ConfigInv, ListsAreSound, Config!ToSet
<1>5. CASE Config!CreateAgent(a)
  <2>1. agents' = Append(agents, a) /\ UNCHANGED <<summarizer, binding, turnedOff>>
    BY <1>5 DEF Config!CreateAgent, Config!bindVars
  <2>2. agents' \in Seq(Agents) /\ Config!ToSet(agents') = Config!ToSet(agents) \union {a}
    BY <1>0, <2>1, AppendedSet
  <2>3. BindingsAreSound'
    BY <1>1, <2>1 DEF ConfigInv, BindingsAreSound
  <2>4. QED
    BY <1>0, <1>2, <1>3, <1>4, <2>1, <2>2, <2>3 DEF ConfigInv
<1>6. CASE Config!DeleteAgent(a)
  <2>1. /\ agents' = Config!Removed(agents, a) /\ a \in Config!ToSet(agents) /\ summarizer' = summarizer \ {a}
        /\ binding' = Config!Unbound("agent", a) /\ UNCHANGED turnedOff
    BY <1>6 DEF Config!DeleteAgent, Config!Exists
  <2>2. agents' \in Seq(Agents) /\ \A y \in Config!ToSet(agents) : y # a => y \in Config!ToSet(agents')
    BY <1>0, <2>1, RemovedKeepsOthers
  <2>3. BindingsAreSound'
    BY <1>1, <2>1, Unbinding DEF ConfigInv
  <2>4. summarizer' \subseteq Config!ToSet(agents')
    BY <1>0, <2>1, <2>2
  <2>5. QED
    BY <1>2, <1>3, <1>4, <2>2, <2>3, <2>4 DEF ConfigInv
<1>7. ASSUME NEW t \in Tasks, NEW m \in Models, NEW on \in BOOLEAN, Config!SaveTaskBinding(t, a, m, on)
      PROVE  ConfigInv'
  <2>1. PICK b : b = [agent |-> a, model |-> m, on |-> on]
    OBVIOUS
  <2>2. b \in Config!Binding
    BY <2>1 DEF Config!Binding
  <2>3. binding' = [binding EXCEPT ![t] = b] /\ UNCHANGED <<agents, summarizer>>
        /\ turnedOff' \subseteq turnedOff \union {t}
    BY <1>7, <2>1 DEF Config!SaveTaskBinding, Config!agentVars, Config!Switched
  <2>4. BindingsAreSound'
    BY <1>1, <2>2, <2>3 DEF ConfigInv, BindingsAreSound
  <2>5. QED
    BY <1>0, <1>2, <1>3, <1>4, <2>3, <2>4 DEF ConfigInv
<1>8. QED
  BY <1>5, <1>6, <1>7

\* A table of skills that is stored resolves.
LEMMA SkillsStored ==
  ASSUME Config!AIConfigAssumption, ConfigInv, Config!ValidGraph(skills', active'), skills' \in UNION {[D -> Config!Skill] : D \in SUBSET Skills},
         edits' \in 0..MaxEdits, \A s \in DOMAIN skills' : skills'[s].rev <= edits' + 1,
         selected' \in Skills \union {None}, RequestsAreSound',
         UNCHANGED <<models, default, agents, summarizer, binding, turnedOff>>
  PROVE  ConfigInv'
<1>1. ListsAreSound' /\ BindingsAreSound'
  BY DEF ConfigInv, ListsAreSound, BindingsAreSound, Config!ToSet
<1>2. SkillsAreSound'
  BY DEF SkillsAreSound
<1>3. QED
  BY <1>1, <1>2 DEF ConfigInv

\* A skill is stored under its id, the others stay.
LEMMA StoredWith ==
  ASSUME NEW sk \in UNION {[D -> Config!Skill] : D \in SUBSET Skills}, NEW s \in Skills, NEW v \in Config!Skill
  PROVE  /\ Config!With(sk, s, v) \in UNION {[D -> Config!Skill] : D \in SUBSET Skills}
         /\ \A t \in DOMAIN Config!With(sk, s, v) : Config!With(sk, s, v)[t] = v \/ (t \in DOMAIN sk /\ Config!With(sk, s, v)[t] = sk[t])
<1>1. PICK D \in SUBSET Skills : sk \in [D -> Config!Skill]
  OBVIOUS
<1>2. Config!With(sk, s, v) \in [D \union {s} -> Config!Skill]
  BY <1>1 DEF Config!With
<1>3. D \union {s} \in SUBSET Skills
  OBVIOUS
<1>4. QED
  BY <1>1, <1>2, <1>3 DEF Config!With

LEMMA SkillsChange ==
  ASSUME Config!AIConfigAssumption, ConfigInv, NEW s \in Skills,
         \/ Config!DeleteSkill(s) \/ Config!UseForMailSummary(s) \/ Config!SelectSkill(s)
         \/ \E k \in Config!Kinds, d \in SUBSET Skills, on \in BOOLEAN : Config!CreateSkill(s, k, d, on)
  PROVE  ConfigInv'
<1>0. /\ skills \in UNION {[D -> Config!Skill] : D \in SUBSET Skills} /\ Config!ValidGraph(skills, active)
      /\ edits \in 0..MaxEdits /\ MaxEdits \in Nat /\ selected \in Skills \union {None}
      /\ \A t \in DOMAIN skills : skills[t].rev \in 1..(MaxEdits + 1) /\ skills[t].rev <= edits + 1
  BY DEF ConfigInv, SkillsAreSound, BindingsAreSound, Config!AIConfigAssumption, Config!Skill
<1>1. /\ UNCHANGED <<models, default, agents, summarizer, binding, turnedOff, request>>
      /\ edits' = edits + 1 /\ edits' \in 0..MaxEdits
  <2>1. /\ UNCHANGED <<Config!modelVars, Config!agentVars, Config!bindVars, request>> /\ Config!Edit
    BY DEF Config!DeleteSkill, Config!UseForMailSummary, Config!SelectSkill, Config!CreateSkill
  <2>2. QED
    BY <1>0, <2>1 DEF Config!Edit, Config!modelVars, Config!agentVars, Config!bindVars
<1>2. RequestsAreSound'
  BY <1>1 DEF ConfigInv, RequestsAreSound, HoldsRequest
<1>3. \A t \in DOMAIN skills : skills[t].rev <= edits' + 1
  BY <1>0, <1>1
<1>4. CASE Config!DeleteSkill(s)
  <2>1. PICK sk : sk = Config!Without(skills, s)
    OBVIOUS
  <2>2. Config!ValidGraph(sk, active) /\ skills' = sk /\ UNCHANGED <<active, selected>>
    BY <1>4, <2>1 DEF Config!DeleteSkill
  <2>3. PICK D \in SUBSET Skills : skills \in [D -> Config!Skill]
    BY <1>0
  <2>4. sk \in [D \ {s} -> Config!Skill] /\ D \ {s} \in SUBSET Skills /\ \A t \in DOMAIN sk : sk[t].rev <= edits' + 1
    BY <1>3, <2>1, <2>3 DEF Config!Without
  <2>5. QED
    BY <1>0, <1>1, <1>2, <2>2, <2>4, SkillsStored
<1>5. CASE Config!UseForMailSummary(s)
  <2>1. active' = s /\ UNCHANGED <<skills, selected>> /\ s \in DOMAIN skills /\ Config!Resolves(skills, s, "summary")
    BY <1>5 DEF Config!UseForMailSummary
  <2>2. \A t \in DOMAIN skills : skills[t].deps \subseteq Skills
    BY <1>0 DEF Config!Skill
  <2>3. s \in Config!Collected(skills, s)
    BY <2>2, CollectedIsLeast DEF ClosedOver
  <2>4. skills[s].on /\ skills[s].kind = "summary"
    BY <2>1, <2>3 DEF Config!Resolves
  <2>5. Config!ValidGraph(skills, s)
    BY <1>0, <2>1, <2>4 DEF Config!ValidGraph
  <2>6. QED
    BY <1>0, <1>1, <1>2, <1>3, <2>1, <2>5, SkillsStored
<1>6. CASE Config!SelectSkill(s)
  BY <1>0, <1>1, <1>2, <1>3, <1>6, SkillsStored DEF Config!SelectSkill
<1>7. ASSUME NEW k \in Config!Kinds, NEW d \in SUBSET Skills, NEW on \in BOOLEAN, Config!CreateSkill(s, k, d, on)
      PROVE  ConfigInv'
  <2>1. PICK v : v = [deps |-> d, on |-> on, kind |-> k, rev |-> 1]
    OBVIOUS
  <2>2. v \in Config!Skill /\ v.rev = 1
    BY <1>0, <2>1 DEF Config!Skill
  <2>3. PICK sk : sk = Config!With(skills, s, v)
    OBVIOUS
  <2>4. Config!ValidGraph(sk, active) /\ skills' = sk /\ UNCHANGED <<active, selected>>
    BY <1>7, <2>1, <2>3 DEF Config!CreateSkill
  <2>5. /\ sk \in UNION {[D -> Config!Skill] : D \in SUBSET Skills}
        /\ \A t \in DOMAIN sk : sk[t] = v \/ (t \in DOMAIN skills /\ sk[t] = skills[t])
    BY <1>0, <2>2, <2>3, StoredWith
  <2>6. \A t \in DOMAIN sk : sk[t].rev <= edits' + 1
    BY <1>1, <1>3, <2>2, <2>5
  <2>7. QED
    BY <1>0, <1>1, <1>2, <2>4, <2>5, <2>6, SkillsStored
<1>8. QED
  BY <1>4, <1>5, <1>6, <1>7

-----------------------------------------------------------------------------
(* The requests that read the settings in several statements *)

\* A request that goes on, or ends, without an edit.
LEMMA RequestGoesOn ==
  ASSUME Config!AIConfigAssumption, ConfigInv, NEW h \in ConfigHandlers, NEW r, request' = [request EXCEPT ![h] = r],
         HoldsRequest(h)', UNCHANGED <<models, default, agents, binding, turnedOff, skills, active, selected, edits>>,
         summarizer' \subseteq Config!ToSet(agents)
  PROVE  ConfigInv'
<1>1. ListsAreSound' /\ BindingsAreSound'
  BY DEF ConfigInv, ListsAreSound, BindingsAreSound, Config!ToSet
<1>2. SkillsAreSound'
  BY SkillsKept DEF ConfigInv, BindingsAreSound, Config!AIConfigAssumption
<1>3. request = [o \in ConfigHandlers |-> request[o]]
  BY DEF ConfigInv, RequestsAreSound
<1>4. request' = [o \in ConfigHandlers |-> request'[o]] /\ \A o \in ConfigHandlers \ {h} : request'[o] = request[o]
  BY <1>3
<1>5. RequestsAreSound'
  BY <1>4 DEF ConfigInv, RequestsAreSound, HoldsRequest
<1>6. QED
  BY <1>1, <1>2, <1>5 DEF ConfigInv

\* A request that is neither an update nor a run.
LEMMA Reads ==
  ASSUME Config!AIConfigAssumption, ConfigInv, NEW h \in ConfigHandlers, NEW r, request' = [request EXCEPT ![h] = r],
         "op" \in DOMAIN r, r.op \notin {"update", "run"},
         UNCHANGED <<models, default, agents, binding, turnedOff, skills, active, selected, edits>>,
         summarizer' \subseteq Config!ToSet(agents)
  PROVE  ConfigInv'
<1>1. request = [o \in ConfigHandlers |-> request[o]]
  BY DEF ConfigInv, RequestsAreSound
<1>2. request'[h] = r
  BY <1>1
<1>3. HoldsRequest(h)'
  BY <1>2 DEF HoldsRequest
<1>4. QED
  BY <1>3, RequestGoesOn

LEMMA TaskWork ==
  ASSUME Config!AIConfigAssumption, ConfigInv, NEW h \in ConfigHandlers,
         \/ \E t \in Tasks : Config!ReadBinding(h, t) \/ Config!WriteDocument(h, t)
         \/ Config!ChooseAgent(h) \/ Config!AssignPurpose(h) \/ Config!ReadModel(h) \/ Config!Refused(h) \/ Config!Answer(h)
         \/ Config!UpdateRefused(h) \/ Config!EndRun(h)
  PROVE  ConfigInv'
<1>0. summarizer \subseteq Config!ToSet(agents) /\ "op" \in DOMAIN request[h]
  BY DEF ConfigInv, ListsAreSound, RequestsAreSound, HoldsRequest
<1>1. /\ UNCHANGED <<models, default, agents, binding, turnedOff, skills, active, selected, edits>>
      /\ summarizer' \subseteq Config!ToSet(agents)
  BY <1>0 DEF Config!ReadBinding, Config!WriteDocument, Config!ChooseAgent, Config!AssignPurpose, Config!ReadModel, Config!Refused, Config!Answer, Config!UpdateRefused,
              Config!EndRun, Config!modelVars, Config!agentVars, Config!bindVars, Config!skillVars
<1>2. ASSUME NEW t \in Tasks, Config!ReadBinding(h, t)
      PROVE  ConfigInv'
  <2>1. PICK r : r = [op |-> "task", task |-> t, bound |-> binding[t], agent |-> None]
    OBVIOUS
  <2>2. "op" \in DOMAIN r /\ r.op = "task" /\ request' = [request EXCEPT ![h] = r]
    BY <1>2, <2>1 DEF Config!ReadBinding
  <2>3. QED
    BY <1>1, <2>2, Reads
<1>3. ASSUME NEW t \in Tasks, Config!WriteDocument(h, t)
      PROVE  ConfigInv'
  <2>1. PICK r : r = [op |-> "document", bound |-> binding[t]]
    OBVIOUS
  <2>2. "op" \in DOMAIN r /\ r.op = "document" /\ request' = [request EXCEPT ![h] = r]
    BY <1>3, <2>1 DEF Config!WriteDocument
  <2>3. QED
    BY <1>1, <2>2, Reads
<1>4. CASE Config!ChooseAgent(h)
  <2> DEFINE a == IF summarizer # {} THEN CHOOSE x \in summarizer : TRUE ELSE Head(agents)
  <2> DEFINE o == IF a \in summarizer THEN "model" ELSE "purpose"
  <2>0. o \in {"model", "purpose"}
    OBVIOUS
  <2>1. request' = [request EXCEPT ![h].agent = a, ![h].op = o]
    BY <1>4 DEF Config!ChooseAgent
  <2> HIDE DEF a, o
  <2>2. PICK r : r = [request[h] EXCEPT !.agent = a, !.op = o]
    OBVIOUS
  <2>3. "op" \in DOMAIN r /\ r.op = o /\ request' = [request EXCEPT ![h] = r]
    BY <1>0, <2>1, <2>2
  <2>4. QED
    BY <1>1, <2>0, <2>3, Reads
<1>5. CASE Config!AssignPurpose(h)
  <2>1. PICK r : r = [request[h] EXCEPT !.op = "model"]
    OBVIOUS
  <2>2. "op" \in DOMAIN r /\ r.op = "model" /\ request' = [request EXCEPT ![h] = r]
    BY <1>0, <1>5, <2>1 DEF Config!AssignPurpose
  <2>3. QED
    BY <1>1, <2>2, Reads
<1>6. CASE Config!ReadModel(h)
  <2>1. PICK r : r = [op |-> "answering"]
    OBVIOUS
  <2>2. "op" \in DOMAIN r /\ r.op = "answering" /\ request' = [request EXCEPT ![h] = r]
    BY <1>6, <2>1 DEF Config!ReadModel
  <2>3. QED
    BY <1>1, <2>2, Reads
<1>7. CASE Config!Refused(h) \/ Config!Answer(h) \/ Config!UpdateRefused(h) \/ Config!EndRun(h)
  <2>1. request' = [request EXCEPT ![h] = Config!Idle]
    BY <1>7 DEF Config!Refused, Config!Answer, Config!UpdateRefused, Config!EndRun
  <2>2. "op" \in DOMAIN Config!Idle /\ Config!Idle.op = "idle"
    BY DEF Config!Idle
  <2>3. QED
    BY <1>1, <2>1, <2>2, Reads
<1>8. QED
  BY <1>2, <1>3, <1>4, <1>5, <1>6, <1>7

LEMMA SkillWork ==
  ASSUME Config!AIConfigAssumption, ConfigInv, NEW h \in ConfigHandlers,
         \/ \E s \in Skills, d \in SUBSET Skills, on \in BOOLEAN : Config!ReadSkill(h, s, d, on)
         \/ Config!StartRun(h) \/ \E s \in Skills : Config!LoadSkill(h, s)
  PROVE  ConfigInv'
<1>0. /\ summarizer \subseteq Config!ToSet(agents) /\ HoldsRequest(h) /\ request = [o \in ConfigHandlers |-> request[o]]
      /\ \A s \in DOMAIN skills : skills[s] \in Config!Skill
  BY DEF ConfigInv, ListsAreSound, RequestsAreSound, SkillsAreSound
<1>1. UNCHANGED <<models, default, agents, summarizer, binding, turnedOff, skills, active, selected, edits>>
  BY DEF Config!ReadSkill, Config!StartRun, Config!LoadSkill, Config!modelVars, Config!agentVars, Config!bindVars, Config!skillVars
<1>2. ASSUME NEW s \in Skills, NEW d \in SUBSET Skills, NEW on \in BOOLEAN, Config!ReadSkill(h, s, d, on)
      PROVE  ConfigInv'
  <2>1. PICK v : v = [skills[s] EXCEPT !.deps = d, !.on = on]
    OBVIOUS
  <2>2. s \in DOMAIN skills /\ v \in Config!Skill
    BY <1>0, <1>2, <2>1 DEF Config!ReadSkill, Config!Skill
  <2>3. PICK r : r = [op |-> "update", skill |-> s, read |-> skills[s], new |-> v]
    OBVIOUS
  <2>4. "op" \in DOMAIN r /\ r.op = "update" /\ r.skill = s /\ r.read \in Config!Skill /\ r.new \in Config!Skill
    BY <1>0, <2>2, <2>3
  <2>5. request' = [request EXCEPT ![h] = r]
    BY <1>2, <2>1, <2>3 DEF Config!ReadSkill
  <2>6. request'[h] = r
    BY <1>0, <2>5
  <2>7. HoldsRequest(h)'
    BY <2>4, <2>6 DEF HoldsRequest
  <2>8. QED
    BY <1>0, <1>1, <2>5, <2>7, RequestGoesOn
<1>3. CASE Config!StartRun(h)
  <2>1. PICK r : r = [op |-> "run", catalogue |-> Config!Frozen(skills), loaded |-> {}]
    OBVIOUS
  <2>2. "op" \in DOMAIN r /\ r.op = "run" /\ "loaded" \in DOMAIN r /\ r.loaded = {}
    BY <2>1
  <2>3. request' = [request EXCEPT ![h] = r]
    BY <1>3, <2>1 DEF Config!StartRun
  <2>4. request'[h] = r
    BY <1>0, <2>3
  <2>5. HoldsRequest(h)'
    BY <2>2, <2>4 DEF HoldsRequest
  <2>6. QED
    BY <1>0, <1>1, <2>3, <2>5, RequestGoesOn
<1>4. ASSUME NEW s \in Skills, Config!LoadSkill(h, s)
      PROVE  ConfigInv'
  <2>1. PICK cat : cat = request[h].catalogue
    OBVIOUS
  <2>2. PICK more : more = {<<t, cat[t]>> : t \in Config!Collected(cat, s)}
    OBVIOUS
  <2>3. PICK r : r = [request[h] EXCEPT !.loaded = request[h].loaded \union more]
    OBVIOUS
  <2>4. request[h].op = "run" /\ request' = [request EXCEPT ![h] = r]
    BY <1>4, <2>1, <2>2, <2>3 DEF Config!LoadSkill, Config!Catalogue
  <2>5. \A p \in request[h].loaded \union more : p = <<p[1], cat[p[1]]>>
    BY <1>0, <2>1, <2>2, <2>4 DEF HoldsRequest
  <2>6. /\ "op" \in DOMAIN r /\ r.op = "run" /\ "loaded" \in DOMAIN r
        /\ r.loaded = request[h].loaded \union more /\ r.catalogue = cat
    BY <1>0, <2>1, <2>3, <2>4 DEF HoldsRequest
  <2>7. request'[h] = r
    BY <1>0, <2>4
  <2>8. HoldsRequest(h)'
    BY <2>5, <2>6, <2>7 DEF HoldsRequest
  <2>9. QED
    BY <1>0, <1>1, <2>4, <2>8, RequestGoesOn
<1>5. QED
  BY <1>2, <1>3, <1>4

\* The update is stored over the revision it was read at.
LEMMA SkillSaved ==
  ASSUME Config!AIConfigAssumption, ConfigInv, NEW h \in ConfigHandlers, Config!SaveSkill(h)
  PROVE  ConfigInv'
<1>1. /\ skills \in UNION {[D -> Config!Skill] : D \in SUBSET Skills} /\ edits \in 0..MaxEdits /\ MaxEdits \in Nat
      /\ \A t \in DOMAIN skills : skills[t].rev \in 1..(MaxEdits + 1) /\ skills[t].rev <= edits + 1
      /\ HoldsRequest(h) /\ request = [o \in ConfigHandlers |-> request[o]] /\ selected \in Skills \union {None}
  BY DEF ConfigInv, SkillsAreSound, RequestsAreSound, BindingsAreSound, Config!AIConfigAssumption, Config!Skill
<1>2. PICK r : r = request[h]
  OBVIOUS
<1>3. /\ r.op = "update" /\ Config!MaySave(r) /\ edits' = edits + 1 /\ edits' \in 0..MaxEdits /\ skills' = Config!Updated(r)
      /\ request' = [request EXCEPT ![h] = Config!Idle]
      /\ UNCHANGED <<models, default, agents, summarizer, binding, turnedOff, active, selected>>
  BY <1>1, <1>2 DEF Config!SaveSkill, Config!Edit, Config!modelVars, Config!agentVars, Config!bindVars
<1>4. r.skill \in Skills /\ r.new \in Config!Skill /\ r.read \in Config!Skill
  BY <1>1, <1>2, <1>3 DEF HoldsRequest
<1>5. r.skill \in DOMAIN skills /\ skills[r.skill].rev = r.read.rev /\ Config!ValidGraph(skills', active)
  BY <1>3 DEF Config!MaySave, Config!Unchanged
<1>6. PICK v : v = [r.new EXCEPT !.rev = r.read.rev + 1]
  OBVIOUS
<1>7. v \in Config!Skill /\ v.rev <= edits' + 1
  <2>1. PICK n \in Nat : n = r.read.rev /\ n >= 1 /\ n <= edits + 1
    BY <1>1, <1>5
  <2>2. n + 1 \in 1..(MaxEdits + 1) /\ n + 1 <= edits' + 1
    BY <1>1, <1>3, <2>1
  <2>3. v = [r.new EXCEPT !.rev = n + 1]
    BY <1>6, <2>1
  <2>4. v \in Config!Skill /\ v.rev = n + 1
    BY <1>4, <2>2, <2>3 DEF Config!Skill
  <2>5. QED
    BY <2>2, <2>4
<1>8. PICK s \in Skills : s = r.skill
  BY <1>4
<1>9. skills' = Config!With(skills, s, v)
  BY <1>3, <1>6, <1>8 DEF Config!Updated
<1>10. /\ skills' \in UNION {[D -> Config!Skill] : D \in SUBSET Skills}
       /\ \A t \in DOMAIN skills' : skills'[t] = v \/ (t \in DOMAIN skills /\ skills'[t] = skills[t])
  BY <1>1, <1>7, <1>9, StoredWith
<1>11. \A t \in DOMAIN skills' : skills'[t].rev <= edits' + 1
  BY <1>1, <1>3, <1>7, <1>10
<1>12. request' = [o \in ConfigHandlers |-> request'[o]] /\ request'[h] = Config!Idle
       /\ \A o \in ConfigHandlers \ {h} : request'[o] = request[o]
  BY <1>1, <1>3
<1>13. RequestsAreSound'
  BY <1>12 DEF ConfigInv, RequestsAreSound, HoldsRequest, Config!Idle
<1>14. QED
  BY <1>1, <1>3, <1>5, <1>10, <1>11, <1>13, SkillsStored

LEMMA ConfigStep == ASSUME Config!AIConfigAssumption, ConfigInv, [Config!Next]_(Config!vars) PROVE ConfigInv'
<1>1. CASE UNCHANGED Config!vars
  <2>1. UNCHANGED <<models, default, agents, summarizer, binding, skills, active, selected, request, turnedOff, edits>>
    BY <1>1 DEF Config!vars
  <2>2. ListsAreSound' /\ BindingsAreSound' /\ RequestsAreSound'
    BY <2>1 DEF ConfigInv, ListsAreSound, BindingsAreSound, RequestsAreSound, HoldsRequest, Config!ToSet
  <2>3. SkillsAreSound'
    BY <2>1 DEF ConfigInv, SkillsAreSound
  <2>4. QED
    BY <2>2, <2>3 DEF ConfigInv
<1>2. CASE Config!Settings
  BY <1>2, ModelsChange, AgentsChange, SkillsChange DEF Config!Settings
<1>3. ASSUME NEW h \in ConfigHandlers, Config!Work(h)
      PROVE  ConfigInv'
  BY <1>3, TaskWork, SkillWork, SkillSaved DEF Config!Work
<1>4. QED
  BY <1>1, <1>2, <1>3 DEF Config!Next

LEMMA ConfigSafe ==
  ASSUME Config!AIConfigAssumption, ConfigInv
  PROVE  Config!TypeOK /\ Config!OneDefault /\ Config!SkillsResolve /\ Config!OneVersionPerRun
<1>1. /\ skills \in UNION {[D -> Config!Skill] : D \in SUBSET Skills} /\ Config!ValidGraph(skills, active)
  BY DEF ConfigInv, SkillsAreSound
<1>2. Config!TypeOK
  <2>1. Config!ToSet(models) \subseteq Models /\ Config!ToSet(agents) \subseteq Agents
    BY DEF ConfigInv, ListsAreSound, Config!ToSet
  <2>2. DOMAIN skills \subseteq Skills /\ (\A s \in DOMAIN skills : skills[s] \in Config!Skill) /\ active \in Skills
    BY <1>1 DEF Config!ValidGraph
  <2>3. QED
    BY <2>1, <2>2 DEF ConfigInv, ListsAreSound, BindingsAreSound, Config!TypeOK
<1>3. Config!OneDefault
  BY FS_Singleton, SameCount DEF ConfigInv, ListsAreSound, Config!OneDefault
<1>4. Config!SkillsResolve
  <2>1. Config!Resolves(skills, active, "summary")
    BY <1>1 DEF Config!ValidGraph
  <2>2. ASSUME NEW s \in DOMAIN skills, \A d \in Config!Collected(skills, s) \ {s} : d \in DOMAIN skills => skills[d].on
        PROVE  Config!Resolves([skills EXCEPT ![s].on = TRUE], s, skills[s].kind)
    <3>1. PICK D \in SUBSET Skills : skills \in [D -> Config!Skill]
      BY <1>1
    <3>2. QED
      BY <1>1, <2>2, <3>1, WouldResolve
  <2>3. QED
    BY <2>1, <2>2 DEF Config!SkillsResolve
<1>5. Config!OneVersionPerRun
  <2>1. ASSUME NEW h \in ConfigHandlers, request[h].op = "run", NEW p \in request[h].loaded, NEW q \in request[h].loaded,
               p[1] = q[1]
        PROVE  p = q
    <3>1. HoldsRequest(h)
      BY DEF ConfigInv, RequestsAreSound
    <3>2. p = <<p[1], request[h].catalogue[p[1]]>> /\ q = <<q[1], request[h].catalogue[q[1]]>>
      BY <2>1, <3>1 DEF HoldsRequest
    <3>3. QED
      BY <2>1, <3>2
  <2>2. QED
    BY <2>1 DEF Config!OneVersionPerRun
<1>6. QED
  BY <1>2, <1>3, <1>4, <1>5
-----------------------------------------------------------------------------
(* The users and their keys (Users) *)

UserForm == [made : BOOLEAN, password : {"none"} \cup Passwords, role : {"user", "super_admin"}]
UserSteps == {"none", "create", "claim", "list", "promote", "admin", "password"}
UserRequestForm == [step : UserSteps, login : {"none"} \cup Logins, password : {"none"} \cup Passwords]
EventForm == [type : {"created", "revoked", "rotated"}, related : Nat]
KeyForm == [owner : Logins, expires : BOOLEAN, state : {"active", "expired", "revoked"},
            events : Seq(EventForm)]

UserShape ==
  /\ users \in [Logins -> UserForm] /\ registration \in BOOLEAN
  /\ userRequests \in [UserHandlers -> UserRequestForm]
  /\ sessions \subseteq Users!Made /\ switches \in 0..MaxSwitches

\* A request at work names a login, one that is past the registration a user.
Requesting(h) ==
  /\ userRequests[h].step # "none" => userRequests[h].login \in Logins
  /\ userRequests[h].step \in {"claim", "list", "promote", "admin", "password"} => userRequests[h].login \in Users!Made

\* A key that works for another reason than age has begun and not ended; the end of one that
\* was rotated and the beginning of its successor name each other.
Tracked(i) ==
  /\ keys[i].owner \in Users!Made /\ keys[i].events # <<>> /\ keys[i].events[1].type = "created"
  /\ keys[i].state # "revoked" => Len(keys[i].events) = 1
  /\ keys[i].state = "revoked" => Len(keys[i].events) = 2 /\ keys[i].events[2].type \in {"revoked", "rotated"}
  /\ keys[i].state = "revoked" /\ keys[i].events[2].type = "rotated" =>
       /\ keys[i].events[2].related \in DOMAIN keys
       /\ keys[keys[i].events[2].related].events[1].related = i
Succeeds(j) ==
  LET i == keys[j].events[1].related
  IN  i # 0 => /\ i \in DOMAIN keys /\ keys[i].state = "revoked"
               /\ keys[i].events[2].type = "rotated" /\ keys[i].events[2].related = j

UserInv ==
  /\ UserShape /\ \A h \in UserHandlers : Requesting(h)
  /\ keys \in Seq(KeyForm) /\ Len(keys) <= MaxKeys
  /\ \A i \in DOMAIN keys : Tracked(i) /\ Succeeds(i)

LEMMA UserInit == Users!UsersAssumption /\ Users!Init => UserInv
<1> SUFFICES ASSUME Users!UsersAssumption, Users!Init
             PROVE  UserInv
  OBVIOUS
<1>1. MaxKeys \in Nat /\ MaxSwitches \in Nat
  BY DEF Users!UsersAssumption
<1>2. Users!NoUser \in UserForm /\ Users!NoRequest \in UserRequestForm /\ Users!NoRequest.step = "none"
  BY DEF Users!NoUser, Users!NoRequest, UserForm, UserRequestForm, UserSteps
<1>3. registration \in BOOLEAN
  BY Zenon DEF Users!Init
<1>4. UserShape
  BY <1>1, <1>2, <1>3 DEF Users!Init, UserShape
<1>5. \A h \in UserHandlers : Requesting(h)
  BY <1>2 DEF Users!Init, Requesting
<1>6. keys = <<>> /\ Len(keys) = 0 /\ DOMAIN keys = {} /\ keys \in Seq(KeyForm)
  BY DEF Users!Init
<1>7. QED
  BY <1>1, <1>4, <1>5, <1>6 DEF UserInv

\* The keys depend on the users only for their owners.
LEMMA KeysStay ==
  ASSUME UserInv, UNCHANGED keys, Users!Made \subseteq Users!Made'
  PROVE  keys' \in Seq(KeyForm) /\ Len(keys') <= MaxKeys /\ \A i \in DOMAIN keys' : Tracked(i)' /\ Succeeds(i)'
<1>1. \A i \in DOMAIN keys : Tracked(i)'
  BY DEF UserInv, Tracked
<1>2. \A i \in DOMAIN keys : Succeeds(i)'
  BY DEF UserInv, Succeeds
<1>3. QED
  BY <1>1, <1>2 DEF UserInv

\* The request of a handler gives way to another one.
LEMMA Served ==
  ASSUME UserInv, Users!Made \subseteq Users!Made', NEW h \in UserHandlers, NEW r \in UserRequestForm, Users!Serve(h, r),
         r.step # "none" => r.login \in Logins,
         r.step \in {"claim", "list", "promote", "admin", "password"} => r.login \in Users!Made'
  PROVE  userRequests' \in [UserHandlers -> UserRequestForm] /\ \A o \in UserHandlers : Requesting(o)'
<1>1. userRequests' = [userRequests EXCEPT ![h] = r] /\ userRequests \in [UserHandlers -> UserRequestForm]
  BY DEF Users!Serve, UserInv, UserShape
<1>2. userRequests'[h] = r /\ \A o \in UserHandlers \ {h} : userRequests'[o] = userRequests[o]
  BY <1>1
<1>3. QED
  BY <1>1, <1>2 DEF UserInv, Requesting

LEMMA Rested ==
  ASSUME UserInv, Users!Made \subseteq Users!Made', NEW h \in UserHandlers, Users!Finish(h)
  PROVE  userRequests' \in [UserHandlers -> UserRequestForm] /\ \A o \in UserHandlers : Requesting(o)'
<1>1. Users!NoRequest \in UserRequestForm /\ Users!NoRequest.step = "none"
  BY DEF Users!NoRequest, UserRequestForm, UserSteps
<1>2. QED
  BY <1>1, Served DEF Users!Finish

\* A row of the users changes, its user stays.
LEMMA UserChanges ==
  ASSUME UserInv, NEW l \in Logins, NEW u \in UserForm, users' = [users EXCEPT ![l] = u],
         users[l].made => u.made
  PROVE  users' \in [Logins -> UserForm] /\ Users!Made \subseteq Users!Made' /\ (u.made => l \in Users!Made')
BY DEF UserInv, UserShape, UserForm, Users!Made

LEMMA SameUsers == ASSUME UNCHANGED users PROVE Users!Made' = Users!Made
BY DEF Users!Made

\* A row that is written, and what the steps of a request leave of the rest.
LEMMA UserRequestStep ==
  ASSUME Users!UsersAssumption, UserInv, NEW h \in UserHandlers,
         \/ Users!Register(h) \/ Users!CreateUser(h) \/ Users!ClaimUser(h) \/ Users!ListUsers(h) \/ Users!Promote(h)
         \/ Users!HandleUpdateRegistration(h) \/ Users!HandleUpdateUserRole(h) \/ Users!SetUserPassword(h)
         \/ \E l \in Logins : Users!RequireSuperAdmin(h, l) \/ Users!HandleUpdatePassword(h, l)
         \/ \E i \in DOMAIN keys : Users!APIKeyMiddleware(h, i)
  PROVE  UserInv'
<1>0. /\ users \in [Logins -> UserForm] /\ registration \in BOOLEAN /\ userRequests[h] \in UserRequestForm
      /\ userRequests \in [UserHandlers -> UserRequestForm] /\ sessions \subseteq Users!Made
      /\ switches \in 0..MaxSwitches /\ MaxSwitches \in Nat /\ Requesting(h)
  BY DEF UserInv, UserShape, Users!UsersAssumption
<1>1. /\ Users!NoRequest \in UserRequestForm /\ Users!NoRequest.step = "none"
      /\ "create" \in UserSteps /\ "claim" \in UserSteps /\ "list" \in UserSteps /\ "promote" \in UserSteps
      /\ "admin" \in UserSteps /\ "password" \in UserSteps
  BY DEF Users!NoRequest, UserRequestForm, UserSteps
\* The request of a login with a password.
<1> DEFINE asks(s, l, p) == [step |-> s, login |-> l, password |-> p]
<1>2. \A s \in UserSteps, l \in Logins, p \in {"none"} \cup Passwords :
        /\ asks(s, l, p) \in UserRequestForm
        /\ asks(s, l, p).step = s /\ asks(s, l, p).login = l
  BY DEF UserRequestForm
<1>3. ASSUME NEW s \in UserSteps, userRequests[h].step # "none", Users!Serve(h, [userRequests[h] EXCEPT !.step = s]),
             userRequests[h].login \in Users!Made', Users!Made \subseteq Users!Made'
      PROVE  userRequests' \in [UserHandlers -> UserRequestForm] /\ \A o \in UserHandlers : Requesting(o)'
  <2> DEFINE r == [userRequests[h] EXCEPT !.step = s]
  <2>1. r \in UserRequestForm /\ r.step = s /\ r.login = userRequests[h].login
    BY <1>0 DEF UserRequestForm
  <2> HIDE DEF r
  <2>2. userRequests[h].login \in Logins /\ Users!Serve(h, r)
    BY <1>0, <1>3 DEF Requesting, r
  <2>3. QED
    BY <1>3, <2>1, <2>2, Served
<1>4. ASSUME userRequests' \in [UserHandlers -> UserRequestForm], \A o \in UserHandlers : Requesting(o)',
             users' \in [Logins -> UserForm], Users!Made \subseteq Users!Made', UNCHANGED keys,
             registration' \in BOOLEAN, sessions' \subseteq Users!Made', switches' \in 0..MaxSwitches
      PROVE  UserInv'
  BY <1>4, KeysStay DEF UserInv, UserShape
<1>5. ASSUME NEW l \in Logins, NEW s \in UserSteps, NEW p \in {"none"} \cup Passwords, Users!Serve(h, asks(s, l, p)),
             s \in {"claim", "list", "promote", "admin", "password"} => l \in Users!Made,
             UNCHANGED <<users, registration, sessions, keys, switches>>
      PROVE  UserInv'
  <2>1. asks(s, l, p) \in UserRequestForm /\ asks(s, l, p).step = s /\ asks(s, l, p).login = l
    BY <1>2
  <2>2. Users!Made' = Users!Made
    BY <1>5, SameUsers
  <2> HIDE DEF asks
  <2>3. userRequests' \in [UserHandlers -> UserRequestForm] /\ \A o \in UserHandlers : Requesting(o)'
    BY <1>5, <2>1, <2>2, Served
  <2>4. QED
    BY <1>0, <1>4, <1>5, <2>2, <2>3
<1>60. /\ \A l : [Users!NoRequest EXCEPT !.step = "admin", !.login = l] = asks("admin", l, "none")
      /\ \A l, p : [Users!NoRequest EXCEPT !.step = "password", !.login = l, !.password = p] = asks("password", l, p)
  <2>1. ASSUME NEW l, NEW q, q = [Users!NoRequest EXCEPT !.step = "admin", !.login = l]
        PROVE  q = asks("admin", l, "none")
    BY <2>1 DEF Users!NoRequest
  <2>2. ASSUME NEW l, NEW p, NEW q, q = [Users!NoRequest EXCEPT !.step = "password", !.login = l, !.password = p]
        PROVE  q = asks("password", l, p)
    BY <2>2 DEF Users!NoRequest
  <2> HIDE DEF asks
  <2>3. QED
    BY <2>1, <2>2
<1> HIDE DEF asks
<1>6. CASE Users!Register(h)
  <2>1. PICK l \in Logins, p \in Passwords :
          Users!Serve(h, [step |-> IF users[l].made THEN "claim" ELSE "create", login |-> l, password |-> p])
    BY <1>6 DEF Users!Register
  <2>2. UNCHANGED <<users, registration, sessions, keys, switches>>
    BY <1>6 DEF Users!Register
  <2>3. CASE users[l].made
    <3>1. Users!Serve(h, asks("claim", l, p))
      BY <2>1, <2>3 DEF asks
    <3>2. l \in Users!Made
      BY <2>3 DEF Users!Made
    <3>3. QED
      BY <1>1, <1>5, <2>2, <3>1, <3>2
  <2>4. CASE ~users[l].made
    <3>1. Users!Serve(h, asks("create", l, p))
      BY <2>1, <2>4 DEF asks
    <3>3. QED
      BY <1>1, <1>5, <2>2, <3>1
  <2>5. QED
    BY <2>3, <2>4
<1>7. CASE Users!CreateUser(h)
  <2> DEFINE l == userRequests[h].login
  <2>1. /\ userRequests[h].step = "create" /\ l \in Logins /\ userRequests[h].password \in {"none"} \cup Passwords
        /\ UNCHANGED <<registration, sessions, keys, switches>>
    BY <1>0, <1>7 DEF Users!CreateUser, Requesting, UserRequestForm
  <2>2. CASE users[l].made
    <3>1. Users!Finish(h) /\ UNCHANGED users
      BY <1>7, <2>2 DEF Users!CreateUser
    <3>2. Users!Made' = Users!Made
      BY <3>1, SameUsers
    <3>3. QED
      BY <1>0, <1>4, <2>1, <3>1, <3>2, Rested
  <2>3. CASE ~users[l].made
    <3> DEFINE u == [users[l] EXCEPT !.made = TRUE, !.password = userRequests[h].password]
    <3>1. users' = [users EXCEPT ![l] = u] /\ Users!Serve(h, [userRequests[h] EXCEPT !.step = "list"])
      BY <1>7, <2>3 DEF Users!CreateUser
    <3>2. u \in UserForm /\ u.made
      BY <1>0, <2>1 DEF UserForm
    <3> HIDE DEF u
    <3>3. users' \in [Logins -> UserForm] /\ Users!Made \subseteq Users!Made' /\ l \in Users!Made'
      BY <2>1, <3>1, <3>2, UserChanges
    <3>4. userRequests' \in [UserHandlers -> UserRequestForm] /\ \A o \in UserHandlers : Requesting(o)'
      BY <1>1, <1>3, <2>1, <3>1, <3>3
    <3>5. QED
      BY <1>0, <1>4, <2>1, <3>3, <3>4
  <2>4. QED
    BY <2>2, <2>3
<1>8. CASE Users!ClaimUser(h) \/ Users!SetUserPassword(h)
  <2> DEFINE l == userRequests[h].login
  <2> DEFINE u == [users[l] EXCEPT !.password = userRequests[h].password]
  <2>1. /\ userRequests[h].step \in {"claim", "password"} /\ UNCHANGED <<registration, sessions, keys, switches>>
        /\ users' = [users EXCEPT ![l] = u]
        /\ Users!Serve(h, [userRequests[h] EXCEPT !.step = "list"]) \/ Users!Finish(h)
    BY <1>8 DEF Users!ClaimUser, Users!SetUserPassword
  <2>2. l \in Logins /\ l \in Users!Made /\ userRequests[h].password \in {"none"} \cup Passwords
    BY <1>0, <2>1 DEF Requesting, UserRequestForm
  <2>3. u \in UserForm /\ u.made = users[l].made
    BY <1>0, <2>2 DEF UserForm
  <2> HIDE DEF u
  <2>4. users' \in [Logins -> UserForm] /\ Users!Made \subseteq Users!Made'
    BY <2>1, <2>2, <2>3, UserChanges
  <2>5. userRequests' \in [UserHandlers -> UserRequestForm] /\ \A o \in UserHandlers : Requesting(o)'
    <3>1. CASE Users!Finish(h)
      BY <2>4, <3>1, Rested
    <3>2. CASE Users!Serve(h, [userRequests[h] EXCEPT !.step = "list"])
      BY <1>1, <1>3, <2>1, <2>2, <2>4, <3>2
    <3>3. QED
      BY <2>1, <3>1, <3>2
  <2>6. QED
    BY <1>0, <1>4, <2>1, <2>4, <2>5
<1>9. CASE Users!ListUsers(h)
  <2> DEFINE l == userRequests[h].login
  <2>1. userRequests[h].step = "list" /\ UNCHANGED <<users, registration, keys, switches>> /\ l \in Users!Made /\ Users!Made' = Users!Made
    BY <1>0, <1>9, SameUsers DEF Users!ListUsers, Requesting
  <2>2. \/ Users!Serve(h, [userRequests[h] EXCEPT !.step = "promote"]) /\ UNCHANGED sessions
        \/ Users!Finish(h) /\ sessions' = sessions \cup {l}
    BY <1>9 DEF Users!ListUsers
  <2>3. CASE Users!Finish(h) /\ sessions' = sessions \cup {l}
    BY <1>0, <1>4, <2>1, <2>3, Rested
  <2>4. CASE Users!Serve(h, [userRequests[h] EXCEPT !.step = "promote"]) /\ UNCHANGED sessions
    BY <1>0, <1>1, <1>3, <1>4, <2>1, <2>4
  <2>5. QED
    BY <2>2, <2>3, <2>4
<1>10. CASE Users!Promote(h)
  <2> DEFINE l == userRequests[h].login
  <2> DEFINE u == [users[l] EXCEPT !.role = "super_admin"]
  <2>1. /\ userRequests[h].step = "promote" /\ UNCHANGED <<registration, keys, switches>> /\ l \in Users!Made /\ l \in Logins
        /\ users' = [users EXCEPT ![l] = u] /\ sessions' = sessions \cup {l} /\ Users!Finish(h)
    BY <1>0, <1>10 DEF Users!Promote, Requesting
  <2>2. u \in UserForm /\ u.made = users[l].made
    BY <1>0, <2>1 DEF UserForm
  <2> HIDE DEF u
  <2>3. users' \in [Logins -> UserForm] /\ Users!Made \subseteq Users!Made'
    BY <2>1, <2>2, UserChanges
  <2>4. QED
    BY <1>0, <1>4, <2>1, <2>3, Rested
<1>11. CASE Users!HandleUpdateRegistration(h)
  <2>1. /\ switches < MaxSwitches /\ switches' = switches + 1 /\ registration' \in BOOLEAN /\ Users!Finish(h)
        /\ UNCHANGED <<users, sessions, keys>>
    BY <1>11 DEF Users!HandleUpdateRegistration
  <2>2. Users!Made' = Users!Made
    BY <2>1, SameUsers
  <2>3. switches' \in 0..MaxSwitches
    BY <1>0, <2>1
  <2>4. QED
    BY <1>0, <1>4, <2>1, <2>2, <2>3, Rested
<1>12. CASE Users!HandleUpdateUserRole(h)
  <2>1. /\ switches < MaxSwitches /\ switches' = switches + 1 /\ Users!Finish(h)
        /\ UNCHANGED <<registration, sessions, keys>>
    BY <1>12 DEF Users!HandleUpdateUserRole
  <2>2. PICK t \in Users!Made, role \in {"user", "super_admin"} : users' = [users EXCEPT ![t].role = role]
    BY <1>12 DEF Users!HandleUpdateUserRole
  <2> DEFINE u == [users[t] EXCEPT !.role = role]
  <2>3. users' = [users EXCEPT ![t] = u] /\ t \in Logins
    BY <2>2 DEF Users!Made
  <2>4. u \in UserForm /\ u.made = users[t].made
    BY <1>0, <2>3 DEF UserForm
  <2> HIDE DEF u
  <2>5. users' \in [Logins -> UserForm] /\ Users!Made \subseteq Users!Made'
    BY <2>3, <2>4, UserChanges
  <2>6. switches' \in 0..MaxSwitches
    BY <1>0, <2>1
  <2>7. QED
    BY <1>0, <1>4, <2>1, <2>5, <2>6, Rested
<1>13. ASSUME NEW l \in Logins, Users!RequireSuperAdmin(h, l)
       PROVE  UserInv'
  <2>1. Users!Serve(h, asks("admin", l, "none")) /\ UNCHANGED <<users, registration, sessions, keys, switches>>
    BY <1>13, <1>60 DEF Users!RequireSuperAdmin, Users!Serve
  <2>2. l \in Users!Made
    BY <1>0, <1>13 DEF Users!RequireSuperAdmin, Users!SignedIn
  <2>3. QED
    BY <1>1, <1>5, <2>1, <2>2
<1>14. ASSUME NEW l \in Logins, Users!HandleUpdatePassword(h, l)
       PROVE  UserInv'
  <2>0. PICK p \in Passwords : Users!Serve(h, [Users!NoRequest EXCEPT !.step = "password", !.login = l, !.password = p])
    BY <1>14 DEF Users!HandleUpdatePassword
  <2>1. Users!Serve(h, asks("password", l, p))
    BY <1>60, <2>0
  <2>2. l \in Users!Made /\ UNCHANGED <<users, registration, sessions, keys, switches>>
    BY <1>0, <1>14 DEF Users!HandleUpdatePassword, Users!SignedIn
  <2>3. QED
    BY <1>1, <1>5, <2>1, <2>2
<1>15. ASSUME NEW i \in DOMAIN keys, Users!APIKeyMiddleware(h, i)
       PROVE  UserInv'
  <2>1. Users!Serve(h, asks("admin", keys[i].owner, "none")) /\ UNCHANGED <<users, registration, sessions, keys, switches>>
    BY <1>15, <1>60 DEF Users!APIKeyMiddleware, Users!Serve
  <2>2. keys[i].owner \in Users!Made /\ keys[i].owner \in Logins
    BY DEF UserInv, Tracked, Users!Made
  <2>3. QED
    BY <1>1, <1>5, <2>1, <2>2
<1>16. QED
  BY <1>6, <1>7, <1>8, <1>9, <1>10, <1>11, <1>12, <1>13, <1>14, <1>15

\* Sessions come and go without a request.
LEMMA SessionStep ==
  ASSUME Users!UsersAssumption, UserInv,
         Users!HandleDemoLogin \/ \E l \in Logins : Users!HandleUserLogin(l) \/ Users!HandleLogout(l)
  PROVE  UserInv'
<1>0. /\ users \in [Logins -> UserForm] /\ sessions \subseteq Users!Made
  BY DEF UserInv, UserShape
<1>1. ASSUME UNCHANGED <<registration, userRequests, keys, switches>>, users' \in [Logins -> UserForm],
             Users!Made \subseteq Users!Made', sessions' \subseteq Users!Made'
      PROVE  UserInv'
  <2>1. \A h \in UserHandlers : Requesting(h)'
    BY <1>1 DEF UserInv, Requesting
  <2>2. QED
    BY <1>1, <2>1, KeysStay DEF UserInv, UserShape
<1>2. CASE Users!HandleDemoLogin
  <2> DEFINE u == [users[Demo] EXCEPT !.made = TRUE]
  <2>1. /\ users' = [users EXCEPT ![Demo] = u] /\ Demo \in Logins /\ sessions' = sessions \cup {Demo}
        /\ UNCHANGED <<registration, userRequests, keys, switches>>
    BY <1>2 DEF Users!HandleDemoLogin, Users!EnsureLegacyUser
  <2>2. u \in UserForm /\ u.made
    BY <1>0, <2>1 DEF UserForm
  <2> HIDE DEF u
  <2>3. users' \in [Logins -> UserForm] /\ Users!Made \subseteq Users!Made' /\ Demo \in Users!Made'
    BY <2>1, <2>2, UserChanges
  <2>4. QED
    BY <1>0, <1>1, <2>1, <2>3
<1>3. ASSUME NEW l \in Logins, Users!HandleUserLogin(l) \/ Users!HandleLogout(l)
      PROVE  UserInv'
  <2>1. /\ UNCHANGED <<users, registration, userRequests, keys, switches>> /\ sessions' \subseteq sessions \cup {l}
        /\ l \in Users!Made
    BY <1>0, <1>3 DEF Users!HandleUserLogin, Users!HandleLogout
  <2>2. Users!Made' = Users!Made
    BY <2>1, SameUsers
  <2>3. QED
    BY <1>0, <1>1, <2>1, <2>2
<1>4. QED
  BY <1>2, <1>3

LEMMA OneAppended ==
  ASSUME NEW S, NEW s \in Seq(S), Len(s) = 1, NEW x \in S
  PROVE  Append(s, x) \in Seq(S) /\ Append(s, x)[1] = s[1] /\ Append(s, x)[2] = x /\ Len(Append(s, x)) = 2
<1>1. Append(s, x) \in Seq(S) /\ \A i \in 1..Len(s) : Append(s, x)[i] = s[i]
  BY AppendProperties
<1>2. Len(Append(s, x)) = Len(s) + 1
  BY AppendProperties
<1>3. Append(s, x)[Len(s) + 1] = x
  BY AppendProperties
<1>4. QED
  BY <1>1, <1>2, <1>3

\* The key that is added, revoked or rotated, and the trail of the others.
LEMMA KeyStep ==
  ASSUME Users!UsersAssumption, UserInv,
         \/ \E l \in Logins : Users!CreateAPIKey(l)
         \/ \E i \in DOMAIN keys : Users!Expire(i) \/ \E l \in Logins : Users!RevokeAPIKey(l, i) \/ Users!RotateAPIKey(l, i)
  PROVE  UserInv'
<1>0. /\ keys \in Seq(KeyForm) /\ Len(keys) \in Nat /\ Len(keys) <= MaxKeys /\ MaxKeys \in Nat
      /\ DOMAIN keys = 1..Len(keys) /\ sessions \subseteq Users!Made /\ Users!Made \subseteq Logins
      /\ \A i \in DOMAIN keys : Tracked(i) /\ Succeeds(i)
      /\ \A i \in DOMAIN keys : keys[i] \in KeyForm
  BY DEF UserInv, UserShape, Users!UsersAssumption, Users!Made
<1>1. ASSUME UNCHANGED <<users, registration, userRequests, sessions, switches>>, keys' \in Seq(KeyForm), Len(keys') <= MaxKeys,
             \A i \in DOMAIN keys' : Tracked(i)' /\ Succeeds(i)'
      PROVE  UserInv'
  <2>1. Users!Made' = Users!Made
    BY <1>1, SameUsers
  <2>2. UserShape' /\ \A h \in UserHandlers : Requesting(h)'
    BY <1>1, <2>1 DEF UserInv, UserShape, Requesting
  <2>3. QED
    BY <1>1, <2>2 DEF UserInv
<1>2. \A l \in Logins, e \in BOOLEAN, n \in Nat :
        /\ Users!NewKey(l, e, n) \in KeyForm /\ Users!NewKey(l, e, n).owner = l /\ Users!NewKey(l, e, n).state = "active"
        /\ Users!NewKey(l, e, n).events = <<Users!Event("created", n)>>
  BY DEF Users!NewKey, KeyForm, Users!Event, EventForm
<1>3. \A t \in {"created", "revoked", "rotated"}, n \in Nat :
        Users!Event(t, n) \in EventForm /\ Users!Event(t, n).type = t /\ Users!Event(t, n).related = n
  BY DEF Users!Event, EventForm
<1>4. ASSUME NEW l \in Logins, Users!CreateAPIKey(l)
      PROVE  UserInv'
  <2>1. PICK e \in BOOLEAN : keys' = Append(keys, Users!NewKey(l, e, 0))
    BY <1>4 DEF Users!CreateAPIKey
  <2>2. /\ UNCHANGED <<users, registration, userRequests, sessions, switches>> /\ l \in Users!Made /\ Len(keys) < MaxKeys
        /\ Users!Made' = Users!Made
    BY <1>0, <1>4, SameUsers DEF Users!CreateAPIKey, Users!SignedIn
  <2> DEFINE k == Users!NewKey(l, e, 0)
  <2>3. k \in KeyForm /\ k.owner = l /\ k.state = "active" /\ k.events = <<Users!Event("created", 0)>>
    BY <1>2
  <2> HIDE DEF k
  <2>0. PICK n \in Nat : n = Len(keys) + 1
    BY <1>0
  <2>4. /\ keys' \in Seq(KeyForm) /\ Len(keys') = n /\ DOMAIN keys' = 1..n /\ DOMAIN keys' = DOMAIN keys \cup {n}
        /\ keys'[n] = k /\ \A i \in DOMAIN keys : keys'[i] = keys[i]
    BY <1>0, <2>0, <2>1, <2>3 DEF k
  <2>5. Tracked(n)' /\ Succeeds(n)'
    <3>1. k.events # <<>> /\ k.events[1] = Users!Event("created", 0) /\ Len(k.events) = 1
      BY <2>3
    <3>2. k.events[1].type = "created" /\ k.events[1].related = 0
      BY <1>3, <3>1
    <3>3. QED
      BY <2>2, <2>3, <2>4, <3>1, <3>2 DEF Tracked, Succeeds
  <2>6. ASSUME NEW i \in DOMAIN keys
        PROVE  Tracked(i)' /\ Succeeds(i)'
    <3>1. Tracked(i) /\ Succeeds(i) /\ keys'[i] = keys[i] /\ DOMAIN keys \subseteq DOMAIN keys'
      BY <1>0, <2>4
    <3>2. Tracked(i)'
      BY <2>2, <2>4, <3>1 DEF Tracked
    <3>3. Succeeds(i)'
      BY <2>4, <3>1 DEF Succeeds
    <3>4. QED
      BY <3>2, <3>3
  <2>7. \A i \in DOMAIN keys' : Tracked(i)' /\ Succeeds(i)'
    BY <2>4, <2>5, <2>6
  <2>8. Len(keys') <= MaxKeys
    BY <1>0, <2>0, <2>2, <2>4
  <2>9. QED
    BY <1>1, <2>2, <2>4, <2>7, <2>8
<1>5. ASSUME NEW i \in DOMAIN keys, Users!Expire(i)
      PROVE  UserInv'
  <2>1. /\ UNCHANGED <<users, registration, userRequests, sessions, switches>> /\ keys[i].state = "active"
        /\ keys' = [keys EXCEPT ![i].state = "expired"] /\ Users!Made' = Users!Made
    BY <1>5, SameUsers DEF Users!Expire
  <2> DEFINE k == [keys[i] EXCEPT !.state = "expired"]
  <2>2. k \in KeyForm /\ k.owner = keys[i].owner /\ k.events = keys[i].events /\ k.state = "expired"
    BY <1>0 DEF KeyForm
  <2> HIDE DEF k
  <2>3. /\ keys' \in Seq(KeyForm) /\ Len(keys') = Len(keys) /\ DOMAIN keys' = DOMAIN keys
        /\ keys'[i] = k /\ \A j \in DOMAIN keys \ {i} : keys'[j] = keys[j]
    BY <1>0, <2>1, <2>2 DEF k
  <2>4. \A j \in DOMAIN keys : /\ keys'[j].owner = keys[j].owner /\ keys'[j].events = keys[j].events
                               /\ keys'[j].state = "revoked" <=> keys[j].state = "revoked"
    BY <2>1, <2>2, <2>3
  <2>5. ASSUME NEW j \in DOMAIN keys
        PROVE  Tracked(j)' /\ Succeeds(j)'
    <3>1. Tracked(j) /\ Succeeds(j)
      BY <1>0
    <3>2. Tracked(j)'
      BY <2>1, <2>3, <2>4, <3>1 DEF Tracked
    <3>3. Succeeds(j)'
      BY <2>3, <2>4, <3>1 DEF Succeeds
    <3>4. QED
      BY <3>2, <3>3
  <2>6. QED
    BY <1>0, <1>1, <2>1, <2>3, <2>5
<1>6. ASSUME NEW i \in DOMAIN keys, keys[i].state # "revoked", NEW t \in {"revoked", "rotated"}, NEW n \in Nat
      PROVE  /\ Users!With(i, t, n) \in Seq(KeyForm) /\ Len(Users!With(i, t, n)) = Len(keys)
             /\ Users!With(i, t, n)[i].owner = keys[i].owner /\ Users!With(i, t, n)[i].state = "revoked"
             /\ Users!With(i, t, n)[i].events[1] = keys[i].events[1] /\ Len(Users!With(i, t, n)[i].events) = 2
             /\ Users!With(i, t, n)[i].events[2] = Users!Event(t, n)
             /\ \A j \in DOMAIN keys \ {i} : Users!With(i, t, n)[j] = keys[j]
  <2> DEFINE k == [keys[i] EXCEPT !.state = "revoked", !.events = Append(@, Users!Event(t, n))]
  <2>1. Len(keys[i].events) = 1 /\ keys[i].events \in Seq(EventForm) /\ keys[i] \in KeyForm
    BY <1>0, <1>6 DEF Tracked, KeyForm
  <2>2. /\ Append(keys[i].events, Users!Event(t, n)) \in Seq(EventForm)
        /\ Append(keys[i].events, Users!Event(t, n))[1] = keys[i].events[1]
        /\ Append(keys[i].events, Users!Event(t, n))[2] = Users!Event(t, n)
        /\ Len(Append(keys[i].events, Users!Event(t, n))) = 2
    <3>1. Users!Event(t, n) \in EventForm
      BY <1>3
    <3>2. QED
      BY <2>1, <3>1, OneAppended
  <2>3. k \in KeyForm /\ k.owner = keys[i].owner /\ k.state = "revoked" /\ k.events = Append(keys[i].events, Users!Event(t, n))
    BY <2>1, <2>2 DEF KeyForm
  <2>4. Users!With(i, t, n) = [keys EXCEPT ![i] = k]
    BY DEF Users!With
  <2> HIDE DEF k
  <2>5. /\ [keys EXCEPT ![i] = k] \in Seq(KeyForm) /\ Len([keys EXCEPT ![i] = k]) = Len(keys)
        /\ [keys EXCEPT ![i] = k][i] = k /\ \A j \in DOMAIN keys \ {i} : [keys EXCEPT ![i] = k][j] = keys[j]
    BY <1>0, <2>3
  <2>6. QED
    BY <2>2, <2>3, <2>4, <2>5
<1>7. ASSUME NEW i \in DOMAIN keys, NEW l \in Logins, Users!RevokeAPIKey(l, i)
      PROVE  UserInv'
  <2>1. /\ UNCHANGED <<users, registration, userRequests, sessions, switches>> /\ keys[i].state # "revoked"
        /\ keys' = Users!With(i, "revoked", 0) /\ Users!Made' = Users!Made
    BY <1>7, SameUsers DEF Users!RevokeAPIKey, Users!MayRevoke
  <2>2. /\ keys' \in Seq(KeyForm) /\ Len(keys') = Len(keys) /\ keys'[i].owner = keys[i].owner
        /\ keys'[i].state = "revoked" /\ keys'[i].events[1] = keys[i].events[1]
        /\ Len(keys'[i].events) = 2 /\ keys'[i].events[2] = Users!Event("revoked", 0)
        /\ \A j \in DOMAIN keys \ {i} : keys'[j] = keys[j]
    BY <1>6, <2>1
  <2>3. DOMAIN keys' = DOMAIN keys /\ \A j \in DOMAIN keys : keys'[j].events[1] = keys[j].events[1]
    BY <1>0, <2>2
  <2>4. keys'[i].events[2].type = "revoked" /\ keys'[i].events # <<>>
    BY <1>3, <2>2
  <2>5. ASSUME NEW j \in DOMAIN keys
        PROVE  Tracked(j)' /\ Succeeds(j)'
    <3>1. Tracked(j) /\ Succeeds(j)
      BY <1>0
    <3>2. Tracked(j)'
      BY <2>1, <2>2, <2>3, <2>4, <3>1 DEF Tracked
    <3>3. Succeeds(j)'
      BY <2>1, <2>2, <2>3, <3>1 DEF Succeeds
    <3>4. QED
      BY <3>2, <3>3
  <2>6. QED
    BY <1>0, <1>1, <2>1, <2>2, <2>3, <2>5
<1>8. ASSUME NEW i \in DOMAIN keys, NEW l \in Logins, Users!RotateAPIKey(l, i)
      PROVE  UserInv'
  <2>0. PICK n \in Nat : n = Len(keys) + 1
    BY <1>0
  <2> DEFINE w == Users!With(i, "rotated", n)
  <2> DEFINE k == Users!NewKey(l, keys[i].expires, i)
  <2>1. /\ UNCHANGED <<users, registration, userRequests, sessions, switches>> /\ keys[i].state = "active"
        /\ keys' = Append(w, k) /\ Len(keys) < MaxKeys /\ l \in Users!Made /\ Users!Made' = Users!Made
    BY <1>0, <1>8, <2>0, SameUsers DEF Users!RotateAPIKey, Users!MayRotate, Users!Owned, Users!SignedIn
  <2>2. /\ w \in Seq(KeyForm) /\ Len(w) = Len(keys) /\ w[i].owner = keys[i].owner
        /\ w[i].state = "revoked" /\ w[i].events[1] = keys[i].events[1]
        /\ Len(w[i].events) = 2 /\ w[i].events[2] = Users!Event("rotated", n)
        /\ \A j \in DOMAIN keys \ {i} : w[j] = keys[j]
    BY <1>0, <1>6, <2>1
  <2>3. /\ k \in KeyForm /\ k.owner = l /\ k.state = "active" /\ k.events = <<Users!Event("created", i)>>
        /\ i \in Nat
    <3>1. i \in Nat /\ keys[i].expires \in BOOLEAN
      BY <1>0 DEF KeyForm
    <3>2. QED
      BY <1>2, <3>1
  <2> HIDE DEF w, k
  <2>4. /\ keys' \in Seq(KeyForm) /\ Len(keys') = n /\ DOMAIN keys' = 1..n /\ keys'[n] = k
        /\ \A j \in DOMAIN keys : keys'[j] = w[j]
        /\ DOMAIN keys' = DOMAIN keys \cup {n} /\ n \notin DOMAIN keys
    BY <1>0, <2>0, <2>1, <2>2, <2>3
  <2>50. Users!Event("rotated", n).type = "rotated" /\ Users!Event("rotated", n).related = n
    BY <1>3
  <2>5. /\ keys'[i].owner = keys[i].owner /\ keys'[i].state = "revoked" /\ Len(keys'[i].events) = 2
        /\ keys'[i].events[2].type = "rotated" /\ keys'[i].events[2].related = n /\ keys'[i].events # <<>>
        /\ \A j \in DOMAIN keys \ {i} : keys'[j] = keys[j]
        /\ \A j \in DOMAIN keys : keys'[j].events[1] = keys[j].events[1]
    BY <2>2, <2>4, <2>50
  <2>6. /\ keys'[n].owner = l /\ keys'[n].state = "active" /\ Len(keys'[n].events) = 1
        /\ keys'[n].events # <<>> /\ keys'[n].events[1].type = "created" /\ keys'[n].events[1].related = i
    <3>1. Users!Event("created", i).type = "created" /\ Users!Event("created", i).related = i
      BY <1>3, <2>3
    <3>2. keys'[n].events = <<Users!Event("created", i)>> /\ keys'[n].owner = l /\ keys'[n].state = "active"
      BY <2>3, <2>4
    <3>3. QED
      BY <3>1, <3>2
  <2>7. Tracked(n)' /\ Succeeds(n)'
    <3>1. Tracked(n)'
      BY <2>1, <2>6 DEF Tracked
    <3>2. Succeeds(n)'
      BY <2>4, <2>5, <2>6 DEF Succeeds
    <3>3. QED
      BY <3>1, <3>2
  <2>8. Tracked(i)'
    <3>1. Tracked(i) /\ n \in DOMAIN keys'
      BY <1>0, <2>4
    <3>2. QED
      BY <2>1, <2>5, <2>6, <3>1 DEF Tracked
  <2>9. ASSUME NEW j \in DOMAIN keys \ {i}
        PROVE  Tracked(j)'
    <3>1. Tracked(j) /\ DOMAIN keys \subseteq DOMAIN keys' /\ keys'[j] = keys[j]
      BY <1>0, <2>4, <2>5
    <3>2. QED
      BY <2>1, <2>5, <3>1 DEF Tracked
  <2>10. ASSUME NEW j \in DOMAIN keys
         PROVE  Succeeds(j)'
    <3>1. Succeeds(j) /\ DOMAIN keys \subseteq DOMAIN keys'
      BY <1>0, <2>4
    <3>2. QED
      BY <2>1, <2>5, <3>1 DEF Succeeds
  <2>11. \A j \in DOMAIN keys' : Tracked(j)' /\ Succeeds(j)'
    BY <2>4, <2>7, <2>8, <2>9, <2>10
  <2>12. Len(keys') <= MaxKeys
    BY <1>0, <2>0, <2>1, <2>4
  <2>13. QED
    BY <1>1, <2>1, <2>4, <2>11, <2>12
<1>9. QED
  BY <1>4, <1>5, <1>7, <1>8

LEMMA UserStep == ASSUME Users!UsersAssumption, UserInv, [Users!Next]_(Users!vars) PROVE UserInv'
<1>1. CASE UNCHANGED Users!vars
  <2>1. UNCHANGED <<users, registration, userRequests, sessions, keys, switches>>
    BY <1>1 DEF Users!vars
  <2>2. Users!Made' = Users!Made
    BY <2>1, SameUsers
  <2>3. UserShape' /\ \A h \in UserHandlers : Requesting(h)'
    BY <2>1, <2>2 DEF UserInv, UserShape, Requesting
  <2>4. QED
    BY <2>1, <2>2, <2>3, KeysStay DEF UserInv
<1>2. CASE Users!Next
  BY <1>2, UserRequestStep, SessionStep, KeyStep DEF Users!Next
<1>3. QED
  BY <1>1, <1>2

LEMMA UserSafe == ASSUME UserInv PROVE Users!TypeOK /\ Users!KeysAreTracked
<1>0. /\ keys \in Seq(KeyForm) /\ DOMAIN keys = 1..Len(keys)
      /\ \A i \in DOMAIN keys : Tracked(i) /\ Succeeds(i)
  BY DEF UserInv
<1>1. ASSUME NEW i \in DOMAIN keys
      PROVE  /\ keys[i].owner \in Users!Made /\ keys[i].state \in {"active", "expired", "revoked"}
             /\ keys[i].events \in Seq(EventForm) /\ DOMAIN keys[i].events = 1..Len(keys[i].events)
             /\ \A m \in DOMAIN keys[i].events : keys[i].events[m] \in EventForm
  <2>1. keys[i] \in KeyForm
    BY <1>0
  <2>2. QED
    BY <1>0, <2>1 DEF KeyForm, Tracked
<1>2. Users!TypeOK
  <2>1. \A l \in Logins : users[l].password \in {"none"} \cup Passwords /\ users[l].role \in {"user", "super_admin"}
    BY DEF UserInv, UserShape, UserForm
  <2>2. \A h \in UserHandlers : userRequests[h].step \in UserSteps
    BY DEF UserInv, UserShape, UserRequestForm
  <2>3. \A i \in DOMAIN keys : \A m \in DOMAIN keys[i].events : keys[i].events[m].type \in {"created", "revoked", "rotated"}
    BY <1>1 DEF EventForm
  <2>4. QED
    BY <1>1, <2>1, <2>2, <2>3 DEF Users!TypeOK, UserInv, UserShape, UserSteps
<1>3. ASSUME NEW i \in DOMAIN keys
      PROVE  Cardinality(Users!Ends(i)) = IF keys[i].state = "revoked" THEN 1 ELSE 0
  <2>1. Tracked(i)
    BY <1>0
  <2>2. CASE keys[i].state = "revoked"
    <3>1. Users!Ends(i) = {2}
      BY <1>1, <2>1, <2>2 DEF Users!Ends, Tracked
    <3>2. QED
      BY <2>2, <3>1, FS_Singleton
  <2>3. CASE keys[i].state # "revoked"
    <3>1. Users!Ends(i) = {}
      BY <1>1, <2>1, <2>3 DEF Users!Ends, Tracked
    <3>2. QED
      BY <2>3, <3>1, FS_EmptySet
  <2>4. QED
    BY <2>2, <2>3
<1>4. ASSUME NEW i \in DOMAIN keys, NEW m \in DOMAIN keys[i].events, keys[i].events[m].type = "rotated"
      PROVE  keys[keys[i].events[m].related].events[1] = Users!Event("created", i)
  <2> DEFINE j == keys[i].events[m].related
  <2>1. m = 2 /\ keys[i].state = "revoked"
    BY <1>0, <1>1, <1>4 DEF Tracked
  <2>2. j \in DOMAIN keys /\ keys[j].events[1].related = i
    BY <1>0, <1>4, <2>1 DEF Tracked
  <2>3. keys[j].events[1] \in EventForm /\ keys[j].events[1].type = "created"
    <3>1. /\ keys[j].events[1].type = "created" /\ Len(keys[j].events) \in {1, 2}
          /\ keys[j].events \in Seq(EventForm)
      BY <1>0, <1>1, <2>2 DEF Tracked
    <3>2. QED
      BY <3>1
  <2>4. QED
    BY <2>2, <2>3 DEF Users!Event, EventForm
<1>5. ASSUME NEW i \in DOMAIN keys
      PROVE  Cardinality({j \in DOMAIN keys : keys[j].events[1].related = i}) <= 1
  <2> DEFINE S == {j \in DOMAIN keys : keys[j].events[1].related = i}
  <2>1. S \subseteq {keys[i].events[2].related}
    BY <1>0 DEF Succeeds
  <2>2. S = {} \/ S = {keys[i].events[2].related}
    BY <2>1
  <2> HIDE DEF S
  <2>3. Cardinality(S) <= 1
    <3>1. CASE S = {}
      BY <3>1, FS_EmptySet
    <3>2. ASSUME NEW x, S = {x}
          PROVE  Cardinality(S) <= 1
      <4>1. Cardinality({x}) = 1
        BY FS_Singleton
      <4>2. QED
        BY <3>2, <4>1
    <3>3. QED
      BY <2>2, <3>1, <3>2
  <2>4. QED
    BY <2>3 DEF S
<1>6. QED
  BY <1>2, <1>3, <1>4, <1>5, SameCount DEF Users!KeysAreTracked
-----------------------------------------------------------------------------
(* The connected accounts and the unified inbox (ConnectedAccounts) *)

AccountSteps == {"none", "get", "list", "set", "find", "delete", "accounts", "fetch", "answered"}
AccountForm == [address : Connected!Addresses, password : Connected!MailPasswords]
Outcomes == {"nothing", "error", Connected!Primary} \cup Connected!Addresses
Listings == UNION {[D -> AccountForm] : D \in SUBSET DOMAIN Typed}
Reports == UNION {[D -> Outcomes] : D \in SUBSET Nat}
AccountCallForm == [step : AccountSteps, address : Connected!Addresses \cup {Connected!Primary},
                    password : {"none"} \cup Connected!MailPasswords,
                    listed : Listings, results : Reports, busy : SUBSET Nat]

ConnectedShape ==
  /\ records \in [Connected!Addresses -> {"none"} \cup Connected!MailPasswords] /\ upstream \in [Connectable -> Connected!MailPasswords]
  /\ called \in 0..MaxCalls /\ errors \in 0..MaxErrors
  /\ connectedCalls \in [UserHandlers -> AccountCallForm]

\* A record is written or removed under an address, with a password the mailbox took.
Addressed(h) ==
  /\ connectedCalls[h].step \in {"get", "list", "set", "delete"} => connectedCalls[h].address \in Connected!Addresses
  /\ connectedCalls[h].step \in {"get", "list", "set"} => connectedCalls[h].password \in Connected!MailPasswords

\* The goroutines that are done have reported, each in a place of its own.
Reported(h) ==
  /\ connectedCalls[h].busy \subseteq {0} \cup DOMAIN connectedCalls[h].listed
  /\ connectedCalls[h].step # "fetch" => connectedCalls[h].busy = {}
  /\ connectedCalls[h].step \in {"fetch", "answered"} =>
       /\ DOMAIN connectedCalls[h].results = Connected!Places(connectedCalls[h].listed)
       /\ 0 \notin connectedCalls[h].busy => connectedCalls[h].results[1] \in {Connected!Primary, "error"}
       /\ \A i \in DOMAIN connectedCalls[h].listed \ connectedCalls[h].busy :
            connectedCalls[h].results[i + 1] \in {connectedCalls[h].listed[i].address, "error"}

\* The addresses with a record and those that are about to get one.
Setting == {h \in UserHandlers : connectedCalls[h].step = "set"}
Claimed == Connected!Stored \cup {connectedCalls[h].address : h \in Setting}
Limited == errors = 0 => Cardinality(Claimed) < MaxConnected + Cardinality(UserHandlers)

ConnectedInv ==
  /\ ConnectedShape /\ Limited
  /\ \A h \in UserHandlers : Addressed(h) /\ Reported(h)

LEMMA NoCallForm ==
  Connected!ConnectedAssumption =>
    /\ Connected!NoCall \in AccountCallForm /\ Connected!NoCall.step = "none" /\ Connected!NoCall.listed = <<>> /\ Connected!NoCall.busy = {}
    /\ <<>> \in Listings /\ <<>> \in Reports
<1>1. <<>> = [n \in {} |-> n] /\ DOMAIN <<>> = {}
  OBVIOUS
<1>2. [n \in {} |-> n] \in [{} -> AccountForm] /\ [n \in {} |-> n] \in [{} -> Outcomes]
  OBVIOUS
<1>3. <<>> \in Listings /\ <<>> \in Reports
  BY <1>1, <1>2 DEF Listings, Reports
<1>4. QED
  BY <1>3 DEF Connected!NoCall, AccountCallForm, AccountSteps

\* What the spellings are.
LEMMA SpellingFacts ==
  Connected!ConnectedAssumption => /\ DOMAIN Typed \subseteq Nat \ {0} /\ IsFiniteSet(Connected!Addresses)
                         /\ \A i \in DOMAIN Typed : Typed[i] \in Connected!Addresses
<1> SUFFICES ASSUME Connected!ConnectedAssumption
             PROVE  /\ DOMAIN Typed \subseteq Nat \ {0} /\ IsFiniteSet(Connected!Addresses)
                    /\ \A i \in DOMAIN Typed : Typed[i] \in Connected!Addresses
  OBVIOUS
<1>1. Len(Typed) \in Nat /\ DOMAIN Typed = 1..Len(Typed)
  BY DEF Connected!ConnectedAssumption
<1>2. IsFiniteSet(DOMAIN Typed)
  BY <1>1, FS_Interval
<1> DEFINE spelled == [i \in DOMAIN Typed |-> Typed[i]]
<1>3. spelled \in Surjection(DOMAIN Typed, Connected!Addresses)
  BY DEF Surjection, Connected!Addresses
<1>4. IsFiniteSet(Connected!Addresses)
  BY <1>2, <1>3, FS_Surjection
<1>5. QED
  BY <1>1, <1>4 DEF Connected!Addresses

\* A call that changes nothing but itself, and has not come to write a new address.
LEMMA OneCall ==
  ASSUME Connected!ConnectedAssumption, ConnectedInv, NEW h \in UserHandlers, NEW c \in AccountCallForm,
         connectedCalls' = [connectedCalls EXCEPT ![h] = c], UNCHANGED <<upstream>>, called' \in 0..MaxCalls,
         records' \in [Connected!Addresses -> {"none"} \cup Connected!MailPasswords],
         errors' \in 0..MaxErrors, errors' = 0 => errors = 0 /\ Claimed' \subseteq Claimed,
         Addressed(h)', Reported(h)'
  PROVE  ConnectedInv'
<1>1. connectedCalls \in [UserHandlers -> AccountCallForm]
  BY DEF ConnectedInv, ConnectedShape
<1>2. connectedCalls' \in [UserHandlers -> AccountCallForm] /\ \A o \in UserHandlers \ {h} : connectedCalls'[o] = connectedCalls[o]
  BY <1>1
<1>3. ConnectedShape'
  BY <1>2 DEF ConnectedInv, ConnectedShape
<1>4. \A o \in UserHandlers : Addressed(o)' /\ Reported(o)'
  BY <1>2 DEF ConnectedInv, Addressed, Reported
<1>5. IsFiniteSet(Claimed)
  <2>1. IsFiniteSet(Connected!Addresses \cup {Connected!Primary})
    BY SpellingFacts, FS_AddElement
  <2>2. Claimed \subseteq Connected!Addresses \cup {Connected!Primary}
    BY <1>1 DEF Claimed, Connected!Stored, Setting, AccountCallForm
  <2>3. QED
    BY <2>1, <2>2, FS_Subset
<1>6. Limited'
  <2>1. CASE errors' = 0
    <3>1. Cardinality(Claimed') <= Cardinality(Claimed) /\ Cardinality(Claimed') \in Nat /\ Cardinality(Claimed) \in Nat
      BY <1>5, <2>1, FS_Subset, FS_CardinalityType
    <3>2. MaxConnected \in Nat /\ Cardinality(UserHandlers) \in Nat
      BY FS_CardinalityType, SameCount DEF Connected!ConnectedAssumption
    <3>3. Cardinality(Claimed) < MaxConnected + Cardinality(UserHandlers)
      BY <2>1 DEF ConnectedInv, Limited
    <3>4. QED
      BY <3>1, <3>2, <3>3 DEF Limited
  <2>2. CASE errors' # 0
    BY <2>2 DEF Limited
  <2>3. QED
    BY <2>1, <2>2
<1>7. QED
  BY <1>3, <1>4, <1>6 DEF ConnectedInv

\* The claims of the others stay.
LEMMA Claims ==
  ASSUME ConnectedInv, NEW h \in UserHandlers, NEW c, connectedCalls' = [connectedCalls EXCEPT ![h] = c],
         Connected!Stored' \subseteq Claimed, c.step = "set" => c.address \in Claimed
  PROVE  Claimed' \subseteq Claimed
<1>1. connectedCalls'[h] = c /\ \A o \in UserHandlers \ {h} : connectedCalls'[o] = connectedCalls[o]
  BY DEF ConnectedInv, ConnectedShape
<1>2. QED
  BY <1>1 DEF Claimed, Setting

\* The request that begins, and the one that ends.
LEMMA Calling ==
  ASSUME Connected!ConnectedAssumption, ConnectedInv, NEW h \in UserHandlers,
         NEW c \in AccountCallForm, c.step \in {"get", "find", "accounts"}, c.busy = {},
         c.step = "get" => c.address \in Connected!Addresses /\ c.password \in Connected!MailPasswords,
         Connected!Call(h, c), UNCHANGED <<records, upstream, errors>>
  PROVE  ConnectedInv'
<1>2. connectedCalls' = [connectedCalls EXCEPT ![h] = c] /\ called' \in 0..MaxCalls
  BY DEF Connected!Call, ConnectedInv, ConnectedShape, Connected!ConnectedAssumption
<1>3. connectedCalls'[h] = c /\ records' \in [Connected!Addresses -> {"none"} \cup Connected!MailPasswords] /\ errors' \in 0..MaxErrors
  BY <1>2 DEF ConnectedInv, ConnectedShape
<1>4. Claimed' \subseteq Claimed
  BY <1>2, Claims DEF Claimed, Connected!Stored
<1>5. Addressed(h)' /\ Reported(h)'
  BY <1>3 DEF Addressed, Reported
<1>6. QED
  BY <1>2, <1>3, <1>4, <1>5, OneCall

LEMMA Finishing ==
  ASSUME Connected!ConnectedAssumption, ConnectedInv, NEW h \in UserHandlers, Connected!Finish(h), UNCHANGED <<upstream, called>>,
         records' \in [Connected!Addresses -> {"none"} \cup Connected!MailPasswords], errors' \in 0..MaxErrors,
         errors' = 0 => errors = 0, Connected!Stored' \subseteq Claimed
  PROVE  ConnectedInv'
<1>1. connectedCalls' = [connectedCalls EXCEPT ![h] = Connected!NoCall] /\ called' \in 0..MaxCalls
  BY DEF Connected!Finish, ConnectedInv, ConnectedShape
<1>2. connectedCalls'[h] = Connected!NoCall /\ Connected!NoCall \in AccountCallForm /\ Connected!NoCall.step = "none" /\ Connected!NoCall.busy = {}
  BY <1>1, NoCallForm DEF ConnectedInv, ConnectedShape
<1>3. Claimed' \subseteq Claimed
  BY <1>1, <1>2, Claims
<1>4. Addressed(h)' /\ Reported(h)'
  BY <1>2 DEF Addressed, Reported
<1>5. QED
  BY <1>1, <1>2, <1>3, <1>4, OneCall

\* A request that goes on to another call of the store.
LEMMA Going ==
  ASSUME Connected!ConnectedAssumption, ConnectedInv, NEW h \in UserHandlers, NEW step \in {"set", "list"}, Connected!Go(h, step),
         connectedCalls[h].step \in {"get", "list"}, UNCHANGED <<records, upstream, called>>, errors' \in 0..MaxErrors,
         errors' = 0 => errors = 0 /\ (step = "set" => connectedCalls[h].address \in Connected!Stored)
  PROVE  ConnectedInv'
<1> DEFINE c == [connectedCalls[h] EXCEPT !.step = step]
<1>1. /\ connectedCalls[h] \in AccountCallForm /\ connectedCalls \in [UserHandlers -> AccountCallForm] /\ Addressed(h) /\ Reported(h)
      /\ called \in 0..MaxCalls /\ records \in [Connected!Addresses -> {"none"} \cup Connected!MailPasswords]
  BY DEF ConnectedInv, ConnectedShape
<1>2. /\ c \in AccountCallForm /\ c.step = step /\ c.address = connectedCalls[h].address /\ c.password = connectedCalls[h].password
      /\ c.listed = connectedCalls[h].listed /\ c.busy = connectedCalls[h].busy
  BY <1>1 DEF AccountCallForm, AccountSteps
<1>3. connectedCalls' = [connectedCalls EXCEPT ![h] = c]
  BY DEF Connected!Go
<1> HIDE DEF c
<1>4. connectedCalls'[h] = c
  BY <1>1, <1>3
<1>5. errors' = 0 => errors = 0 /\ Claimed' \subseteq Claimed
  BY <1>2, <1>3, Claims DEF Claimed, Connected!Stored
<1>6. Addressed(h)' /\ Reported(h)'
  BY <1>1, <1>2, <1>4 DEF Addressed, Reported
<1>7. QED
  BY <1>1, <1>2, <1>3, <1>5, <1>6, OneCall

\* Whoever is let through by the quota finds a free record; those who overlap are at most all.
LEMMA Counted ==
  ASSUME Connected!ConnectedAssumption, ConnectedInv, NEW h \in UserHandlers, connectedCalls[h].step = "list", Connected!Room, Connected!Go(h, "set"),
         UNCHANGED <<records, upstream, called, errors>>
  PROVE  ConnectedInv'
<1> DEFINE c == [connectedCalls[h] EXCEPT !.step = "set"]
<1>1. /\ connectedCalls[h] \in AccountCallForm /\ connectedCalls \in [UserHandlers -> AccountCallForm] /\ Addressed(h) /\ Reported(h)
  BY DEF ConnectedInv, ConnectedShape
<1>2. /\ c \in AccountCallForm /\ c.step = "set" /\ c.address = connectedCalls[h].address /\ c.password = connectedCalls[h].password
      /\ c.listed = connectedCalls[h].listed /\ c.busy = connectedCalls[h].busy
  BY <1>1 DEF AccountCallForm, AccountSteps
<1>3. connectedCalls' = [connectedCalls EXCEPT ![h] = c]
  BY DEF Connected!Go
<1> HIDE DEF c
<1>4. connectedCalls' \in [UserHandlers -> AccountCallForm] /\ connectedCalls'[h] = c /\ \A o \in UserHandlers \ {h} : connectedCalls'[o] = connectedCalls[o]
  BY <1>1, <1>2, <1>3
<1>5. Addressed(h)' /\ Reported(h)'
  BY <1>1, <1>2, <1>4 DEF Addressed, Reported
<1>6. ConnectedShape' /\ \A o \in UserHandlers : Addressed(o)' /\ Reported(o)'
  BY <1>4, <1>5 DEF ConnectedInv, ConnectedShape, Addressed, Reported
<1> DEFINE T == {connectedCalls'[o].address : o \in Setting'}
<1>7. IsFiniteSet(T) /\ Cardinality(T) <= Cardinality(UserHandlers) /\ Cardinality(T) \in Nat /\ Cardinality(UserHandlers) \in Nat
  <2>1. IsFiniteSet(Setting') /\ Cardinality(Setting') <= Cardinality(UserHandlers) /\ IsFiniteSet(UserHandlers)
    BY FS_Subset, SameCount DEF Setting, Connected!ConnectedAssumption
  <2> DEFINE f == [o \in Setting' |-> connectedCalls'[o].address]
  <2>2. f \in Surjection(Setting', T)
    BY DEF Surjection
  <2> HIDE DEF f, T
  <2>3. IsFiniteSet(T) /\ Cardinality(T) <= Cardinality(Setting')
    BY <2>1, <2>2, FS_Surjection
  <2>4. Cardinality(T) \in Nat /\ Cardinality(Setting') \in Nat /\ Cardinality(UserHandlers) \in Nat
    BY <2>1, <2>3, FS_CardinalityType
  <2>5. QED
    BY <2>1, <2>3, <2>4
<1>8. IsFiniteSet(Connected!Stored) /\ Cardinality(Connected!Stored) \in Nat
  BY SpellingFacts, FS_Subset, FS_CardinalityType DEF Connected!Stored
<1>9. Claimed' = Connected!Stored \cup T
  BY DEF Claimed, Connected!Stored
<1> HIDE DEF T
<1>10. Cardinality(Connected!Stored \cup T) <= Cardinality(Connected!Stored) + Cardinality(T) /\ Cardinality(Connected!Stored \cup T) \in Nat
  <2>1. /\ IsFiniteSet(Connected!Stored \cup T) /\ IsFiniteSet(Connected!Stored \cap T)
        /\ Cardinality(Connected!Stored \cup T) = Cardinality(Connected!Stored) + Cardinality(T) - Cardinality(Connected!Stored \cap T)
    BY <1>7, <1>8, FS_Union, FS_Intersection
  <2>2. Cardinality(Connected!Stored \cap T) \in Nat /\ Cardinality(Connected!Stored \cup T) \in Nat
    BY <2>1, FS_CardinalityType
  <2>3. QED
    BY <1>7, <1>8, <2>1, <2>2
<1>11. Cardinality(Connected!Stored) < MaxConnected /\ MaxConnected \in Nat
  BY SameCount DEF Connected!Room, Connected!ConnectedAssumption
<1>12. Limited'
  BY <1>7, <1>8, <1>9, <1>10, <1>11 DEF Limited
<1>13. QED
  BY <1>6, <1>12 DEF ConnectedInv

LEMMA ConnectedInit == Connected!ConnectedAssumption /\ Connected!Init => ConnectedInv
<1> SUFFICES ASSUME Connected!ConnectedAssumption, Connected!Init
             PROVE  ConnectedInv
  OBVIOUS
<1>1. MaxCalls \in Nat /\ MaxErrors \in Nat /\ MaxConnected \in Nat /\ MaxConnected # 0 /\ IsFiniteSet(UserHandlers)
  BY SameCount DEF Connected!ConnectedAssumption
<1>2. \A h \in UserHandlers : connectedCalls[h] = Connected!NoCall /\ connectedCalls[h].step = "none" /\ connectedCalls[h].busy = {}
  BY NoCallForm DEF Connected!Init
<1>3. ConnectedShape
  BY <1>1, NoCallForm DEF Connected!Init, ConnectedShape, Connected!MailPasswords
<1>4. \A h \in UserHandlers : Addressed(h) /\ Reported(h)
  BY <1>2 DEF Addressed, Reported
<1>5. Claimed = {}
  BY <1>2 DEF Claimed, Connected!Stored, Setting, Connected!Init
<1>6. Limited
  <2>1. Cardinality(Claimed) = 0
    BY <1>5, FS_EmptySet
  <2>2. Cardinality(UserHandlers) \in Nat
    BY <1>1, FS_CardinalityType
  <2>3. QED
    BY <1>1, <2>1, <2>2 DEF Limited
<1>7. QED
  BY <1>3, <1>4, <1>6 DEF ConnectedInv

\* The requests that write.
LEMMA WritingRequest ==
  ASSUME Connected!ConnectedAssumption, ConnectedInv, NEW h \in UserHandlers,
         \/ \E s \in Connected!Addresses, p \in Connected!MailPasswords : Connected!Add(h, s, p)
         \/ Connected!Get(h) \/ Connected!Count(h) \/ Connected!Set(h) \/ \E m \in Connectable : Connected!Delete(h, m)
         \/ Connected!Find(h) \/ Connected!Remove(h)
  PROVE  ConnectedInv'
<1>0. /\ connectedCalls[h] \in AccountCallForm /\ connectedCalls \in [UserHandlers -> AccountCallForm] /\ Addressed(h) /\ Reported(h)
      /\ records \in [Connected!Addresses -> {"none"} \cup Connected!MailPasswords] /\ errors \in 0..MaxErrors /\ MaxErrors \in Nat
      /\ called \in 0..MaxCalls
  BY DEF ConnectedInv, ConnectedShape, Connected!ConnectedAssumption
<1>1. Connected!Fault => errors' \in 0..MaxErrors /\ errors' # 0
  BY <1>0 DEF Connected!Fault
<1>2. Connected!Stored \subseteq Claimed /\ (connectedCalls[h].step = "set" => connectedCalls[h].address \in Claimed)
  BY DEF Claimed, Setting
<1>3. UNCHANGED records => Connected!Stored' = Connected!Stored
  BY DEF Connected!Stored
<1>4. ASSUME NEW s \in Connected!Addresses, NEW p \in Connected!MailPasswords, Connected!Add(h, s, p)
      PROVE  ConnectedInv'
  <2> DEFINE c == [Connected!NoCall EXCEPT !.step = "get", !.address = s, !.password = p]
  <2>1. c \in AccountCallForm /\ c.step = "get" /\ c.address = s /\ c.password = p /\ c.busy = {}
    BY NoCallForm DEF AccountCallForm, AccountSteps
  <2>2. Connected!Call(h, c) /\ UNCHANGED <<records, upstream, errors>>
    BY <1>4 DEF Connected!Add
  <2> HIDE DEF c
  <2>3. QED
    BY <2>1, <2>2, Calling
<1>5. CASE Connected!Get(h)
  <2>1. connectedCalls[h].step = "get" /\ UNCHANGED <<records, upstream, called>>
    BY <1>5 DEF Connected!Get
  <2>2. CASE connectedCalls[h].address \in Connected!Stored /\ Connected!Go(h, "set") /\ UNCHANGED errors
    BY <1>0, <2>1, <2>2, Going
  <2>3. CASE connectedCalls[h].address \notin Connected!Stored /\ Connected!Go(h, "list") /\ UNCHANGED errors
    BY <1>0, <2>1, <2>3, Going
  <2>4. CASE Connected!Fault /\ Connected!Go(h, "set")
    BY <1>1, <2>1, <2>4, Going
  <2>5. QED
    BY <1>5, <2>2, <2>3, <2>4 DEF Connected!Get
<1>6. CASE Connected!Count(h)
  <2>1. connectedCalls[h].step = "list" /\ UNCHANGED <<records, upstream, called>>
    BY <1>6 DEF Connected!Count
  <2>2. CASE Connected!Room /\ Connected!Go(h, "set") /\ UNCHANGED errors
    BY <2>1, <2>2, Counted
  <2>3. CASE Connected!Finish(h) /\ UNCHANGED errors
    BY <1>0, <1>2, <1>3, <2>1, <2>3, Finishing
  <2>4. CASE Connected!Fault /\ Connected!Finish(h)
    BY <1>0, <1>1, <1>2, <1>3, <2>1, <2>4, Finishing
  <2>5. QED
    BY <1>6, <2>2, <2>3, <2>4 DEF Connected!Count
<1>7. CASE Connected!Set(h) \/ Connected!Remove(h)
  <2>1. connectedCalls[h].step \in {"set", "delete"} /\ UNCHANGED <<upstream, called>> /\ Connected!Finish(h)
    BY <1>7 DEF Connected!Set, Connected!Remove
  <2>2. CASE Connected!Fault /\ UNCHANGED records
    BY <1>0, <1>1, <1>2, <1>3, <2>1, <2>2, Finishing
  <2>3. CASE records' = [records EXCEPT ![connectedCalls[h].address] = connectedCalls[h].password] /\ UNCHANGED errors /\ Connected!Set(h)
    <3>1. /\ connectedCalls[h].step = "set" /\ connectedCalls[h].address \in Connected!Addresses /\ connectedCalls[h].password \in {"none"} \cup Connected!MailPasswords
      BY <1>0, <2>3 DEF Connected!Set, Addressed, AccountCallForm
    <3>2. records' \in [Connected!Addresses -> {"none"} \cup Connected!MailPasswords]
      BY <1>0, <2>3, <3>1
    <3>3. Connected!Stored' \subseteq Connected!Stored \cup {connectedCalls[h].address}
      BY <1>0, <2>3, <3>1 DEF Connected!Stored
    <3>4. QED
      BY <1>0, <1>2, <2>1, <2>3, <3>1, <3>2, <3>3, Finishing
  <2>4. CASE records' = [records EXCEPT ![connectedCalls[h].address] = "none"] /\ UNCHANGED errors
    <3>1. records' \in [Connected!Addresses -> {"none"} \cup Connected!MailPasswords] /\ Connected!Stored' \subseteq Connected!Stored
      BY <1>0, <2>4 DEF Connected!Stored
    <3>2. QED
      BY <1>0, <1>2, <2>1, <2>4, <3>1, Finishing
  <2>5. QED
    BY <1>7, <2>2, <2>3, <2>4 DEF Connected!Set, Connected!Remove
<1>8. ASSUME NEW m \in Connectable, Connected!Delete(h, m)
      PROVE  ConnectedInv'
  <2>1. PICK s \in Connected!Addresses : Connected!Call(h, [Connected!NoCall EXCEPT !.step = "find", !.address = s])
    <3>1. \E s \in Connected!Addresses : SameMailbox[s] = m
      BY DEF Connected!ConnectedAssumption
    <3>2. (CHOOSE s \in Connected!Addresses : SameMailbox[s] = m) \in Connected!Addresses
      BY <3>1
    <3>3. QED
      BY <1>8, <3>2 DEF Connected!Delete
  <2> DEFINE c == [Connected!NoCall EXCEPT !.step = "find", !.address = s]
  <2>2. c \in AccountCallForm /\ c.step = "find" /\ c.busy = {}
    BY NoCallForm DEF AccountCallForm, AccountSteps
  <2> HIDE DEF c
  <2>3. UNCHANGED <<records, upstream, errors>>
    BY <1>8 DEF Connected!Delete
  <2>4. QED
    <3>1. Connected!Call(h, c)
      BY <2>1 DEF c
    <3>2. QED
      BY <2>2, <2>3, <3>1, Calling
<1>9. CASE Connected!Find(h)
  <2>1. connectedCalls[h].step = "find" /\ UNCHANGED <<records, upstream, called>>
    BY <1>9 DEF Connected!Find
  <2>2. CASE Connected!Finish(h) /\ UNCHANGED errors
    BY <1>0, <1>2, <1>3, <2>1, <2>2, Finishing
  <2>3. CASE Connected!Fault /\ Connected!Finish(h)
    BY <1>0, <1>1, <1>2, <1>3, <2>1, <2>3, Finishing
  <2>4. ASSUME NEW i \in DOMAIN Connected!Listed, connectedCalls' = [connectedCalls EXCEPT ![h].step = "delete", ![h].address = Connected!Listed[i].address],
               UNCHANGED errors
        PROVE  ConnectedInv'
    <3>1. PICK s \in Connected!Addresses : s = Connected!Listed[i].address
      BY SpellingFacts DEF Connected!Listed
    <3> DEFINE c == [connectedCalls[h] EXCEPT !.step = "delete", !.address = s]
    <3>2. /\ c \in AccountCallForm /\ c.step = "delete" /\ c.address = s
          /\ c.listed = connectedCalls[h].listed /\ c.busy = connectedCalls[h].busy
      BY <1>0 DEF AccountCallForm, AccountSteps
    <3>3. connectedCalls' = [connectedCalls EXCEPT ![h] = c]
      BY <2>4, <3>1
    <3> HIDE DEF c
    <3>4. connectedCalls'[h] = c
      BY <1>0, <3>3
    <3>5. Claimed' \subseteq Claimed
      BY <1>2, <1>3, <2>1, <3>2, <3>3, Claims
    <3>6. Addressed(h)' /\ Reported(h)'
      BY <1>0, <2>1, <3>2, <3>4 DEF Addressed, Reported
    <3>7. QED
      BY <1>0, <2>1, <2>4, <3>2, <3>3, <3>5, <3>6, OneCall
  <2>5. QED
    BY <1>9, <2>2, <2>3, <2>4 DEF Connected!Find
<1>10. QED
  BY <1>4, <1>5, <1>6, <1>7, <1>8, <1>9

\* The unified inbox.
LEMMA UnifyingRequest ==
  ASSUME Connected!ConnectedAssumption, ConnectedInv, NEW h \in UserHandlers,
         Connected!Unify(h) \/ Connected!Spawn(h) \/ Connected!Fetch(h) \/ Connected!Merge(h)
  PROVE  ConnectedInv'
<1>0. /\ connectedCalls[h] \in AccountCallForm /\ connectedCalls \in [UserHandlers -> AccountCallForm] /\ Addressed(h) /\ Reported(h)
      /\ records \in [Connected!Addresses -> {"none"} \cup Connected!MailPasswords] /\ errors \in 0..MaxErrors /\ MaxErrors \in Nat
      /\ called \in 0..MaxCalls /\ connectedCalls[h].listed \in Listings
  BY DEF ConnectedInv, ConnectedShape, Connected!ConnectedAssumption, AccountCallForm
<1>1. Connected!Fault => errors' \in 0..MaxErrors /\ errors' # 0
  BY <1>0 DEF Connected!Fault
<1>2. Connected!Stored \subseteq Claimed
  BY DEF Claimed
<1>3. UNCHANGED records => Connected!Stored' = Connected!Stored
  BY DEF Connected!Stored
<1>4. DOMAIN connectedCalls[h].listed \subseteq Nat \ {0}
  BY <1>0, SpellingFacts DEF Listings
<1>5. ASSUME NEW c \in AccountCallForm, c.step \in {"fetch", "answered"}, connectedCalls' = [connectedCalls EXCEPT ![h] = c],
             UNCHANGED <<records, upstream, called, errors>>,
             c.busy \subseteq {0} \cup DOMAIN c.listed, c.step # "fetch" => c.busy = {},
             DOMAIN c.results = Connected!Places(c.listed),
             0 \notin c.busy => c.results[1] \in {Connected!Primary, "error"},
             \A i \in DOMAIN c.listed \ c.busy : c.results[i + 1] \in {c.listed[i].address, "error"}
      PROVE  ConnectedInv'
  <2>1. connectedCalls'[h] = c
    BY <1>0, <1>5
  <2>2. Claimed' \subseteq Claimed
    BY <1>2, <1>3, <1>5, Claims
  <2>3. Addressed(h)'
    BY <1>5, <2>1 DEF Addressed
  <2>4. Reported(h)'
    BY <1>5, <2>1 DEF Reported
  <2>5. QED
    BY <1>0, <1>5, <2>1, <2>2, <2>3, <2>4, OneCall
<1>6. CASE Connected!Unify(h)
  <2> DEFINE c == [Connected!NoCall EXCEPT !.step = "accounts"]
  <2>1. c \in AccountCallForm /\ c.step = "accounts" /\ c.busy = {}
    BY NoCallForm DEF AccountCallForm, AccountSteps
  <2>2. Connected!Call(h, c) /\ UNCHANGED <<records, upstream, errors>>
    BY <1>6 DEF Connected!Unify
  <2> HIDE DEF c
  <2>3. QED
    BY <2>1, <2>2, Calling
<1>7. CASE Connected!Spawn(h)
  <2>1. connectedCalls[h].step = "accounts" /\ UNCHANGED <<records, upstream, called>>
    BY <1>7 DEF Connected!Spawn
  <2>2. CASE Connected!Fault /\ Connected!Finish(h)
    BY <1>0, <1>1, <1>2, <1>3, <2>1, <2>2, Finishing
  <2>3. CASE UNCHANGED errors /\ connectedCalls' = [connectedCalls EXCEPT
               ![h].step = "fetch", ![h].listed = Connected!Listed, ![h].busy = {0} \cup DOMAIN Connected!Listed,
               ![h].results = [n \in Connected!Places(Connected!Listed) |-> "nothing"]]
    <3>1. PICK ls : ls = Connected!Listed
      OBVIOUS
    <3>2. ls \in Listings /\ DOMAIN ls \subseteq Nat
      <4>1. DOMAIN ls = {n \in DOMAIN Typed : Typed[n] \in Connected!Stored}
        BY <3>1 DEF Connected!Listed
      <4>2. \A i \in DOMAIN ls : ls[i] = [address |-> Typed[i], password |-> records[Typed[i]]]
        BY <3>1 DEF Connected!Listed
      <4>3. \A i \in DOMAIN ls : ls[i] \in AccountForm
        BY <1>0, <4>1, <4>2, SpellingFacts DEF AccountForm, Connected!Stored
      <4>4. ls \in [DOMAIN ls -> AccountForm]
        BY <3>1, <4>3 DEF Connected!Listed
      <4>5. QED
        BY <4>1, <4>4, SpellingFacts DEF Listings
    <3>3. PICK rs : rs = [n \in Connected!Places(ls) |-> "nothing"]
      OBVIOUS
    <3>4. rs \in Reports /\ DOMAIN rs = Connected!Places(ls)
      <4>1. Connected!Places(ls) \subseteq Nat
        BY <3>2 DEF Connected!Places
      <4>2. rs \in [Connected!Places(ls) -> Outcomes]
        BY <3>3 DEF Outcomes
      <4>3. QED
        BY <3>3, <4>1, <4>2 DEF Reports
    <3>5. PICK b \in SUBSET Nat : b = {0} \cup DOMAIN ls
      <4>1. {0} \cup DOMAIN ls \subseteq Nat
        BY <3>2
      <4>2. QED
        BY <4>1, Zenon
    <3> DEFINE c == [connectedCalls[h] EXCEPT !.step = "fetch", !.listed = ls, !.busy = b, !.results = rs]
    <3>6. /\ c \in AccountCallForm /\ c.step = "fetch" /\ c.listed = ls /\ c.busy = b /\ c.results = rs
      BY <1>0, <3>2, <3>4 DEF AccountCallForm, AccountSteps
    <3>7. connectedCalls' = [connectedCalls EXCEPT ![h] = c]
      BY <2>3, <3>1, <3>3, <3>5
    <3> HIDE DEF c
    <3>8. QED
      BY <1>5, <2>1, <2>3, <3>4, <3>5, <3>6, <3>7
  <2>4. QED
    BY <1>7, <2>2, <2>3 DEF Connected!Spawn
<1>8. CASE Connected!Fetch(h)
  <2>1. PICK i \in connectedCalls[h].busy, r \in Outcomes :
          /\ Connected!Report(h, i, r)
          /\ i = 0 => r \in {Connected!Primary, "error"}
          /\ i # 0 => r \in {connectedCalls[h].listed[i].address, "error"}
    <3>1. \A i \in DOMAIN connectedCalls[h].listed : connectedCalls[h].listed[i].address \in Connected!Addresses
      BY <1>0 DEF Listings, AccountForm
    <3>2. connectedCalls[h].busy \subseteq {0} \cup DOMAIN connectedCalls[h].listed /\ connectedCalls[h].busy \subseteq Nat
      BY <1>0 DEF Reported, AccountCallForm
    <3>3. PICK i \in connectedCalls[h].busy :
            \/ Connected!Report(h, i, "error")
            \/ i = 0 /\ Connected!Report(h, i, Connected!Primary)
            \/ i > 0 /\ Connected!Report(h, i, connectedCalls[h].listed[i].address)
      BY <1>8 DEF Connected!Fetch
    <3>4. i > 0 => i \in DOMAIN connectedCalls[h].listed /\ i # 0
      BY <3>2
    <3>5. QED
      BY <3>1, <3>3, <3>4 DEF Outcomes
  <2>2. /\ connectedCalls[h].step = "fetch" /\ DOMAIN connectedCalls[h].results = Connected!Places(connectedCalls[h].listed)
        /\ 0 \notin connectedCalls[h].busy => connectedCalls[h].results[1] \in {Connected!Primary, "error"}
        /\ \A j \in DOMAIN connectedCalls[h].listed \ connectedCalls[h].busy :
             connectedCalls[h].results[j + 1] \in {connectedCalls[h].listed[j].address, "error"}
        /\ i \in Nat /\ connectedCalls[h].busy \subseteq {0} \cup DOMAIN connectedCalls[h].listed /\ connectedCalls[h].results \in Reports
        /\ connectedCalls[h].busy \subseteq Nat
    BY <1>0, <2>1 DEF Reported, AccountCallForm
  <2>3. i + 1 \in DOMAIN connectedCalls[h].results /\ i + 1 \in Nat
    BY <2>2 DEF Connected!Places
  <2> DEFINE rs == [connectedCalls[h].results EXCEPT ![i + 1] = r]
  <2>4. /\ rs \in Reports /\ DOMAIN rs = DOMAIN connectedCalls[h].results /\ rs[i + 1] = r
        /\ \A n \in DOMAIN connectedCalls[h].results \ {i + 1} : rs[n] = connectedCalls[h].results[n]
    <3>1. PICK D \in SUBSET Nat : connectedCalls[h].results \in [D -> Outcomes]
      BY <2>2 DEF Reports
    <3>2. rs \in [D -> Outcomes]
      BY <3>1
    <3>3. QED
      BY <2>3, <3>1, <3>2 DEF Reports
  <2> DEFINE c == [connectedCalls[h] EXCEPT !.results = rs, !.busy = connectedCalls[h].busy \ {i}]
  <2>5. connectedCalls' = [connectedCalls EXCEPT ![h] = c] /\ UNCHANGED <<records, upstream, called, errors>>
    BY <2>1 DEF Connected!Report, Connected!Place
  <2> HIDE DEF rs
  <2>6. /\ c \in AccountCallForm /\ c.step = "fetch" /\ c.listed = connectedCalls[h].listed /\ c.results = rs
        /\ c.busy = connectedCalls[h].busy \ {i}
    BY <1>0, <2>2, <2>4 DEF AccountCallForm
  <2> HIDE DEF c
  <2>7. 0 \notin c.busy => c.results[1] \in {Connected!Primary, "error"}
    <3>1. CASE i = 0
      BY <2>1, <2>4, <2>6, <3>1
    <3>2. CASE i # 0
      <4>1. i + 1 # 1 /\ 1 \in DOMAIN connectedCalls[h].results
        BY <2>2, <3>2 DEF Connected!Places
      <4>2. QED
        BY <2>2, <2>4, <2>6, <3>2, <4>1
    <3>3. QED
      BY <3>1, <3>2
  <2>8. ASSUME NEW j \in DOMAIN c.listed \ c.busy
        PROVE  c.results[j + 1] \in {c.listed[j].address, "error"}
    <3>1. j \in Nat /\ j # 0 /\ j \in DOMAIN connectedCalls[h].listed
      BY <1>4, <2>6, <2>8
    <3>2. CASE j = i
      BY <2>1, <2>4, <2>6, <3>1, <3>2
    <3>3. CASE j # i
      <4>1. j + 1 # i + 1 /\ j + 1 \in DOMAIN connectedCalls[h].results /\ j \notin connectedCalls[h].busy
        BY <2>2, <2>6, <2>8, <3>1, <3>3 DEF Connected!Places
      <4>2. QED
        BY <2>2, <2>4, <2>6, <3>1, <4>1
    <3>4. QED
      BY <3>2, <3>3
  <2>9. c.busy \subseteq {0} \cup DOMAIN c.listed /\ DOMAIN c.results = Connected!Places(c.listed)
    BY <2>2, <2>4, <2>6
  <2>10. QED
    BY <1>5, <2>5, <2>6, <2>7, <2>8, <2>9
<1>9. CASE Connected!Merge(h)
  <2> DEFINE c == [connectedCalls[h] EXCEPT !.step = "answered"]
  <2>1. connectedCalls[h].step = "fetch" /\ connectedCalls[h].busy = {} /\ connectedCalls' = [connectedCalls EXCEPT ![h] = c]
        /\ UNCHANGED <<records, upstream, called, errors>>
    BY <1>9 DEF Connected!Merge, Connected!Go
  <2>2. /\ c \in AccountCallForm /\ c.step = "answered" /\ c.listed = connectedCalls[h].listed /\ c.busy = {}
        /\ c.results = connectedCalls[h].results
    BY <1>0, <2>1 DEF AccountCallForm, AccountSteps
  <2> HIDE DEF c
  <2>3. QED
    BY <1>0, <1>5, <2>1, <2>2 DEF Reported
<1>10. QED
  BY <1>6, <1>7, <1>8, <1>9

LEMMA ConnectedStep == ASSUME Connected!ConnectedAssumption, ConnectedInv, [Connected!Next]_(Connected!vars) PROVE ConnectedInv'
<1>1. CASE UNCHANGED Connected!vars
  <2>1. UNCHANGED <<records, upstream, connectedCalls, called, errors>>
    BY <1>1 DEF Connected!vars
  <2>2. Claimed' = Claimed /\ \A h \in UserHandlers : Addressed(h)' /\ Reported(h)'
    BY <2>1 DEF Claimed, Setting, Connected!Stored, ConnectedInv, Addressed, Reported
  <2>3. QED
    BY <2>1, <2>2 DEF ConnectedInv, ConnectedShape, Limited
<1>2. ASSUME NEW m \in Connectable, Connected!Change(m)
      PROVE  ConnectedInv'
  <2>1. upstream' = [upstream EXCEPT ![m] = "new"] /\ UNCHANGED <<records, connectedCalls, called, errors>>
    BY <1>2 DEF Connected!Change
  <2>2. Claimed' = Claimed /\ \A h \in UserHandlers : Addressed(h)' /\ Reported(h)'
    BY <2>1 DEF Claimed, Setting, Connected!Stored, ConnectedInv, Addressed, Reported
  <2>3. upstream' \in [Connectable -> Connected!MailPasswords]
    BY <2>1 DEF ConnectedInv, ConnectedShape, Connected!MailPasswords
  <2>4. QED
    BY <2>1, <2>2, <2>3 DEF ConnectedInv, ConnectedShape, Limited
<1>3. CASE Connected!Next
  BY <1>2, <1>3, WritingRequest, UnifyingRequest DEF Connected!Next
<1>4. QED
  BY <1>1, <1>3

LEMMA ConnectedSafe == ASSUME Connected!ConnectedAssumption, ConnectedInv PROVE Connected!TypeOK /\ Connected!ConnectedIsSound
<1>0. connectedCalls \in [UserHandlers -> AccountCallForm]
  BY DEF ConnectedInv, ConnectedShape
<1>1. Connected!TypeOK
  <2>1. ASSUME NEW h \in UserHandlers
        PROVE  /\ connectedCalls[h].step \in AccountSteps /\ connectedCalls[h].address \in Connected!Addresses \cup {Connected!Primary}
               /\ Connected!Range(connectedCalls[h].listed) \subseteq AccountForm
               /\ Connected!Range(connectedCalls[h].results) \subseteq Outcomes
               /\ connectedCalls[h].busy \subseteq {0} \cup DOMAIN connectedCalls[h].listed
    <3>1. connectedCalls[h] \in AccountCallForm /\ Reported(h)
      BY <1>0 DEF ConnectedInv
    <3>2. PICK D \in SUBSET DOMAIN Typed : connectedCalls[h].listed \in [D -> AccountForm]
      BY <3>1 DEF AccountCallForm, Listings
    <3>3. PICK E \in SUBSET Nat : connectedCalls[h].results \in [E -> Outcomes]
      BY <3>1 DEF AccountCallForm, Reports
    <3>4. QED
      BY <3>1, <3>2, <3>3 DEF AccountCallForm, Connected!Range, Reported
  <2>2. QED
    BY <2>1 DEF ConnectedInv, ConnectedShape, Connected!TypeOK, AccountSteps, AccountForm, Outcomes
<1>2. Connected!UnifiedIsComplete
  <2>1. ASSUME NEW h \in UserHandlers, connectedCalls[h].step = "answered"
        PROVE  /\ connectedCalls[h].results[1] \in {Connected!Primary, "error"}
               /\ \A i \in DOMAIN connectedCalls[h].listed :
                    connectedCalls[h].results[i + 1] \in {connectedCalls[h].listed[i].address, "error"}
    BY <2>1 DEF ConnectedInv, Reported
  <2>2. QED
    BY <2>1 DEF Connected!UnifiedIsComplete
<1>3. Connected!QuotaIsNearlyKept
  <2>1. IsFiniteSet(Claimed)
    <3>1. IsFiniteSet(Connected!Addresses \cup {Connected!Primary})
      BY SpellingFacts, FS_AddElement
    <3>2. Claimed \subseteq Connected!Addresses \cup {Connected!Primary}
      BY <1>0 DEF Claimed, Connected!Stored, Setting, AccountCallForm
    <3>3. QED
      BY <3>1, <3>2, FS_Subset
  <2>2. Connected!Stored \subseteq Claimed
    BY DEF Claimed
  <2>3. Cardinality(Connected!Stored) <= Cardinality(Claimed) /\ Cardinality(Connected!Stored) \in Nat /\ Cardinality(Claimed) \in Nat
    BY <2>1, <2>2, FS_Subset, FS_CardinalityType
  <2>4. MaxConnected \in Nat /\ Cardinality(UserHandlers) \in Nat
    BY FS_CardinalityType, SameCount DEF Connected!ConnectedAssumption
  <2>5. QED
    BY <2>3, <2>4, SameCount DEF ConnectedInv, Limited, Connected!QuotaIsNearlyKept
<1>4. QED
  BY <1>1, <1>2, <1>3 DEF Connected!ConnectedIsSound

-----------------------------------------------------------------------------
(* The update of the program (SelfUpdate) *)

\* What can be started.
Good == 1..published \ Hollow

\* The steps of a request that has a verified program in its hands, and those of them at
\* which the old backup is gone.
Holding == {"write", "unlink", "link", "rename", "restart", "restore"}
Backing == {"link", "rename", "restart", "restore"}

RequestForm == [step : {"none", "refused", "download"} \cup Holding,
                release : Nat, found : Nat, alone : BOOLEAN]

UpdateShape ==
  /\ published \in Update!Versions /\ serving \in {Update!NoProcess} \cup Update!Versions
  /\ installs \in [Installers -> RequestForm]

\* What a request carries is newer than the process, and what it holds can be started.
Carried(h) ==
  /\ installs[h].step \in {"download"} \cup Holding =>
       installs[h].release \in 1..published /\ installs[h].release > serving
  /\ installs[h].step \in Holding => installs[h].release \notin Hollow

\* A request beside which nobody is at work knows the files by itself.
Knowing(h) == installs[h].alone =>
  /\ \A o \in Installers \ {h} : ~Update!AtWork(o)
  /\ installs[h].step \in {"refused", "download", "write", "unlink", "link", "rename"} =>
       executable = installs[h].found
  /\ installs[h].step \in {"rename", "restart", "restore"} => previous = installs[h].found
  /\ installs[h].step # "none" => installs[h].found # Update!NoFile

\* Files are put back only after a child could not be started.
Restarting(h) ==
  /\ installs[h].step = "restore" => unrestarted
  /\ installs[h].step = "restart" /\ ~unrestarted => executable > serving

\* A backup can be started, and the one a request may put back is not older than the process.
Backup(h) == installs[h].step \in Backing => previous = Update!NoFile \/ previous >= serving

Requested == \A h \in Installers : Carried(h) /\ Knowing(h) /\ Restarting(h) /\ Backup(h)

\* Without a process there is no request, and no promise of one.
Down == serving = Update!NoProcess => ~promised /\ \A h \in Installers : installs[h] = Update!NoInstall

UpdateInv ==
  /\ UpdateShape /\ Update!StartsAgain /\ (previous = Update!NoFile \/ previous \in Good)
  /\ Requested /\ Down /\ Update!PromisedIsInstalled

\* The server starts as the only version there is, with nothing under way.
LEMMA UpdateInit == Update!SelfUpdateAssumption /\ Update!Init => UpdateInv
<1> SUFFICES ASSUME Update!SelfUpdateAssumption, Update!Init
             PROVE  UpdateInv
  OBVIOUS
<1>1. published \in Nat /\ published >= 1 /\ MaxVersion \in Nat /\ 1 \notin Hollow /\ 1 \in Update!Versions
  BY DEF Update!SelfUpdateAssumption, Update!Init, Update!Versions
<1>2. \A h \in Installers : installs[h].step = "none" /\ ~installs[h].alone
  BY DEF Update!Init, Update!NoInstall
<1>3. Update!NoInstall \in RequestForm
  BY DEF Update!NoInstall, RequestForm
<1>4. UpdateShape
  BY <1>1, <1>3 DEF UpdateShape, Update!Init
<1>5. Requested
  BY <1>2 DEF Requested, Carried, Knowing, Restarting, Backup, Holding, Backing
<1>6. Update!StartsAgain /\ previous = Update!NoFile /\ serving # Update!NoProcess
  BY <1>1 DEF Update!Init, Update!StartsAgain, Update!NoFile, Update!NoProcess
<1>7. ~promised
  BY DEF Update!Init
<1>8. QED
  BY <1>4, <1>5, <1>6, <1>7 DEF UpdateInv, Down, Update!PromisedIsInstalled

\* A step of a request moves it on and leaves the others where they are.
LEMMA Continued ==
  ASSUME installs \in [Installers -> RequestForm], NEW h \in Installers, NEW s, Update!Continue(h, s)
  PROVE  /\ s \in {"none", "refused", "download"} \cup Holding => installs' \in [Installers -> RequestForm]
         /\ \A o \in Installers \ {h} : installs'[o] = installs[o]
         /\ installs'[h].step = s /\ installs'[h].release = installs[h].release
         /\ installs'[h].found = installs[h].found /\ installs'[h].alone = installs[h].alone
BY DEF Update!Continue, RequestForm

\* While a request is at work, no other one is alone, and the process runs.
LEMMA Busy ==
  ASSUME UpdateInv, NEW h \in Installers, Update!AtWork(h)
  PROVE  /\ \A o \in Installers \ {h} : ~installs[o].alone
         /\ serving # Update!NoProcess
BY DEF UpdateInv, Requested, Knowing, Down, Update!AtWork, Update!NoInstall

\* A new request keeps what holds of the files, and spoils the solitude of the others.
LEMMA RequestStep == ASSUME Update!SelfUpdateAssumption, UpdateInv, NEW h \in Installers, Update!Request(h) PROVE UpdateInv'
<1> DEFINE others == \A o \in Installers : ~Update!AtWork(o)
<1>1. /\ installs'[h] = [step |-> "download", release |-> published, found |-> executable, alone |-> others]
      /\ \A o \in Installers \ {h} : installs'[o] = [installs[o] EXCEPT !.alone = FALSE]
      /\ DOMAIN installs' = Installers /\ installs' = [o \in Installers |-> installs'[o]]
      /\ UNCHANGED <<published, executable, previous, serving, promised, unrestarted>>
      /\ published > serving /\ serving # Update!NoProcess
  BY DEF Update!Request, Update!Latest, Update!Newer, Update!files, Update!process
<1>2. published \in Nat /\ executable \in Nat /\ executable # Update!NoFile /\ published >= 1 /\ serving \in Nat
  BY DEF UpdateInv, UpdateShape, Update!StartsAgain, Update!Versions, Update!NoFile, Update!SelfUpdateAssumption, Update!NoProcess
<1>3. ASSUME NEW o \in Installers \ {h}
      PROVE  /\ installs'[o] \in RequestForm /\ installs'[o].alone = FALSE
             /\ installs'[o].step = installs[o].step /\ installs'[o].release = installs[o].release
  <2>1. installs[o] \in RequestForm /\ installs'[o] = [installs[o] EXCEPT !.alone = FALSE]
    BY <1>1 DEF UpdateInv, UpdateShape
  <2>2. QED
    BY <2>1 DEF RequestForm
<1>4. installs'[h] \in RequestForm
  BY <1>1, <1>2 DEF RequestForm
<1>5. UpdateShape'
  BY <1>1, <1>3, <1>4 DEF UpdateInv, UpdateShape
<1>6. Knowing(h)' /\ Carried(h)' /\ Restarting(h)' /\ Backup(h)'
  <2>1. /\ installs'[h].step = "download" /\ installs'[h].release = published
        /\ installs'[h].found = executable
    BY <1>1
  <2>2. installs'[h].alone => others
    BY <1>1
  <2>3. others => \A o \in Installers \ {h} : ~Update!AtWork(o)'
    BY <1>3 DEF Update!AtWork
  <2>4. QED
    BY <1>1, <1>2, <2>1, <2>2, <2>3 DEF Knowing, Carried, Restarting, Backup, Holding, Backing
<1>7. ASSUME NEW o \in Installers \ {h}
      PROVE  Knowing(o)' /\ Carried(o)' /\ Restarting(o)' /\ Backup(o)'
  BY <1>1, <1>3, Zenon DEF Knowing, Carried, Restarting, Backup, UpdateInv, Requested
<1>8. QED
  BY <1>1, <1>5, <1>6, <1>7 DEF UpdateInv, Requested, Down, Update!PromisedIsInstalled, Update!StartsAgain, Good

\* The steps of one request.
LEMMA WorkStep ==
  ASSUME Update!SelfUpdateAssumption, UpdateInv, NEW h \in Installers,
         Update!Download(h) \/ Update!Write(h) \/ Update!Unlink(h) \/ Update!Link(h) \/ Update!Rename(h) \/ Update!Restart(h) \/ Update!Restore(h)
  PROVE  UpdateInv'
<1> DEFINE Others == \A o \in Installers \ {h} : installs'[o] = installs[o] /\ ~installs[o].alone
           Mine == installs'[h].found = installs[h].found /\ installs'[h].alone = installs[h].alone
           Carrying == installs'[h].release = installs[h].release
<1>0. /\ Update!AtWork(h) /\ serving # Update!NoProcess /\ UNCHANGED <<published, serving>>
      /\ \A o \in Installers \ {h} : ~installs[o].alone
      /\ published \in Nat /\ serving \in Nat /\ executable \in Good /\ executable >= serving
      /\ installs[h].release \in Nat
      /\ installs \in [Installers -> RequestForm]
  <2>1. Update!AtWork(h) /\ UNCHANGED <<published, serving>>
    BY DEF Update!Download, Update!Write, Update!Unlink, Update!Link, Update!Rename, Update!Restart, Update!Restore, Update!AtWork, Update!files, Update!process, Update!PutBack
  <2>2. QED
    BY <2>1, Busy DEF UpdateInv, UpdateShape, Update!Versions, Update!NoProcess, Update!StartsAgain, Good, RequestForm,
                      Update!SelfUpdateAssumption
<1> DEFINE Step(s) == installs'[h].step = s
           Same == UNCHANGED <<executable, previous, promised, unrestarted>>
<1> HIDE DEF Others, Mine, Carrying, Step, Same
<1>1. ASSUME NEW s \in {"none", "refused", "download"} \cup Holding, Update!Continue(h, s)
      PROVE  installs' \in [Installers -> RequestForm] /\ Others /\ Mine /\ Carrying /\ Step(s)
  BY <1>0, <1>1, Continued DEF Others, Mine, Carrying, Step
<1>2. ASSUME installs' \in [Installers -> RequestForm], Others,
             Knowing(h)', Carried(h)', Restarting(h)', Backup(h)',
             \A o \in Installers \ {h} : Backup(o)' /\ Restarting(o)',
             executable' \in Good /\ executable' >= serving,
             previous' = Update!NoFile \/ previous' \in Good, Update!PromisedIsInstalled'
      PROVE  UpdateInv'
  <2>1. UpdateShape'
    BY <1>0, <1>2 DEF UpdateInv, UpdateShape
  <2>2. ASSUME NEW o \in Installers \ {h}
        PROVE  Knowing(o)' /\ Carried(o)'
    <3>1. installs'[o] = installs[o] /\ ~installs[o].alone
      BY <1>2 DEF Others
    <3>2. QED
      BY <1>0, <3>1 DEF UpdateInv, Requested, Knowing, Carried
  <2>3. QED
    BY <1>0, <1>2, <2>1, <2>2 DEF UpdateInv, Requested, Update!StartsAgain, Good, Down
<1>3. ASSUME NEW s \in {"none", "refused", "download"} \cup Holding, Update!Continue(h, s), Same
      PROVE  /\ \A o \in Installers \ {h} : Backup(o)' /\ Restarting(o)'
             /\ executable' \in Good /\ executable' >= serving
             /\ previous' = Update!NoFile \/ previous' \in Good
             /\ Update!PromisedIsInstalled'
  BY <1>0, <1>1, <1>3
     DEF Others, Same, UpdateInv, Requested, Backup, Restarting, Good, Update!PromisedIsInstalled
<1>4. ASSUME NEW s \in {"refused", "write", "unlink"}, Same, Others, Mine, Carrying, Step(s),
             installs' \in [Installers -> RequestForm], installs[h].step \in {"download", "write"},
             s \in Holding => installs[h].release \notin Hollow
      PROVE  UpdateInv'
  <2>1. Knowing(h)'
    BY <1>4 DEF Others, Mine, Step, Same, Knowing, UpdateInv, Requested, Update!AtWork
  <2>2. Carried(h)' /\ Restarting(h)' /\ Backup(h)'
    BY <1>0, <1>4 DEF Carrying, Step, Same, Carried, Restarting, Backup, Holding, Backing, UpdateInv, Requested
  <2>3. \A o \in Installers \ {h} : Backup(o)' /\ Restarting(o)'
    BY <1>0, <1>4 DEF Others, Same, UpdateInv, Requested, Backup, Restarting
  <2>4. /\ executable' \in Good /\ executable' >= serving
        /\ previous' = Update!NoFile \/ previous' \in Good
        /\ Update!PromisedIsInstalled'
    BY <1>0, <1>4 DEF Same, UpdateInv, Good, Update!PromisedIsInstalled
  <2>5. QED
    BY <1>2, <1>4, <2>1, <2>2, <2>3, <2>4
<1>5. CASE Update!Download(h)
  <2>1. installs[h].step = "download" /\ Same
    BY <1>5 DEF Update!Download, Same, Update!files, Update!process
  <2>2. CASE Update!Continue(h, "refused")
    BY <1>1, <1>4, <2>1, <2>2 DEF Holding
  <2>3. CASE ~Update!Continue(h, "refused")
    <3>1. /\ installs' = [installs EXCEPT ![h].step = "write", ![h].release = installs[h].release]
          /\ installs[h].release \notin Hollow
      BY <1>5, <2>3, Zenon DEF Update!Download, Update!Verified, Update!HoldsProgram
    <3>2. Others /\ Mine /\ Carrying /\ Step("write") /\ installs' \in [Installers -> RequestForm]
      BY <1>0, <3>1 DEF Others, Mine, Carrying, Step, RequestForm, Holding
    <3>3. QED
      BY <1>4, <2>1, <3>1, <3>2
  <2>4. QED
    BY <2>2, <2>3
<1>6. CASE Update!Write(h)
  <2>1. installs[h].step = "write" /\ Same /\ (Update!Continue(h, "unlink") \/ Update!Continue(h, "refused"))
    BY <1>6 DEF Update!Write, Same, Update!files, Update!process
  <2>2. installs[h].release \notin Hollow
    BY <2>1 DEF UpdateInv, Requested, Carried, Holding
  <2>3. QED
    BY <1>1, <1>4, <2>1, <2>2 DEF Holding
<1>7. CASE Update!Unlink(h)
  <2>1. /\ installs[h].step = "unlink" /\ Update!Continue(h, "link") /\ previous' = Update!NoFile
        /\ UNCHANGED <<executable, promised, unrestarted>>
    BY <1>7 DEF Update!Unlink, Update!process
  <2>2. Others /\ Mine /\ Carrying /\ Step("link") /\ installs' \in [Installers -> RequestForm]
    BY <1>1, <2>1 DEF Holding
  <2>3. Knowing(h)' /\ Carried(h)' /\ Restarting(h)' /\ Backup(h)'
    BY <1>0, <2>1, <2>2
       DEF Others, Mine, Carrying, Step, Knowing, Carried, Restarting, Backup, Holding, UpdateInv, Requested, Update!AtWork
  <2>4. \A o \in Installers \ {h} : Backup(o)' /\ Restarting(o)'
    BY <1>0, <2>1, <2>2 DEF Others, UpdateInv, Requested, Backup, Restarting
  <2>5. Update!PromisedIsInstalled'
    BY <1>0, <2>1 DEF UpdateInv, Update!PromisedIsInstalled
  <2>6. QED
    BY <1>0, <1>2, <2>1, <2>2, <2>3, <2>4, <2>5
<1>8. CASE Update!Link(h)
  <2>1. CASE Update!Continue(h, "refused") /\ UNCHANGED previous
    <3>1. Same /\ installs[h].step = "link"
      BY <1>8, <2>1 DEF Update!Link, Update!process, Same
    <3>2. Others /\ Mine /\ Carrying /\ Step("refused") /\ installs' \in [Installers -> RequestForm]
      BY <1>1, <2>1
    <3>3. Knowing(h)' /\ Carried(h)' /\ Restarting(h)' /\ Backup(h)'
      BY <1>0, <3>1, <3>2
         DEF Others, Mine, Carrying, Step, Same, Knowing, Carried, Restarting, Backup, Holding, Backing,
             UpdateInv, Requested, Update!AtWork
    <3>4. QED
      BY <1>2, <1>3, <2>1, <3>1, <3>2, <3>3
  <2>2. CASE previous = Update!NoFile
    <3>1. /\ installs[h].step = "link" /\ Update!Continue(h, "rename") /\ previous' = executable
          /\ UNCHANGED <<executable, promised, unrestarted>>
      BY <1>8, <2>2 DEF Update!Link, Update!process
    <3>2. Others /\ Mine /\ Carrying /\ Step("rename") /\ installs' \in [Installers -> RequestForm]
      BY <1>1, <3>1 DEF Holding
    <3>3. Knowing(h)' /\ Carried(h)' /\ Restarting(h)' /\ Backup(h)'
      BY <1>0, <3>1, <3>2
         DEF Others, Mine, Carrying, Step, Knowing, Carried, Restarting, Backup, Holding, UpdateInv,
             Requested, Update!AtWork
    <3>4. \A o \in Installers \ {h} : Backup(o)' /\ Restarting(o)'
      BY <1>0, <3>1, <3>2 DEF Others, UpdateInv, Requested, Backup, Restarting
    <3>5. Update!PromisedIsInstalled'
      BY <1>0, <3>1 DEF UpdateInv, Update!PromisedIsInstalled
    <3>6. QED
      BY <1>0, <1>2, <3>1, <3>2, <3>3, <3>4, <3>5
  <2>3. QED
    BY <1>8, <2>1, <2>2 DEF Update!Link
<1>9. CASE Update!Rename(h)
  <2>1. installs[h].step = "rename" /\ UNCHANGED <<promised, unrestarted>>
    BY <1>9 DEF Update!Rename, Update!process
  <2>2. CASE executable' = installs[h].release /\ Update!Continue(h, "restart") /\ UNCHANGED previous
    <3>1. executable' \in Good /\ executable' > serving
      BY <1>0, <2>1, <2>2 DEF UpdateInv, Requested, Carried, Holding, Good
    <3>2. Others /\ Mine /\ Carrying /\ Step("restart") /\ installs' \in [Installers -> RequestForm]
      BY <1>1, <2>2 DEF Holding
    <3>3. Knowing(h)' /\ Carried(h)' /\ Restarting(h)' /\ Backup(h)'
      BY <1>0, <2>1, <2>2, <3>1, <3>2
         DEF Others, Mine, Carrying, Step, Knowing, Carried, Restarting, Backup, Holding, Backing, UpdateInv,
             Requested, Update!AtWork
    <3>4. \A o \in Installers \ {h} : Backup(o)' /\ Restarting(o)'
      BY <1>0, <2>1, <2>2, <3>1, <3>2 DEF Others, UpdateInv, Requested, Backup, Restarting
    <3>5. Update!PromisedIsInstalled'
      BY <1>0, <2>1, <3>1 DEF UpdateInv, Update!PromisedIsInstalled
    <3>6. QED
      BY <1>0, <1>2, <2>1, <2>2, <3>1, <3>2, <3>3, <3>4, <3>5 DEF UpdateInv, Good
  <2>3. CASE previous' = Update!NoFile /\ Update!Continue(h, "refused") /\ UNCHANGED executable
    <3>1. Others /\ Mine /\ Carrying /\ Step("refused") /\ installs' \in [Installers -> RequestForm]
      BY <1>1, <2>3
    <3>2. Knowing(h)' /\ Carried(h)' /\ Restarting(h)' /\ Backup(h)'
      BY <1>0, <2>1, <2>3, <3>1
         DEF Others, Mine, Carrying, Step, Knowing, Carried, Restarting, Backup, Holding, Backing, UpdateInv,
             Requested, Update!AtWork
    <3>3. \A o \in Installers \ {h} : Backup(o)' /\ Restarting(o)'
      BY <1>0, <2>1, <2>3, <3>1 DEF Others, UpdateInv, Requested, Backup, Restarting
    <3>4. Update!PromisedIsInstalled'
      BY <1>0, <2>1, <2>3 DEF UpdateInv, Update!PromisedIsInstalled
    <3>5. QED
      BY <1>0, <1>2, <2>1, <2>3, <3>1, <3>2, <3>3, <3>4
  <2>4. QED
    BY <1>9, <2>2, <2>3 DEF Update!Rename
<1>10. CASE Update!Restart(h)
  <2>1. installs[h].step = "restart" /\ UNCHANGED <<executable, previous>>
    BY <1>10 DEF Update!Restart, Update!files
  <2>2. \/ Update!Continue(h, "none") /\ UNCHANGED unrestarted
        \/ Update!Continue(h, "restore") /\ unrestarted' = TRUE /\ UNCHANGED promised
    BY <1>10 DEF Update!Restart
  <2>3. PICK s \in {"none", "restore"} : Update!Continue(h, s) /\ (s = "restore" => unrestarted')
    BY <2>2
  <2>4. Others /\ Mine /\ Carrying /\ Step(s) /\ installs' \in [Installers -> RequestForm]
    BY <1>1, <2>3 DEF Holding
  <2>5. Knowing(h)' /\ Carried(h)' /\ Restarting(h)' /\ Backup(h)'
    BY <1>0, <2>1, <2>3, <2>4
       DEF Others, Mine, Carrying, Step, Knowing, Carried, Restarting, Backup, Holding, Backing, UpdateInv,
           Requested, Update!AtWork
  <2>6. \A o \in Installers \ {h} : Backup(o)' /\ Restarting(o)'
    BY <1>0, <2>1, <2>2, <2>4 DEF Others, UpdateInv, Requested, Backup, Restarting
  <2>7. Update!PromisedIsInstalled'
    BY <1>0, <2>1, <2>2 DEF UpdateInv, Requested, Restarting, Update!PromisedIsInstalled
  <2>8. QED
    BY <1>0, <1>2, <2>1, <2>4, <2>5, <2>6, <2>7 DEF UpdateInv, Good
<1>11. CASE Update!Restore(h)
  <2>1. /\ installs[h].step = "restore" /\ Update!Continue(h, "refused") /\ UNCHANGED <<promised, unrestarted>>
        /\ Update!PutBack /\ unrestarted
    BY <1>11 DEF Update!Restore, Update!process, UpdateInv, Requested, Restarting
  <2>2. Others /\ Mine /\ Carrying /\ Step("refused") /\ installs' \in [Installers -> RequestForm]
    BY <1>1, <2>1
  <2>3. \/ previous = Update!NoFile /\ UNCHANGED <<executable, previous>>
        \/ previous # Update!NoFile /\ executable' = previous /\ previous' = Update!NoFile
    BY <2>1, Zenon DEF Update!PutBack, Update!files
  <2>4. Knowing(h)' /\ Carried(h)' /\ Restarting(h)' /\ Backup(h)'
    BY <1>0, <2>1, <2>2, <2>3
       DEF Others, Mine, Carrying, Step, Knowing, Carried, Restarting, Backup, Holding, Backing, UpdateInv,
           Requested, Update!AtWork
  <2>5. \A o \in Installers \ {h} : Backup(o)' /\ Restarting(o)'
    BY <1>0, <2>1, <2>2, <2>3 DEF Others, UpdateInv, Requested, Backup, Restarting
  <2>6. executable' \in Good /\ executable' >= serving /\ (previous' = Update!NoFile \/ previous' \in Good)
    BY <1>0, <2>1, <2>3 DEF UpdateInv, Requested, Backup, Backing, Good
  <2>7. Update!PromisedIsInstalled'
    BY <2>1 DEF Update!PromisedIsInstalled
  <2>8. QED
    BY <1>2, <2>2, <2>4, <2>5, <2>6, <2>7
<1>12. QED
  BY <1>5, <1>6, <1>7, <1>8, <1>9, <1>10, <1>11

\* The steps of the process and of its children, and a new release.
LEMMA ProcessStep ==
  ASSUME Update!SelfUpdateAssumption, UpdateInv, Update!Exit \/ Update!Kill \/ Update!Wake \/ Update!Start \/ Update!Publish
  PROVE  UpdateInv'
<1>0. /\ published \in Nat /\ serving \in Nat /\ executable \in Good /\ executable >= serving
      /\ published <= MaxVersion /\ MaxVersion \in Nat
  BY DEF UpdateInv, UpdateShape, Update!Versions, Update!NoProcess, Update!StartsAgain, Good, Update!SelfUpdateAssumption
<1>1. CASE Update!Exit \/ Update!Kill
  <2>1. Update!Die /\ UNCHANGED <<published, executable, previous>>
    BY <1>1 DEF Update!Exit, Update!Kill, Update!files
  <2>2. ASSUME NEW o \in Installers
        PROVE  installs'[o] = Update!NoInstall /\ Update!NoInstall.step = "none" /\ ~Update!NoInstall.alone /\ Update!NoInstall \in RequestForm
    BY <2>1 DEF Update!Die, Update!NoInstall, RequestForm
  <2>3. UpdateShape' /\ Down'
    BY <2>1, <2>2 DEF Update!Die, UpdateInv, UpdateShape, Down
  <2>4. Requested'
    BY <2>2 DEF Requested, Carried, Knowing, Restarting, Backup, Holding, Backing
  <2>5. Update!PromisedIsInstalled'
    BY <2>1 DEF Update!Die, Update!PromisedIsInstalled
  <2>6. QED
    BY <1>0, <2>1, <2>3, <2>4, <2>5 DEF Update!Die, UpdateInv, Update!StartsAgain, Good, Update!NoProcess
<1>2. CASE (Update!Wake \/ Update!Start) /\ serving' # serving
  <2>1. /\ serving = Update!NoProcess /\ serving' = executable /\ executable \in Update!Versions
        /\ UNCHANGED <<published, executable, previous, promised, unrestarted, installs>>
    BY <1>2 DEF Update!Wake, Update!Start, Update!files
  <2>2. ~promised /\ \A o \in Installers : installs[o] = Update!NoInstall
    BY <2>1 DEF UpdateInv, Down
  <2>3. Update!NoInstall.step = "none"
    BY DEF Update!NoInstall
  <2>4. UpdateShape' /\ Down' /\ Update!PromisedIsInstalled'
    BY <1>0, <2>1, <2>2 DEF UpdateInv, UpdateShape, Down, Update!PromisedIsInstalled, Update!NoProcess, Update!Versions
  <2>5. Requested'
    BY <2>1, <2>2, <2>3 DEF UpdateInv, Requested, Carried, Knowing, Restarting, Backup, Holding, Backing, Update!AtWork
  <2>6. QED
    BY <1>0, <2>1, <2>4, <2>5 DEF UpdateInv, Update!StartsAgain, Good
<1>3. CASE (Update!Wake \/ Update!Start) /\ serving' = serving
  <2>1. UNCHANGED <<published, executable, previous, promised, unrestarted, installs, serving>>
    BY <1>3 DEF Update!Wake, Update!Start, Update!files
  <2>2. QED
    BY <2>1 DEF UpdateInv, UpdateShape, Update!StartsAgain, Good, Requested, Down, Update!PromisedIsInstalled, Carried,
                Knowing, Restarting, Backup, Update!AtWork
<1>4. CASE Update!Publish
  <2>1. /\ published' = published + 1 /\ published < MaxVersion
        /\ UNCHANGED <<executable, previous, promised, unrestarted, installs, serving>>
    BY <1>4 DEF Update!Publish, Update!files, Update!process
  <2>2. UpdateShape' /\ Down' /\ Update!PromisedIsInstalled'
    BY <1>0, <2>1 DEF UpdateInv, UpdateShape, Down, Update!PromisedIsInstalled, Update!Versions
  <2>3. Requested'
    BY <1>0, <2>1
       DEF UpdateInv, UpdateShape, Requested, Carried, Knowing, Restarting, Backup, Update!AtWork, RequestForm
  <2>4. QED
    BY <1>0, <2>1, <2>2, <2>3 DEF UpdateInv, Update!StartsAgain, Good
<1>5. QED
  BY <1>1, <1>2, <1>3, <1>4

LEMMA UpdateStep == ASSUME Update!SelfUpdateAssumption, UpdateInv, [Update!Next]_(Update!vars) PROVE UpdateInv'
<1>1. CASE UNCHANGED Update!vars
  BY <1>1 DEF Update!vars, Update!files, Update!process, UpdateInv, UpdateShape, Update!StartsAgain, Good, Requested, Down,
              Update!PromisedIsInstalled, Carried, Knowing, Restarting, Backup, Update!AtWork
<1>2. CASE Update!Next
  BY <1>2, RequestStep, WorkStep, ProcessStep DEF Update!Next
<1>3. QED
  BY <1>1, <1>2

\* A request that is refused and alone knows the executable.
LEMMA UpdateSafe == ASSUME UpdateInv PROVE Update!UpdateIsSafe
BY DEF UpdateInv, Update!UpdateIsSafe, Update!RefusedChangesNothing, Requested, Knowing

\* The requests under way.
Installing == {h \in Installers : Update!AtWork(h)}

InstallForm == [step : {"none", "refused", "download", "write", "unlink", "link", "rename", "restart",
                        "restore"},
                release : 0..MaxVersion, found : 0..MaxVersion + 1, alone : BOOLEAN]

\* A child is started by a request, which ends with it: there are never more than were asked for.
UpdateTyped ==
  /\ published \in Update!Versions /\ serving \in {Update!NoProcess} \cup Update!Versions
  /\ executable \in 0..MaxVersion + 1 /\ previous \in 0..MaxVersion + 1
  /\ installs \in [Installers -> InstallForm]
  /\ children \in Nat /\ installsAsked \in 0..MaxInstalls /\ dies \in 0..MaxStops
  /\ IsFiniteSet(Installing) /\ children + Cardinality(Installing) <= installsAsked
  /\ leaving \in BOOLEAN /\ promised \in BOOLEAN /\ unrestarted \in BOOLEAN

LEMMA UpdateTypes ==
  ASSUME Update!SelfUpdateAssumption, UpdateTyped
  PROVE  Update!TypeOK
<1>1. Cardinality(Installing) \in Nat
  BY FS_CardinalityType DEF UpdateTyped
<1>2. children \in 0..MaxInstalls
  BY <1>1 DEF UpdateTyped, Update!SelfUpdateAssumption
<1>3. {executable, previous} \subseteq 0..MaxVersion + 1 /\ {leaving, promised, unrestarted} \subseteq BOOLEAN
  BY Zenon DEF UpdateTyped
<1>4. QED
  BY <1>2, <1>3 DEF UpdateTyped, Update!TypeOK, InstallForm

LEMMA UpdateTypedInit == Update!SelfUpdateAssumption /\ Update!Init => UpdateTyped
<1> SUFFICES ASSUME Update!SelfUpdateAssumption, Update!Init
             PROVE  UpdateTyped
  OBVIOUS
<1>1. Installing = {}
  BY DEF Installing, Update!AtWork, Update!Init, Update!NoInstall
<1>2. IsFiniteSet(Installing) /\ Cardinality(Installing) = 0
  BY <1>1, FS_EmptySet
<1>3. Update!NoInstall \in InstallForm
  BY DEF Update!NoInstall, InstallForm, Update!SelfUpdateAssumption
<1>4. /\ published \in Update!Versions /\ serving \in {Update!NoProcess} \cup Update!Versions
      /\ executable \in 0..MaxVersion + 1 /\ previous \in 0..MaxVersion + 1
      /\ children \in Nat /\ installsAsked \in 0..MaxInstalls /\ dies \in 0..MaxStops
      /\ children + Cardinality(Installing) <= installsAsked
  BY <1>2 DEF Update!Init, Update!SelfUpdateAssumption, Update!Versions, Update!NoProcess, Update!NoFile
<1>5. leaving \in BOOLEAN /\ promised \in BOOLEAN /\ unrestarted \in BOOLEAN
  BY Zenon DEF Update!Init
<1>6. QED
  BY <1>2, <1>3, <1>4, <1>5 DEF UpdateTyped, Update!Init

\* A request that moves on, or ends, leaves no more under way.
LEMMA Proceeds ==
  ASSUME UpdateTyped, NEW h \in Installers, NEW q \in InstallForm, Update!AtWork(h),
         installs' = [installs EXCEPT ![h] = q]
  PROVE  /\ installs' \in [Installers -> InstallForm]
         /\ IsFiniteSet(Installing)' /\ Cardinality(Installing)' <= Cardinality(Installing)
         /\ Cardinality(Installing) \in Nat /\ Cardinality(Installing)' \in Nat
         /\ q.step = "none" => Cardinality(Installing)' = Cardinality(Installing) - 1
<1>1. installs \in [Installers -> InstallForm] /\ IsFiniteSet(Installing)
  BY DEF UpdateTyped
<1>2. installs' \in [Installers -> InstallForm]
  BY <1>1
<1>3. Installing' \subseteq Installing /\ (q.step = "none" => Installing' = Installing \ {h}) /\ h \in Installing
  BY <1>1 DEF Installing, Update!AtWork
<1>4. IsFiniteSet(Installing') /\ Cardinality(Installing') <= Cardinality(Installing)
  BY <1>1, <1>3, FS_Subset
<1>5. Cardinality(Installing \ {h}) = Cardinality(Installing) - 1
  BY <1>1, <1>3, FS_RemoveElement
<1>6. Cardinality(Installing) \in Nat /\ Cardinality(Installing') \in Nat
  BY <1>1, <1>4, FS_CardinalityType
<1>7. QED
  BY <1>2, <1>3, <1>4, <1>5, <1>6

LEMMA UpdateTypedStep ==
  ASSUME Update!SelfUpdateAssumption, UpdateTyped, [Update!Next]_(Update!vars)
  PROVE  UpdateTyped'
<1>0. MaxVersion \in Nat /\ MaxInstalls \in Nat /\ MaxStops \in Nat /\ Cardinality(Installing) \in Nat
  BY FS_CardinalityType DEF Update!SelfUpdateAssumption, UpdateTyped
<1>1. ASSUME UNCHANGED Update!vars PROVE UpdateTyped'
  BY <1>1, Zenon DEF Update!vars, Update!files, Update!process, UpdateTyped, Installing, Update!AtWork
<1>2. ASSUME NEW h \in Installers, Update!Request(h) PROVE UpdateTyped'
  <2>1. /\ Installing' = Installing \union {h} /\ h \notin Installing
    <3>1. /\ \A o \in Installers \ {h} : installs'[o].step = installs[o].step
          /\ installs'[h].step = "download"
      BY <1>2 DEF Update!Request, UpdateTyped, InstallForm
    <3>2. QED
      BY <1>2, <3>1 DEF Installing, Update!AtWork, Update!Request
  <2>2. IsFiniteSet(Installing') /\ Cardinality(Installing') = Cardinality(Installing) + 1
    BY <2>1, FS_AddElement DEF UpdateTyped
  <2>3. installs' \in [Installers -> InstallForm]
    <3>1. PICK alone \in BOOLEAN : installs' = [o \in Installers |->
             IF o = h THEN [step |-> "download", release |-> published, found |-> executable, alone |-> alone]
             ELSE [installs[o] EXCEPT !.alone = FALSE]]
      BY <1>2 DEF Update!Request, Update!Latest
    <3>2. [step |-> "download", release |-> published, found |-> executable, alone |-> alone] \in InstallForm
      BY <1>0 DEF UpdateTyped, InstallForm, Update!Versions
    <3>3. ASSUME NEW o \in Installers PROVE [installs[o] EXCEPT !.alone = FALSE] \in InstallForm
      BY DEF UpdateTyped, InstallForm
    <3>4. QED
      BY <3>1, <3>2, <3>3
  <2>4. /\ installsAsked' = installsAsked + 1 /\ installsAsked < MaxInstalls
        /\ UNCHANGED <<published, serving, executable, previous, children, dies, leaving, promised, unrestarted>>
    BY <1>2 DEF Update!Request, Update!files, Update!process
  <2>5. installsAsked' \in 0..MaxInstalls /\ children' + Cardinality(Installing)' <= installsAsked'
    BY <1>0, <2>2, <2>4 DEF UpdateTyped
  <2>6. QED
    BY <2>2, <2>3, <2>4, <2>5, Zenon DEF UpdateTyped
<1>3. ASSUME NEW h \in Installers,
             Update!Download(h) \/ Update!Write(h) \/ Update!Unlink(h) \/ Update!Link(h) \/ Update!Rename(h) \/ Update!Restart(h) \/ Update!Restore(h)
      PROVE  UpdateTyped'
  <2> DEFINE Kept == UNCHANGED <<published, serving, installsAsked, dies>>
  <2>0. Update!AtWork(h) /\ Kept /\ installs[h] \in InstallForm /\ installs \in [Installers -> InstallForm]
    BY <1>3 DEF Update!AtWork, Update!Download, Update!Write, Update!Unlink, Update!Link, Update!Rename, Update!Restart, Update!Restore, Update!process, UpdateTyped
  <2>1. PICK q \in InstallForm : installs' = [installs EXCEPT ![h] = q] /\ (q.step = "none" \/ UNCHANGED children)
                                 /\ (Update!Restart(h) => UNCHANGED children \/ (q.step = "none" /\ children' = children + 1))
    <3>1. \A a \in {"write", "unlink", "link", "rename", "restart", "restore", "refused", "none"} :
            [installs[h] EXCEPT !.step = a] \in InstallForm /\ [installs[h] EXCEPT !.step = a].step = a
      BY <2>0 DEF InstallForm
    <3>2. CASE Update!Download(h)
      <4>1. ASSUME NEW archive \in Update!Downloads(installs[h].release), Update!Verified(archive, installs[h].release),
                   installs' = [installs EXCEPT ![h].step = "write", ![h].release = archive]
            PROVE  \E q \in InstallForm : installs' = [installs EXCEPT ![h] = q]
        <5>1. archive = installs[h].release
          BY <4>1 DEF Update!Verified
        <5>2. PICK q : q = [installs[h] EXCEPT !.step = "write", !.release = archive]
          OBVIOUS
        <5>3. q \in InstallForm
          BY <5>1, <5>2, <2>0 DEF InstallForm
        <5>4. installs' = [installs EXCEPT ![h] = q]
          BY <4>1, <5>2, <2>0
        <5>5. QED
          BY <5>3, <5>4
      <4>2. \/ \E q \in InstallForm : installs' = [installs EXCEPT ![h] = q]
            \/ Update!Continue(h, "refused")
        BY <3>2, <4>1 DEF Update!Download
      <4>3. UNCHANGED children /\ ~Update!Restart(h)
        BY <3>2 DEF Update!Download, Update!process, Update!Restart
      <4>4. QED
        BY <3>1, <4>2, <4>3 DEF Update!Continue
    <3>3. CASE Update!Write(h) \/ Update!Unlink(h) \/ Update!Link(h) \/ Update!Rename(h) \/ Update!Restore(h)
      <4>1. \E a \in {"unlink", "link", "rename", "restart", "refused"} : Update!Continue(h, a)
        BY <3>3 DEF Update!Write, Update!Unlink, Update!Link, Update!Rename, Update!Restore
      <4>2. UNCHANGED children /\ ~Update!Restart(h)
        BY <3>3 DEF Update!Write, Update!Unlink, Update!Link, Update!Rename, Update!Restore, Update!process, Update!Restart
      <4>3. QED
        BY <3>1, <4>1, <4>2 DEF Update!Continue
    <3>4. CASE Update!Restart(h)
      BY <3>1, <3>4 DEF Update!Restart, Update!Continue
    <3>5. QED
      BY <1>3, <3>2, <3>3, <3>4
  <2>2. /\ installs' \in [Installers -> InstallForm]
        /\ IsFiniteSet(Installing)' /\ Cardinality(Installing)' <= Cardinality(Installing)
        /\ Cardinality(Installing)' \in Nat
        /\ q.step = "none" => Cardinality(Installing)' = Cardinality(Installing) - 1
    BY <2>0, <2>1, Proceeds
  <2>3. children' = children \/ (q.step = "none" /\ children' = children + 1)
    BY <1>3, <2>1 DEF Update!Download, Update!Write, Update!Unlink, Update!Link, Update!Rename, Update!Restore, Update!process
  <2>4. children' \in Nat /\ children' + Cardinality(Installing)' <= installsAsked'
    BY <1>0, <2>0, <2>2, <2>3 DEF UpdateTyped
  <2>5. executable' \in 0..MaxVersion + 1 /\ previous' \in 0..MaxVersion + 1
    BY <1>0, <1>3, <2>0 DEF Update!Download, Update!Write, Update!Unlink, Update!Link, Update!Rename, Update!Restart, Update!Restore, Update!PutBack, Update!files, UpdateTyped,
       InstallForm, Update!NoFile
  <2>6. leaving' \in BOOLEAN /\ promised' \in BOOLEAN /\ unrestarted' \in BOOLEAN
    <3>1. CASE Update!Restart(h)
      BY <3>1, Zenon DEF Update!Restart, UpdateTyped
    <3>2. CASE ~Update!Restart(h)
      <4>1. UNCHANGED <<leaving, promised, unrestarted>>
        BY <1>3, <3>2 DEF Update!Download, Update!Write, Update!Unlink, Update!Link, Update!Rename, Update!Restore, Update!process
      <4>2. QED
        BY <4>1, Zenon DEF UpdateTyped
    <3>3. QED
      BY <3>1, <3>2
  <2>7. QED
    BY <2>0, <2>2, <2>4, <2>5, <2>6, Zenon DEF UpdateTyped
<1>4. ASSUME Update!Exit \/ Update!Kill PROVE UpdateTyped'
  <2>1. Update!Die /\ UNCHANGED <<published, executable, previous, children, installsAsked>> /\ dies' \in 0..MaxStops
    BY <1>0, <1>4 DEF Update!Exit, Update!Kill, Update!files, UpdateTyped
  <2>2. Installing' = {}
    BY <2>1 DEF Update!Die, Installing, Update!AtWork, Update!NoInstall
  <2>3. IsFiniteSet(Installing') /\ Cardinality(Installing') = 0
    BY <2>2, FS_EmptySet
  <2>4. Update!NoInstall \in InstallForm
    BY <1>0 DEF Update!NoInstall, InstallForm
  <2>5. installs' \in [Installers -> InstallForm] /\ serving' \in {Update!NoProcess} \cup Update!Versions
    BY <2>1, <2>4 DEF Update!Die
  <2>6. children' + Cardinality(Installing)' <= installsAsked'
    BY <1>0, <2>1, <2>3 DEF UpdateTyped
  <2>7. leaving' \in BOOLEAN /\ promised' \in BOOLEAN /\ unrestarted' \in BOOLEAN
    BY <2>1, Zenon DEF Update!Die
  <2>8. QED
    BY <2>1, <2>3, <2>5, <2>6, <2>7, Zenon DEF UpdateTyped
<1>5. ASSUME Update!Wake \/ Update!Start \/ Update!Publish PROVE UpdateTyped'
  <2>1. /\ UNCHANGED <<executable, previous, installs, installsAsked, dies, leaving, promised, unrestarted>>
        /\ children' \in Nat /\ children' <= children
        /\ published' \in Update!Versions /\ serving' \in {Update!NoProcess} \cup Update!Versions
    BY <1>0, <1>5 DEF Update!Wake, Update!Start, Update!Publish, Update!files, Update!process, UpdateTyped, Update!Versions
  <2>2. UNCHANGED Installing
    BY <2>1 DEF Installing, Update!AtWork
  <2>3. children' + Cardinality(Installing)' <= installsAsked'
    BY <1>0, <2>1, <2>2 DEF UpdateTyped
  <2>4. QED
    BY <2>1, <2>2, <2>3, Zenon DEF UpdateTyped
<1>6. QED
  BY <1>1, <1>2, <1>3, <1>4, <1>5 DEF Update!Next
-----------------------------------------------------------------------------
(* The components together *)

ProgramInv == ConfigInv /\ UserInv /\ ConnectedInv /\ UpdateInv /\ UpdateTyped
OneWorks == working \in {"run", "completion", "chat", "results", "config", "users", "connected", "updating"}

LEMMA ProgramInvariant == AssistantSpec => [](OneWorks /\ ProgramInv)
<1>1. AssistantInit => OneWorks /\ ProgramInv
  BY AssistantAssumption, ConfigInit, UserInit, ConnectedInit, UpdateInit, UpdateTypedInit
  DEF AssistantInit, AssistantAssumption, OneWorks, ProgramInv
<1>2. OneWorks /\ ProgramInv /\ [AssistantNext]_assistantVars => OneWorks' /\ ProgramInv'
  <2> SUFFICES ASSUME OneWorks, ProgramInv, [AssistantNext]_assistantVars
               PROVE  OneWorks' /\ ProgramInv'
    OBVIOUS
  <2>1. OneWorks'
    BY StepOfOne DEF OneWorks
  <2>2. ConfigInv' /\ UserInv'
    BY AssistantAssumption, ConfigStep, UserStep, StepOfOne DEF AssistantAssumption, ProgramInv
  <2>3. ConnectedInv' /\ UpdateInv' /\ UpdateTyped'
    BY AssistantAssumption, ConnectedStep, UpdateStep, UpdateTypedStep, StepOfOne
    DEF AssistantAssumption, ProgramInv
  <2>4. QED
    BY <2>1, <2>2, <2>3 DEF ProgramInv
<1>3. QED
  BY <1>1, <1>2, PTL DEF AssistantSpec

\* Every variable of the AI parts, of the users and their keys, of the accounts connected to the
\* JSON API and of the update keeps to its values.
THEOREM AssistantTypesCorrect == AssistantSpec => []AssistantTypeOK
<1>1. AIInv /\ OneWorks /\ ProgramInv => AssistantTypeOK
  <2> SUFFICES ASSUME AIInv, OneWorks, ProgramInv
               PROVE  AssistantTypeOK
    OBVIOUS
  <2>1. TypeOK /\ Completion!TypeOK /\ Chat!TypeOK /\ Results!TypeOK
    BY AssistantAssumption, RunSafe, ChatSafe, ResultSafe DEF AssistantAssumption, AIInv, CompletionInv
  <2>2. Config!TypeOK /\ Users!TypeOK /\ Connected!TypeOK /\ Update!TypeOK
    BY AssistantAssumption, ConfigSafe, UserSafe, ConnectedSafe, UpdateTypes
    DEF AssistantAssumption, ProgramInv
  <2>3. QED
    BY <2>1, <2>2 DEF AssistantTypeOK, OneWorks
<1>2. QED
  BY <1>1, AIInvariant, ProgramInvariant, PTL

\* Settings edited while they are used stay consistent (ai_settings.go, ai_agents.go, ai_skills.go),
\* the trail of a key says what became of it (api_keys.go), and a unified inbox answers for every
\* account that is connected to it (jsonapi/accounts.go).
THEOREM SettingsAreSound == AssistantSpec => []ConfigIsSound
<1>1. OneWorks /\ ProgramInv => ConfigIsSound
  BY AssistantAssumption, ConfigSafe, UserSafe, ConnectedSafe
  DEF ConfigIsSound, AssistantAssumption, ProgramInv
<1>2. QED
  BY <1>1, ProgramInvariant, PTL

\* However installations overlap, fail and die (update.go), a verified program that is not older
\* can be started, a refused request changes nothing, and what was promised starts.
THEOREM InstallationsAreSafe == AssistantSpec => []UpdateIsSafe
<1>1. OneWorks /\ ProgramInv => UpdateIsSafe
  BY UpdateSafe DEF UpdateIsSafe, ProgramInv
<1>2. QED
  BY <1>1, ProgramInvariant, PTL
=============================================================================
