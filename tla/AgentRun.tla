------------------------------ MODULE AgentRun ------------------------------
(***************************************************************************)
(* The bounded tool conversation of agentruntime.Run, as its two users set *)
(* it up: a chat turn (runAgentChat: a clarifying question ends the turn)  *)
(* and the analysis of a mail (runMailAnalysis: the result is submitted by *)
(* a call, validated, and may be corrected).  The model is an environment  *)
(* that may answer anything.  Sizes are in units of a few kilobytes; ids   *)
(* of calls are their positions in the response, as duplicates are         *)
(* refused; the body of the triggering mail is a set of pieces.            *)
(***************************************************************************)
EXTENDS Integers, Sequences, FiniteSets

CONSTANTS
  Turns, CallsPerTurn, Calls, Retries,  \* agentruntime.Limits
  InputSize, ResultSize,                \* InputBytes, ResultBytes
  ResponseSize,                         \* bound: size of a response
  Pieces                                \* pieces of the mail's body

ASSUME AgentAssumption ==
  /\ Turns \in Nat \ {0} /\ CallsPerTurn \in Nat \ {0} /\ Calls \in Nat \ {0} /\ Retries \in Nat
  /\ ResultSize \in Nat \ {0} /\ InputSize \in Nat /\ InputSize > ResultSize
  /\ ResponseSize \in Nat /\ Pieces \in Nat \ {0}

VARIABLES
  profile,   \* "chat" or "analysis"
  phase,     \* where the conversation is
  turn, retries, executed,
  size,      \* of the messages so far
  queue,     \* calls of the response still to be handled
  open,      \* ids of calls in the messages without a result
  stop,      \* a call was refused by a budget
  again,     \* the final answer was already corrected once
  answer,    \* the accepted text: "none", "text", "submitted", "tools" or "question"
  covered,   \* pieces of the mail given to the model
  changed    \* the mail was replaced while it was read

vars == <<profile, phase, turn, retries, executed, size, queue, open, stop, again, answer,
          covered, changed>>

Body == 1..Pieces
ToolKinds == IF profile = "chat" THEN {"tool", "unknown", "ask_user"}
                                 ELSE {"read", "unknown", "submit", "malformed"}
\* A response asks for up to two calls.
Responses == {<<>>} \cup {<<k>> : k \in ToolKinds}
               \cup {<<k, "unknown">> : k \in ToolKinds} \cup {<<"unknown", k>> : k \in ToolKinds}

Init ==
  /\ profile \in {"chat", "analysis"} /\ phase = "ask"
  /\ turn = 0 /\ retries = 0 /\ executed = 0 /\ size \in 1..(InputSize - ResultSize)
  /\ queue = <<>> /\ open = {} /\ stop = FALSE /\ again = FALSE /\ answer = "none"
  /\ \E first \in {0, 1} : covered = 1..first
  /\ changed = FALSE

TypeOK ==
  /\ phase \in {"ask", "model", "calls", "final", "synthesis", "check", "done", "failed"}
  /\ turn \in 0..(Turns - 1) /\ retries \in 0..Retries /\ executed \in 0..Calls
  /\ size \in Nat /\ open \subseteq 1..2 /\ Len(queue) <= 2 /\ covered \subseteq Body
  /\ answer \in {"none", "text", "submitted", "tools", "question"}
  /\ phase \in {"model", "synthesis"} => size <= InputSize

-----------------------------------------------------------------------------

End(p) ==
  /\ phase' = p /\ queue' = <<>>
  /\ UNCHANGED <<profile, turn, retries, executed, size, open, stop, again, answer, covered, changed>>
Fail == End("failed")

\* A request is sent within the input budget only.
Ask ==
  /\ phase = "ask" /\ (IF size > InputSize THEN Fail ELSE End("model"))

\* The stream broke off, the provider refused, or the request was cancelled: text
\* already shown is not an answer.
Interrupted == phase \in {"model", "calls", "synthesis"} /\ Fail

\* sourceFullyRead: the ranges read cover the body.
Covered == covered = Body

\* Options.Validate: an analysis must be well-formed and must have read the mail.
\* A text of the right shape counts as a submission.
Acceptable(wellformed) == profile = "chat" \/ (wellformed /\ Covered)

\* Without calls, or with nothing but the submission, the response is an answer.
Answers(calls) == calls = <<>> \/ (profile = "analysis" /\ calls = <<"submit">>)

\* A chat answer that spells out tool calls as text is found out later.
Accept(kind) ==
  /\ phase' = "check" /\ answer' = kind
  /\ UNCHANGED <<profile, turn, retries, executed, size, queue, open, stop, again, covered, changed>>

\* A rejected answer may be corrected while turns, retries and space last.
Correctable(s) == turn < Turns - 1 /\ retries < Retries /\ size + s + 1 <= InputSize - ResultSize
Correct(s) ==
  /\ phase' = "ask" /\ turn' = turn + 1 /\ retries' = retries + 1 /\ size' = size + s + 1
  /\ UNCHANGED <<profile, executed, queue, open, stop, again, answer, covered, changed>>

Answer ==
  /\ phase = "model"
  /\ \E calls \in Responses, s \in 1..ResponseSize, wellformed, spelled \in BOOLEAN :
       /\ Answers(calls)
       /\ IF Acceptable(wellformed)
            THEN Accept(IF profile = "chat" /\ spelled THEN "tools"
                        ELSE IF calls = <<>> THEN "text" ELSE "submitted")
            ELSE IF Correctable(s) THEN Correct(s) ELSE Fail

\* The calls are taken over with the message; missing or repeated ids are an error.
Request ==
  /\ phase = "model"
  /\ \E calls \in Responses, s \in 1..ResponseSize :
       /\ ~Answers(calls) /\ phase' = "calls" /\ size' = size + s
       /\ queue' = [i \in 1..Len(calls) |-> [id |-> i, kind |-> calls[i], alone |-> Len(calls) = 1]]
       /\ open' = 1..Len(calls)
  /\ UNCHANGED <<profile, turn, retries, executed, stop, again, answer, covered, changed>>

\* The budget of calls per response, of calls, or of space is used up.
Exhausted ==
  Head(queue).id > CallsPerTurn \/ executed >= Calls \/ size > InputSize - ResultSize - 1

AnsweredNot(id) == open
\* Every call gets a result message, also a refused one.
Answered(id) == open \ {id}

Refuse ==
  /\ phase = "calls" /\ queue # <<>> /\ Exhausted
  /\ stop' = TRUE /\ size' = size + 1 /\ queue' = Tail(queue) /\ open' = Answered(Head(queue).id)
  /\ UNCHANGED <<profile, phase, turn, retries, executed, again, answer, covered, changed>>

Executable(kind) ==
  /\ phase = "calls" /\ queue # <<>> /\ ~Exhausted /\ Head(queue).kind = kind
  /\ executed' = executed + 1 /\ queue' = Tail(queue)
  /\ UNCHANGED <<profile, turn, retries, stop, again, changed>>
\* A result too large is replaced by a notice.
Result ==
  /\ \E result \in 1..ResultSize : size' = size + result
  /\ open' = Answered(Head(queue).id) /\ UNCHANGED <<phase, answer>>

\* A well-formed question asked alone ends the turn, another is an error result.
AskUser ==
  /\ Executable("ask_user")
  /\ \/ Head(queue).alone /\ phase' = "check" /\ answer' = "question" /\ UNCHANGED <<size, open>>
     \/ Result
  /\ UNCHANGED covered

\* A piece counts as read when it was shown; one of a changed mail ends the run.
ReadMail ==
  /\ Executable("read")
  /\ \/ Result /\ UNCHANGED covered
     \/ ~changed /\ Result /\ \E piece \in Body : covered' = covered \cup {piece}
     \/ changed /\ phase' = "failed" /\ UNCHANGED <<answer, size, open, covered>>

\* Any other tool succeeds or fails; unknown ones, malformed arguments, and a
\* submission among other calls are error results.
UseTool ==
  /\ \E kind \in {"tool", "unknown", "submit", "malformed"} : Executable(kind)
  /\ Result /\ UNCHANGED covered

\* The next turn, or the request for a final answer.
TurnOver ==
  /\ phase = "calls" /\ queue = <<>>
  /\ IF turn = Turns - 1 \/ stop
       THEN phase' = "final" /\ size' = size + 1 /\ UNCHANGED turn
       ELSE phase' = "ask" /\ turn' = turn + 1 /\ UNCHANGED size
  /\ UNCHANGED <<profile, retries, executed, queue, open, stop, again, answer, covered, changed>>

\* The final request offers no tools but the submission.
AskFinal ==
  /\ phase = "final" /\ (IF size > InputSize THEN Fail ELSE End("synthesis"))

\* "never treats a tool request issued after exhaustion as a completed answer"
FinalAny(calls) == TRUE
FinalAnswers(calls) == Answers(calls)

Synthesis ==
  /\ phase = "synthesis"
  /\ \E calls \in Responses, wellformed, spelled \in BOOLEAN :
       /\ calls # <<"malformed">>
       /\ IF FinalAnswers(calls) /\ Acceptable(wellformed)
            THEN Accept(IF (profile = "chat" /\ spelled) \/ ~Answers(calls) THEN "tools"
                        ELSE IF calls = <<>> THEN "text" ELSE "submitted")
            ELSE Fail

\* A submission that does not parse is returned once.
SynthesisMalformed ==
  /\ phase = "synthesis" /\ profile = "analysis"
  /\ \E s \in 1..ResponseSize :
       IF again \/ size + s > InputSize THEN Fail
         ELSE /\ again' = TRUE /\ size' = size + s
              /\ UNCHANGED <<profile, phase, turn, retries, executed, queue, open, stop, answer,
                             covered, changed>>

\* What the callers check of the result: no spelled-out calls in a chat; the whole
\* mail read, and unchanged, for an analysis.
CheckedAny == TRUE
Checked == IF profile = "chat" THEN answer # "tools" ELSE Covered /\ ~changed
Check == phase = "check" /\ End(IF Checked THEN "done" ELSE "failed")

\* The mail is fetched anew or moved away while it is analysed.
MailChanges ==
  /\ profile = "analysis" /\ ~changed /\ phase \notin {"done", "failed"} /\ changed' = TRUE
  /\ UNCHANGED <<profile, phase, turn, retries, executed, size, queue, open, stop, again, answer,
                 covered>>

Next ==
  \/ Ask \/ Interrupted \/ Answer \/ Request \/ Refuse \/ AskUser \/ ReadMail \/ UseTool \/ TurnOver
  \/ AskFinal \/ Synthesis \/ SynthesisMalformed \/ Check \/ MailChanges

Spec == Init /\ [][Next]_vars

-----------------------------------------------------------------------------

\* "Never leave dangling call IDs in the next request": whenever the model is asked,
\* every call it made has its result, executed or refused.
CallsArePaired == phase \in {"ask", "model", "final", "synthesis"} => open = {}

\* A conversation that ends well ends with an answer: never with a tool request the
\* budget left unexecuted, and an analysis never without having read all of a mail
\* that is still the same.
AnswerIsEarned ==
  phase = "done" =>
    /\ answer \in {"text", "submitted", "question"}
    /\ profile = "analysis" => Covered /\ ~changed

\* "Run always reserves space for the next tool result and final synthesis": no run
\* whose tools were executed ends for want of space.
SpaceReserved == phase = "final" => size <= InputSize

\* A run asks the model nothing malformed and reports no answer it did not earn.
RunIsSound == CallsArePaired /\ AnswerIsEarned
=============================================================================
