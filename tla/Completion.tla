----------------------------- MODULE Completion -----------------------------
(***************************************************************************)
(* One question to a model backend, from the request to the text the       *)
(* caller gets.  Source: mailstore/ai_completion.go and ai_stream.go, and  *)
(* openAIResponseText of mailstore/webhook.go.                             *)
(*                                                                         *)
(* The backend is the environment: it generates pieces of text and of      *)
(* thought, may stop early (token limit, filter), fail, or lose the        *)
(* connection, and a gateway may answer a streaming request with one JSON  *)
(* body or close a broken stream with [DONE].  Pieces are counted; their   *)
(* wording, the request's fields and the endpoints are left out.           *)
(***************************************************************************)
EXTENDS Naturals

CONSTANTS Calls,      \* questions asked one after another
          MaxPieces   \* bound: pieces a backend generates for one question

CompletionAssumption == MaxPieces \in Nat \ {0} /\ Calls \in Nat

VARIABLES
    call,      \* the question: provider, streaming, low effort (thinking off)
    attempt,   \* the Gemini request is repeated once without thinkingConfig
    pc,        \* "idle", "asked", "reading", "failed", or a text was returned
               \* from one body ("returned") or from a stream ("streamed")
    made,      \* pieces the backend generated: text and thought
    reason,    \* how the backend ended: "none", "stop", "length", "filter"
    got,       \* text pieces the reader holds
    complete,  \* readAIResponse has seen the finish event
    emitted,   \* pieces passed to onDelta
    asked

vars == <<call, attempt, pc, made, reason, got, complete, emitted, asked>>

Providers == {"openai", "gemini", "openai-compatible"}
Call == [provider : Providers, stream : BOOLEAN, low : BOOLEAN]
Reasons == {"stop", "length", "filter"}

Init ==
    /\ call \in Call /\ attempt = 0 /\ pc = "idle"
    /\ made = [text |-> 0, thought |-> 0] /\ reason = "none" /\ got = 0
    /\ complete = FALSE /\ emitted = 0 /\ asked = 0

backend == <<made, reason>>
reader  == <<got, complete, emitted>>

\* createAIResponse picks the backend and sends the request
Ask ==
    /\ pc \in {"idle", "returned", "streamed", "failed"} /\ asked < Calls
    /\ call' \in Call /\ asked' = asked + 1 /\ attempt' = 0 /\ pc' = "asked"
    /\ made' = [text |-> 0, thought |-> 0] /\ reason' = "none"
    /\ got' = 0 /\ complete' = FALSE /\ emitted' = 0

Fail == pc' = "failed" /\ UNCHANGED <<call, attempt, asked, backend, reader>>

\* a transport error, or a status outside 2xx
Refused == pc = "asked" /\ Fail

\* a model without thinking answers 400 to thinkingConfig: ask again without
Retry ==
    /\ pc = "asked" /\ call.provider = "gemini" /\ call.low /\ attempt = 0
    /\ attempt' = 1
    /\ UNCHANGED <<call, pc, asked, backend, reader>>

(* The backend at work *)

Generates(kind) ==
    /\ pc \in {"asked", "reading"} /\ reason = "none" /\ made.text + made.thought < MaxPieces
    /\ made' = [made EXCEPT ![kind] = @ + 1]

Ends(why) == pc \in {"asked", "reading"} /\ reason = "none" /\ reason' = why

(* The answer as one body *)

GenerateBuffered(kind) ==
    /\ pc = "asked" /\ Generates(kind)
    /\ UNCHANGED <<call, attempt, pc, reason, asked, reader>>

EndBuffered(why) ==
    /\ pc = "asked" /\ Ends(why)
    /\ UNCHANGED <<call, attempt, pc, made, asked, reader>>

\* geminiResponseText, openAIResponseText, createOpenAICompatibleResponse:
\* how many pieces are taken as the answer; 0 is an error
Taken(provider, parts, why) ==
    CASE provider = "gemini" -> IF parts.text > 0 THEN parts.text ELSE parts.thought
      [] provider = "openai" -> parts.text
      [] OTHER -> IF why \in {"length", "filter"} THEN 0 ELSE parts.text

\* CreateAIResponseWithImages: an answer no delta announced is emitted whole
ShownTwice(n) == n
Shown(n) == IF emitted = 0 THEN n ELSE 0

Return(n, how) ==
    /\ got' = n /\ pc' = IF n = 0 THEN "failed" ELSE how
    /\ emitted' = IF call.stream THEN emitted + Shown(n) ELSE emitted

ReadBody ==
    /\ pc = "asked" /\ reason # "none"
    /\ Return(Taken(call.provider, made, reason), "returned")
    /\ UNCHANGED <<call, attempt, asked, backend, complete>>

(* The answer as a stream of events *)

OpenStream ==
    /\ pc = "asked" /\ call.stream /\ made.text + made.thought = 0 /\ reason = "none"
    /\ pc' = "reading"
    /\ UNCHANGED <<call, attempt, asked, backend, reader>>

\* a delta is kept and emitted; thoughts are not
Delta(kind) ==
    /\ pc = "reading" /\ Generates(kind)
    /\ IF kind = "text" THEN got' = got + 1 /\ emitted' = emitted + 1
                        ELSE UNCHANGED <<got, emitted>>
    /\ UNCHANGED <<call, attempt, pc, reason, complete, asked>>

\* the finish event: any reason but a regular stop is an error
Finish(why) ==
    /\ pc = "reading" /\ Ends(why)
    /\ IF why = "stop" THEN complete' = TRUE /\ pc' = pc
                       ELSE pc' = "failed" /\ UNCHANGED complete
    /\ UNCHANGED <<call, attempt, made, got, emitted, asked>>

\* an error event, an unreadable frame, a frame or a stream beyond the budget
StreamFails == pc = "reading" /\ Fail

\* the stream ends, after [DONE] or without it, finished or not
InterruptedUnlessDone(done) == ~complete /\ ~done
Interrupted(done) == ~complete

EndOfStream(done) ==
    /\ pc = "reading"
    /\ IF Interrupted(done)
       THEN pc' = "failed" /\ UNCHANGED <<got, emitted>>
       ELSE Return(Taken(call.provider, [text |-> got, thought |-> 0], "stop"), "streamed")
    /\ UNCHANGED <<call, attempt, asked, backend, complete>>

-----------------------------------------------------------------------------

Next ==
    \/ Ask \/ Refused \/ Retry
    \/ \E k \in {"text", "thought"} : GenerateBuffered(k) \/ Delta(k)
    \/ \E why \in Reasons : EndBuffered(why) \/ Finish(why)
    \/ ReadBody \/ OpenStream \/ StreamFails
    \/ \E done \in BOOLEAN : EndOfStream(done)

Spec == Init /\ [][Next]_vars

-----------------------------------------------------------------------------

TypeOK ==
    /\ call \in Call /\ attempt \in 0..1
    /\ pc \in {"idle", "asked", "reading", "returned", "streamed", "failed"}
    /\ made \in [text : 0..MaxPieces, thought : 0..MaxPieces]
    /\ reason \in Reasons \union {"none"}
    /\ got \in 0..MaxPieces /\ emitted \in 0..MaxPieces
    /\ complete \in BOOLEAN /\ asked \in 0..Calls

\* A text returned from a stream is the whole text the backend generated and
\* ended regularly, whatever ended the stream: "[DONE] alone can hide a
\* truncated response or a gateway error" (ai_stream.go:41-42).  The caller has
\* seen every piece of a returned text once, also when the gateway ignored the
\* request to stream.
StreamedIsWhole ==
    /\ pc = "streamed" => got = made.text /\ reason = "stop"
    /\ pc \in {"returned", "streamed"} /\ call.stream => emitted = got

\* "streaming and buffered requests share request construction and validation"
\* (ai_stream.go:15-16): an answer cut at the token limit, refused when it is
\* streamed, is refused as one body too.
BufferedIsWhole == pc \in {"returned", "streamed"} => reason = "stop"
=============================================================================
