------------------------------ MODULE LlmChain ------------------------------
(***************************************************************************)
(* One question put to the configured chain of LLM providers: a narration, *)
(* an invoice photo, a voice note (services/llm/factory.py) or the         *)
(* assistant's tool-calling loop (services/agent, services/assistant.py).  *)
(* The providers are tried in order, the primary first.  The assistant's   *)
(* tools read the books, which other sessions change meanwhile; one        *)
(* business figure stands for all of them.                                 *)
(***************************************************************************)
EXTENDS Naturals, Sequences

CONSTANTS Chain,     \* LLM_PROVIDER and LLM_FALLBACKS without repetitions
          Keys,      \* the providers with an API key
          Figures,   \* values the figure may have
          MaxSteps,  \* settings.agent_max_steps
          Retained   \* settings.conversation_turn_retention_limit

(* What a provider is asked for. *)
Kinds == {"narration", "photo", "voice", "agent"}

(* How a call fails: a rate limit, an error of the server, no connection,  *)
(* no answer in time, or anything else (a bad key, a malformed request).   *)
Errors == {"rate limit", "server", "connection", "timeout", "other"}

(* What each provider supports, and the errors it reports as unavailable.  *)
OpenAiToolLoop == [kinds |-> {"agent"}, unavailable |-> {"rate limit", "server", "connection"}]

Groq == [OpenAiToolLoop EXCEPT !.kinds = @ \cup {"narration"}]

OpenRouter == [OpenAiToolLoop EXCEPT !.kinds = @ \cup {"narration"}]

GitHubModels == [OpenAiToolLoop EXCEPT !.kinds = @ \cup {"narration"}]

Cohere == [OpenAiToolLoop EXCEPT !.kinds = @ \cup {"narration"}]

Claude == [kinds |-> {"narration", "photo"}, unavailable |-> {"rate limit", "server", "connection"}]

(* By the status code of the error: a failed connection has none.          *)
Gemini == [kinds |-> Kinds, unavailable |-> {"rate limit", "server"}]

Provider == [anthropic |-> Claude, gemini |-> Gemini, groq |-> Groq, openrouter |-> OpenRouter,
             github_models |-> GitHubModels, cohere |-> Cohere]

VARIABLES kind,     \* what is being asked, or "nothing"
          left,     \* providers not given up on, the one being tried first
          steps,    \* tool calls of the provider being tried
          outputs,  \* ToolContext.outputs, as the set of figures in it
          answer,   \* the last answer given: a figure, "words" or "fallback"
          turns,    \* how many turns of the dialogue are remembered
          figure,   \* the figure in the books
          recent    \* history: values of the figure since the question was put

vars == <<kind, left, steps, outputs, answer, turns, figure, recent>>

(* What a model writes: a figure it fetched, remembers from an earlier     *)
(* turn or made up; other words; nothing; or what the caller cannot use.   *)
Texts == Figures \cup {"words", "blank", "unusable"}

Init == /\ kind = "nothing"
        /\ left = <<>>
        /\ steps = 0
        /\ outputs = {}
        /\ answer = "words"
        /\ turns = 0
        /\ figure = CHOOSE f \in Figures : TRUE
        /\ recent = {figure}

(* A mutant of Ask: one ToolContext serves all questions. *)
AskInSameContext(k) == /\ kind = "nothing"
                       /\ kind' = k
                       /\ left' = Chain
                       /\ steps' = 0
                       /\ recent' = {figure}
                       /\ UNCHANGED <<outputs, answer, turns, figure>>

Ask(k) == /\ kind = "nothing"
          /\ kind' = k
          /\ left' = Chain
          /\ steps' = 0
          /\ outputs' = {}
          /\ recent' = {figure}
          /\ UNCHANGED <<answer, turns, figure>>

Trying == kind # "nothing" /\ left # <<>>

Calling == /\ Trying
           /\ Head(left) \in Keys
           /\ kind \in Provider[Head(left)].kinds

(* A mutant of TryNext: the provider is tried again. *)
TryNextAgain == left' = left /\ steps' = 0

TryNext == left' = Tail(left) /\ steps' = 0

(* No key, or no support for what is asked. *)
Skip == /\ Trying
        /\ ~ Calling
        /\ TryNext
        /\ UNCHANGED <<kind, outputs, answer, turns, figure, recent>>

(* Which errors lead to the next provider.  A call of the assistant has no *)
(* timeout of its own, and every error of it does.                         *)
Passes(e) == \/ e \in Provider[Head(left)].unavailable
             \/ e = "timeout"
             \/ kind = "agent"

(* Any other error ends the chain. *)
Fails(e) == /\ Calling
            /\ e = "timeout" => kind # "agent"
            /\ IF Passes(e) THEN TryNext ELSE left' = <<>> /\ steps' = 0
            /\ UNCHANGED <<kind, outputs, answer, turns, figure, recent>>

(* The tools read the books; what they returned to one provider is still   *)
(* there for the next.  Once the budget is spent no tools are offered.     *)
UseTool == /\ Calling
           /\ kind = "agent"
           /\ steps < MaxSteps
           /\ steps' = steps + 1
           /\ outputs' = outputs \cup {figure}
           /\ UNCHANGED <<kind, left, answer, turns, figure, recent>>

(* The dialogue is kept for the next question, up to a limit. *)
Remember == turns' = IF turns + 2 > Retained THEN Retained ELSE turns + 2

(* The question is over; the assistant's answer is remembered with it.     *)
Conclude(text) == /\ answer' = text
                  /\ kind' = "nothing"
                  /\ left' = <<>>
                  /\ steps' = 0
                  /\ IF kind = "agent" THEN Remember ELSE UNCHANGED turns

(* reply_has_unverified_money, and the empty text: the fallback instead.   *)
Gated(text) == IF text = "blank" \/ (text \in Figures /\ text \notin outputs)
               THEN "fallback" ELSE text

(* A voice note without speech, a transcript that goes on and on.          *)
Transcript(text) == IF text = "unusable" THEN "fallback" ELSE text

(* A photo that is no invoice, an extraction of the wrong shape.           *)
Extraction(text) == IF text = "unusable" THEN "fallback" ELSE text

(* What the caller makes of the text a provider returned. *)
Taken(text) == IF kind = "agent" THEN Gated(text)
               ELSE IF kind = "voice" THEN Transcript(text)
               ELSE IF kind = "photo" THEN Extraction(text)
               ELSE text

(* A blank narration, extraction or transcript counts as unavailable.      *)
Reply(text) == /\ Calling
               /\ kind = "agent" => text # "unusable"
               /\ kind # "agent" => text \notin Figures
               /\ kind = "narration" => text # "unusable"
               /\ IF text = "blank" /\ kind # "agent"
                    THEN TryNext /\ UNCHANGED <<kind, answer, turns>>
                    ELSE Conclude(Taken(text))
               /\ UNCHANGED <<outputs, figure, recent>>

(* AllProvidersExhausted, or the error that ended the chain: each caller   *)
(* has a reply for it, and none raises.                                    *)
Exhausted == /\ kind # "nothing"
             /\ left = <<>>
             /\ Conclude("fallback")
             /\ UNCHANGED <<outputs, figure, recent>>

BooksChange(f) == /\ figure' = f
                  /\ recent' = recent \cup {f}
                  /\ UNCHANGED <<kind, left, steps, outputs, answer, turns>>

Moves == \/ Skip \/ UseTool \/ Exhausted
         \/ \E e \in Errors : Fails(e)
         \/ \E text \in Texts : Reply(text)

Next == \/ \E k \in Kinds : Ask(k)
        \/ Moves
        \/ \E f \in Figures : BooksChange(f)

(* Every call to a provider ends, by the timeout of the chain or of its    *)
(* client.                                                                 *)
Spec == Init /\ [][Next]_vars /\ WF_vars(Moves)

-----------------------------------------------------------------------------
(* Types of the variables. *)
TypeOK == /\ kind \in Kinds \cup {"nothing"}
          /\ Len(left) <= Len(Chain)
          /\ steps \in 0..MaxSteps
          /\ outputs \subseteq Figures /\ recent \subseteq Figures /\ figure \in recent
          /\ answer \in Figures \cup {"words", "fallback"}
          /\ turns \in 0..Retained

(* A figure the assistant states was in the books at some time since it    *)
(* was asked, whichever providers failed on the way and whatever older     *)
(* figures its memory of the dialogue holds.                               *)
FigureIsOfThisQuestion ==
  [][kind = "agent" /\ kind' = "nothing" /\ answer' \in Figures => answer' \in recent]_vars

(* Every question is answered, by a provider or by the fallback. *)
EveryQuestionEnds == (kind # "nothing") ~> (kind = "nothing")

=============================================================================
