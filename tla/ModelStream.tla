----------------------------- MODULE ModelStream -----------------------------
(***************************************************************************)
(* The model requests of a turn: a provider's client (clients.py) receives *)
(* the reply and the engine passes its text on, while control messages of  *)
(* the user, an idle timeout or an error may end it (engine.py).  A piece  *)
(* of text or of a tool call is the number of the attempt it was received  *)
(* in; the OpenAI client tries several times, the Anthropic client once.   *)
(* Definitions marked faulty are changes to the code under which a         *)
(* property fails; nothing else uses them.                                 *)
(***************************************************************************)
EXTENDS Integers, Sequences, FiniteSets, SequencesExt

CONSTANTS
  Clients,      \* the kinds of client: "openai", "anthropic"
  MaxAttempts,  \* attempts of the OpenAI client
  MaxPieces,    \* bound: pieces of text of a reply
  MaxParts,     \* bound: parts of a call's arguments
  MaxControls,  \* bound: control messages of a request
  MaxRequests   \* bound: requests of a turn

ASSUME ModelStreamAssumptions ==
  /\ Clients \subseteq {"openai", "anthropic"}
  /\ MaxAttempts \in Nat \ {0}
  /\ {MaxPieces, MaxParts, MaxControls, MaxRequests} \subseteq Nat

VARIABLES
  client,    \* kind of the client this turn talks to
  stage,     \* of the request: see Stages
  attempt,   \* attempt of the client, from 1
  texts,     \* text_parts
  call,      \* the tool call of the reply: its parts, <<>> if there is none
  whole,     \* the arguments of the call are complete JSON
  final,     \* the reply's last event was seen: response.completed, message_stop
  visible,   \* text received by the engine and not yet passed on
  shown,     \* text passed on
  controls,  \* control messages waiting
  requests,  \* requests of the turn
  result,    \* the result handed to the turn, or None
  signals    \* control messages so far
streamVars == <<client, stage, attempt, texts, call, whole, final, visible, shown,
                controls, requests, result, signals>>
receiving == <<texts, call, whole, final>>
passing   == <<visible, shown>>

None == [texts |-> <<>>, call |-> <<>>, whole |-> TRUE, kind |-> "none"]
Ends   == {"completed", "steered", "cancelled", "failed", "idle_timeout"}
Stages == {"ready", "connecting", "open", "broken"} \cup Ends

Fresh ==
  /\ attempt = 1 /\ texts = <<>> /\ call = <<>> /\ whole = TRUE /\ final = FALSE
  /\ visible = <<>> /\ shown = <<>>

ModelStreamInit ==
  /\ client \in Clients /\ stage = "ready" /\ Fresh
  /\ controls = <<>> /\ requests = 0
  /\ result = None /\ signals = 0

Request ==
  /\ stage = "ready" /\ requests < MaxRequests
  /\ requests' = requests + 1 /\ stage' = "connecting"
  /\ UNCHANGED <<client, attempt, receiving, passing, controls, result, signals>>

-----------------------------------------------------------------------------
(* The provider answers.  A status that may be retried is asked for again  *)
(* by the OpenAI client; any other ends the request.                       *)
Connected ==
  /\ stage = "connecting" /\ stage' = "open"
  /\ UNCHANGED <<client, attempt, receiving, passing, controls,
                 requests, result, signals>>

Streaming == stage = "open" /\ ~final
Unchanged == <<client, attempt, shown, controls, requests, result, signals>>

TextDelta ==
  /\ Streaming /\ Len(texts) < MaxPieces
  /\ texts' = Append(texts, attempt) /\ visible' = Append(visible, attempt)
  /\ UNCHANGED <<stage, call, whole, final, Unchanged>>

(* _collect_openai_tool_delta, input_json_delta: the parts are appended to *)
(* what there is; the last of them makes the arguments complete.           *)
CallDelta ==
  /\ Streaming /\ Len(call) < MaxParts
  /\ call' = Append(call, attempt) /\ whole' \in BOOLEAN
  /\ UNCHANGED <<stage, texts, final, visible, Unchanged>>

(* A provider ends a reply when the call in it is complete.                *)
LastEvent ==
  /\ Streaming /\ whole
  /\ final' = TRUE
  /\ UNCHANGED <<stage, texts, call, whole, visible, Unchanged>>

(* The connection fails before the last event.                             *)
Broken ==
  /\ stage \in {"connecting", "open"} /\ ~final
  /\ stage' = "broken"
  /\ UNCHANGED <<receiving, visible, Unchanged>>

(* except (TimeoutException, NetworkError), HTTPStatusError: a new attempt *)
(* unless text was passed on; what was collected of a call stays.          *)
AlwaysAgain == attempt < MaxAttempts                                \* faulty
OnceMore == client = "openai" /\ texts = <<>>                        \* faulty
MayRetry == client = "openai" /\ attempt < MaxAttempts /\ texts = <<>>

RetryAttempt ==
  /\ stage = "broken" /\ MayRetry
  /\ attempt' = attempt + 1 /\ stage' = "connecting"
  /\ UNCHANGED <<client, receiving, passing, controls, requests,
                 result, signals>>

(* ProviderError, caught by the turn.                                      *)
Fail ==
  /\ stage = "broken" /\ ~MayRetry
  /\ stage' = "failed"
  /\ UNCHANGED <<client, attempt, receiving, passing, controls, requests,
                 result, signals>>

(* The stream of lines ends.  The Anthropic client demands message_stop    *)
(* and arguments that can be parsed; the OpenAI client takes what it has,  *)
(* arguments that cannot be parsed as none.                                *)
Accepts == client = "openai" \/ (final /\ whole)

(* The reply the engine takes as completed; a final event of the OpenAI    *)
(* client repeats the call as a whole.                                     *)
Completed ==
  [kind |-> "reply", texts |-> texts, whole |-> whole,
   call |-> IF client = "openai" /\ final THEN [i \in DOMAIN call |-> attempt] ELSE call]

StreamEnds ==
  /\ stage = "open"
  /\ IF Accepts
     THEN /\ stage' = "completed" /\ result' = Completed
          /\ shown' = shown \o visible /\ visible' = <<>>
     ELSE stage' = "failed" /\ UNCHANGED <<result, passing>>
  /\ UNCHANGED <<client, attempt, receiving, controls, requests, signals>>

-----------------------------------------------------------------------------
(* _consume_model_stream passes text on, after 50 ms or 256 characters.    *)
Flush ==
  /\ stage \in {"connecting", "open", "broken"} /\ visible # <<>>
  /\ shown' = shown \o visible /\ visible' = <<>>
  /\ UNCHANGED <<client, stage, attempt, receiving, controls,
                 requests, result, signals>>

(* The user sends a control message at any time.                           *)
Control(kind) ==
  /\ signals < MaxControls /\ stage \notin {"failed", "cancelled", "idle_timeout"}
  /\ controls' = Append(controls, kind) /\ signals' = signals + 1
  /\ UNCHANGED <<client, stage, attempt, receiving, passing, requests, result>>

(* A control message taken while the reply streams: the text held back is  *)
(* dropped with the request.                                               *)
TakeControl ==
  /\ stage \in {"connecting", "open", "broken"} /\ controls # <<>>
  /\ controls' = Tail(controls)
  /\ CASE Head(controls) = "queue"  -> UNCHANGED <<stage, visible>>
       [] Head(controls) = "steer"  ->
            stage' = "steered" /\ visible' = <<>>
       [] Head(controls) = "cancel" ->
            stage' = "cancelled" /\ visible' = <<>>
  /\ UNCHANGED <<client, attempt, receiving, shown, requests, result, signals>>

(* _process_control_events after the reply: what came too late for the     *)
(* stream still replaces the reply or ends the turn.                       *)
LateControl ==
  /\ stage = "completed" /\ result.kind = "reply" /\ controls # <<>>
  /\ controls' = <<>>
  /\ stage' = IF "steer" \in ToSet(controls) THEN "steered"
              ELSE IF "cancel" \in ToSet(controls) THEN "cancelled" ELSE "completed"
  /\ result' = IF stage' = "completed" THEN result ELSE None
  /\ UNCHANGED <<client, attempt, receiving, passing, requests, signals>>

(* asyncio.wait returns without an event within model_idle_timeout.        *)
IdleTimeout ==
  /\ stage \in {"connecting", "open", "broken"} /\ visible = <<>> /\ controls = <<>>
  /\ stage' = "idle_timeout"
  /\ UNCHANGED <<client, attempt, receiving, passing, controls, requests,
                 result, signals>>

(* The steering message, or the results of the calls, go into a request of  *)
(* their own.                                                              *)
NextRequest ==
  /\ stage = "steered" \/ (stage = "completed" /\ controls = <<>> /\ result.call # <<>>)
  /\ stage' = "ready" /\ result' = None
  /\ attempt' = 1 /\ texts' = <<>> /\ call' = <<>> /\ whole' = TRUE /\ final' = FALSE
  /\ visible' = <<>> /\ shown' = <<>>
  /\ UNCHANGED <<client, controls, requests, signals>>

ModelStreamNext ==
  \/ Request \/ Connected \/ TextDelta \/ CallDelta \/ LastEvent \/ Broken
  \/ RetryAttempt \/ Fail \/ StreamEnds \/ Flush \/ TakeControl \/ LateControl
  \/ IdleTimeout \/ NextRequest
  \/ \E kind \in {"queue", "steer", "cancel"} : Control(kind)

ModelStreamSpec == ModelStreamInit /\ [][ModelStreamNext]_streamVars

-----------------------------------------------------------------------------
(* Every variable has its type; every piece is of an attempt made.         *)
ModelStreamTypeOK ==
  /\ client \in Clients /\ stage \in Stages /\ attempt \in 1..MaxAttempts
  /\ \A s \in {texts, call, visible, shown} : ToSet(s) \subseteq 1..attempt
  /\ {whole, final} \subseteq BOOLEAN
  /\ ToSet(controls) \subseteq {"queue", "steer", "cancel"}
  /\ requests \in 0..MaxRequests /\ signals \in 0..MaxControls
  /\ result.kind \in {"none", "reply"}

(* What the user has seen of a reply is the beginning of what the client    *)
(* has received of it, in one attempt; of the reply that goes into the      *)
(* history it is the whole text.                                           *)
OneAttemptShown ==
  /\ IsPrefix(shown, texts) /\ Cardinality(ToSet(texts)) <= 1
  /\ result.kind = "reply" => shown = result.texts

(* The Anthropic client hands on a tool call only when all of its parts    *)
(* came, in one attempt, and the reply was not cut off.                    *)
CallsWhole ==
  client = "anthropic" /\ result.kind = "reply" =>
    result.whole /\ final /\ Cardinality(ToSet(result.call)) <= 1

(* A reply is shown and handed on as one attempt produced it.               *)
ReplyIsWhole == OneAttemptShown /\ CallsWhole
=============================================================================
