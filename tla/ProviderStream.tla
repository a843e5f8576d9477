---------------------------- MODULE ProviderStream ----------------------------
(***************************************************************************)
(* Requests to the model providers: the OpenAI-compatible client and the   *)
(* Anthropic client of packages/providers/src/rick_providers with their    *)
(* retries and their stream decoders, below the facade that budgets a      *)
(* request and keeps the circuit breaker (resilience.py).                  *)
(*                                                                         *)
(* One process, one event loop: a request runs without interruption        *)
(* between two awaits, the requests interleave at them.  A frame is one    *)
(* event of the wire; a field that its validator refuses, and the last     *)
(* checks on an assembled response, are errors that may come at any read.  *)
(***************************************************************************)
EXTENDS Integers, Sequences, SequencesExt, FiniteSets

CONSTANTS
    Streams,           \* requests for a streamed completion
    Unaries,           \* requests for a whole completion or an embedding
    Workloads,         \* sets of requests that are made together
    ProviderKinds,     \* kinds of provider: "openai", "gateway", "anthropic"
    ProviderAttempts,  \* max_attempts of ProviderConfig
    MaxTools,          \* max_tool_calls of ResilientProvider
    FailureThreshold,  \* failure_threshold of ResilientProvider
    MaxChatFrames,     \* bound: frames of a streamed completion
    MaxMessageFrames   \* bound: frames of a streamed message

ASSUME ProviderAssumption ==
    /\ ProviderKinds \subseteq {"openai", "gateway", "anthropic"}
    /\ ProviderAttempts \in Nat \ {0} /\ MaxTools \in Nat /\ FailureThreshold \in Nat \ {0}
    /\ MaxChatFrames \in Nat /\ MaxMessageFrames \in Nat
    /\ Streams \cap Unaries = {} /\ Workloads \subseteq SUBSET (Streams \cup Unaries)

VARIABLES
    req,               \* the requests
    sent,              \* what the server sent to a stream in its present attempt
    got,               \* what the consumer of a stream was given
    circuit,           \* the circuit breaker of the facade
    clientClosing      \* _closing of the client

providerVars == <<req, sent, got, circuit, clientClosing>>

ProviderRequests == Streams \cup Unaries

-----------------------------------------------------------------------------
(* Frames *)

Frame(text, tool, finish, usage) ==
    [choice |-> TRUE, text |-> text, tool |-> tool, again |-> FALSE, finish |-> finish, usage |-> usage]

(* More of a tool call whose index was seen before, if one was.            *)
MoreOfTool == [Frame(FALSE, TRUE, "none", FALSE) EXCEPT !.again = TRUE]

(* choices=[]: the accounting trailer, or nothing at all.                  *)
NoChoice(usage) ==
    [choice |-> FALSE, text |-> FALSE, tool |-> FALSE, again |-> FALSE, finish |-> "none", usage |-> usage]

Role == Frame(FALSE, FALSE, "none", FALSE)
Done == [NoChoice(FALSE) EXCEPT !.finish = "[DONE]"]

ChatFrames ==
    {Role, Frame(TRUE, FALSE, "none", FALSE), Frame(TRUE, FALSE, "none", TRUE),
     Frame(FALSE, TRUE, "none", FALSE), MoreOfTool, Frame(FALSE, FALSE, "stop", FALSE),
     Frame(TRUE, FALSE, "stop", FALSE), Frame(FALSE, FALSE, "length", FALSE),
     Frame(FALSE, FALSE, "tool_calls", FALSE), NoChoice(TRUE), NoChoice(FALSE), Done}

DeltaFrames == {"delta", "delta_end_turn", "delta_tool_use", "delta_max_tokens"}

(* A block of text may start with some of it.                              *)
TextStarts == {"text_start", "filled_start"}
Starts == TextStarts \cup {"tool_start"}
TextFrames == {"filled_start", "text_delta"}

(* A ping and an empty delta of text are left out: they change nothing.    *)
MessageFrames ==
    Starts \cup {"message_start", "text_delta", "json_delta", "block_stop", "message_stop"}
           \cup DeltaFrames

(* The stop reason a message_delta gives.                                  *)
Reason(f) ==
    CASE f = "delta_end_turn"   -> "stop"
      [] f = "delta_tool_use"   -> "tool_calls"
      [] f = "delta_max_tokens" -> "length"
      [] OTHER                  -> "none"

MaxFrames(kind) == IF kind = "anthropic" THEN MaxMessageFrames ELSE MaxChatFrames
FramesOf(kind) == IF kind = "anthropic" THEN MessageFrames ELSE ChatFrames

-----------------------------------------------------------------------------
(* The decoders.  A decoder accepts a frame or refuses it; an accepted one  *)
(* may give a chunk to the consumer, whose budget counts the tool calls.   *)

NewDecoder == [finish |-> "none", done |-> FALSE, text |-> FALSE, tools |-> 0, usage |-> FALSE,
               begun |-> FALSE, active |-> "none", args |-> FALSE, blocks |-> 0, delta |-> FALSE]

ChatAccepts(kind, d, f) ==
    /\ ~d.done
    /\ d.finish # "none" => ~f.choice
    /\ kind = "openai" =>
         /\ f.usage => d.finish # "none" /\ ~f.choice /\ ~d.usage
         /\ f # NoChoice(FALSE)

ChatDecoded(d, f) ==
    IF f = Done THEN [d EXCEPT !.done = TRUE]
    ELSE [d EXCEPT !.finish = IF f.finish # "none" THEN f.finish ELSE @,
                   !.text = @ \/ f.text,
                   !.tools = IF f.tool /\ (~f.again \/ @ = 0) THEN @ + 1 ELSE @,
                   !.usage = @ \/ f.usage]

(* A terminal chunk is held, and the usage that follows it joins it.       *)
ChatGives(d, f) ==
    /\ f # Done /\ f.finish = "none" /\ d.finish = "none"
    /\ f.text \/ f.tool \/ f.usage

(* Output was accepted: given to the consumer or held.                     *)
ChatEmits(d, f) == f # Done /\ (f.text \/ f.tool \/ f.usage \/ f.finish # "none")

ChatComplete(kind, d) ==
    /\ d.done /\ d.finish # "none"
    /\ kind = "openai" => d.usage
    /\ d.text \/ d.tools > 0
    /\ d.finish = "tool_calls" => d.tools > 0
    /\ d.finish = "stop" => d.tools = 0

MessageAccepts(d, f) ==
    /\ ~d.done
    /\ f = "message_start" => ~d.begun
    /\ f # "message_start" => d.begun
    /\ f \in Starts => d.active = "none" /\ ~d.delta
    /\ f = "text_delta" => d.active = "text"
    /\ f = "json_delta" => d.active = "tool"
    /\ f = "block_stop" => d.active # "none"
    /\ f \in DeltaFrames =>
         /\ d.active = "none"
         /\ Reason(f) # "none" /\ d.finish # "none" => d.finish = Reason(f)
    /\ f = "message_stop" => d.active = "none" /\ d.delta

MessageDecoded(d, f) ==
    CASE f = "message_start" -> [d EXCEPT !.begun = TRUE]
      [] f = "text_start"    -> [d EXCEPT !.active = "text", !.blocks = @ + 1]
      [] f = "filled_start"  -> [d EXCEPT !.active = "text", !.blocks = @ + 1, !.text = TRUE]
      [] f = "tool_start"    -> [d EXCEPT !.active = "tool", !.blocks = @ + 1,
                                          !.tools = @ + 1, !.args = FALSE]
      [] f = "text_delta"    -> [d EXCEPT !.text = TRUE]
      [] f = "json_delta"    -> [d EXCEPT !.args = TRUE]
      [] f = "block_stop"    -> [d EXCEPT !.active = "none"]
      [] f = "message_stop"  -> [d EXCEPT !.done = TRUE]
      [] OTHER -> [d EXCEPT !.delta = TRUE, !.usage = TRUE,
                            !.finish = IF Reason(f) = "none" THEN @ ELSE Reason(f)]

(* A tool block without arguments is given "{}" when it stops.             *)
MessageGives(d, f) ==
    \/ f \in {"message_start", "tool_start", "json_delta"} \cup TextFrames \cup DeltaFrames
    \/ f = "block_stop" /\ d.active = "tool" /\ ~d.args

MessageComplete(d) ==
    /\ d.done /\ d.finish # "none" /\ d.blocks > 0
    /\ d.text \/ d.tools > 0
    /\ d.finish # "length" => (d.finish = "tool_calls" <=> d.tools > 0)

Accepts(kind, d, f) ==
    IF kind = "anthropic" THEN MessageAccepts(d, f) ELSE ChatAccepts(kind, d, f)
Decoded(kind, d, f) ==
    IF kind = "anthropic" THEN MessageDecoded(d, f) ELSE ChatDecoded(d, f)
Gives(kind, d, f) == IF kind = "anthropic" THEN MessageGives(d, f) ELSE ChatGives(d, f)
Emits(kind, d, f) == IF kind = "anthropic" THEN MessageGives(d, f) ELSE ChatEmits(d, f)
CompleteStream(kind, d) ==
    IF kind = "anthropic" THEN MessageComplete(d) ELSE ChatComplete(kind, d)

-----------------------------------------------------------------------------
(* State *)

Results == {"none", "done", "refused", "retryable", "permanent", "budget", "cancelled"}

Decoder == [finish : {"none", "stop", "length", "tool_calls"}, active : {"none", "text", "tool"},
            tools : 0..MaxTools, blocks : 0..MaxMessageFrames, done : BOOLEAN, text : BOOLEAN,
            usage : BOOLEAN, begun : BOOLEAN, args : BOOLEAN, delta : BOOLEAN]
ProviderRequest ==
    [stage : {"idle", "connect", "read", "release", "sleep", "over"}, res : Results,
     kind : ProviderKinds \cup {"none"}, try : 0..ProviderAttempts, emitted : BOOLEAN, dec : Decoder]
Unsent == [stage |-> "idle", kind |-> "none", try |-> 0, emitted |-> FALSE, res |-> "none",
           dec |-> NewDecoder]
Unmade == [Unsent EXCEPT !.stage = "over"]

(* A piece of a response is the number of its attempt and of its frame.    *)
Pieces == (1..ProviderAttempts) \X Nat

ProviderTypeOK ==
    /\ req \in [ProviderRequests -> ProviderRequest]
    /\ \A c \in Streams : ToSet(sent[c]) \subseteq FramesOf(req[c].kind)
    /\ \A c \in Streams : got[c] \subseteq Pieces
    /\ circuit \in [failures : 0..FailureThreshold, state : {"closed", "open", "cooled"}]
    /\ clientClosing \in BOOLEAN

ProviderInit ==
    /\ \E made \in Workloads :
          req = [c \in ProviderRequests |-> IF c \in made THEN Unsent ELSE Unmade]
    /\ sent = [c \in Streams |-> <<>>]
    /\ got = [c \in Streams |-> {}]
    /\ circuit = [failures |-> 0, state |-> "closed"]
    /\ clientClosing = FALSE

-----------------------------------------------------------------------------
(* ResilientProvider: the circuit breaker *)

(* _is_open_locked: a circuit whose cooldown is over closes when looked at. *)
Looked == IF circuit.state = "cooled" THEN [failures |-> 0, state |-> "closed"] ELSE circuit

Healed == [failures |-> 0, state |-> "closed"]

(* _record_failure; the count stops at the threshold.                      *)
Struck ==
    IF circuit.failures + 1 >= FailureThreshold
    THEN [failures |-> FailureThreshold, state |-> "open"]
    ELSE [circuit EXCEPT !.failures = @ + 1]

(* The clock passes _open_until.                                           *)
CooldownPasses ==
    /\ circuit.state = "open"
    /\ circuit' = [circuit EXCEPT !.state = "cooled"]
    /\ UNCHANGED <<req, sent, got, clientClosing>>

(* readiness_check and health_check look at the circuit.                   *)
ReadinessCheck ==
    /\ circuit # Looked
    /\ circuit' = Looked
    /\ UNCHANGED <<req, sent, got, clientClosing>>

-----------------------------------------------------------------------------
(* A request *)

(* The request is over.  What a stream sent and gave is kept if it ended   *)
(* well.                                                                   *)
EndRequest(c, res) ==
    req' = [req EXCEPT ![c].stage = "over", ![c].res = res, ![c].emitted = FALSE,
                       ![c].dec = NewDecoder]

Forgotten(c) ==
    /\ sent' = IF c \in Streams THEN [sent EXCEPT ![c] = <<>>] ELSE sent
    /\ got' = IF c \in Streams THEN [got EXCEPT ![c] = {}] ELSE got

(* An error reaches the facade: a retryable one counts.                    *)
FailsWith(c, e) ==
    /\ EndRequest(c, e)
    /\ circuit' = IF e = "retryable" THEN Struck ELSE circuit

(* The mutant retries a response of which a part was given.                *)
MayRetryAnyway(c, e) == e = "retryable" /\ req[c].try < ProviderAttempts

MayRetry(c, e) == ~req[c].emitted /\ e = "retryable" /\ req[c].try < ProviderAttempts

(* An attempt ends with an error.  Its response is closed first: a close    *)
(* that fails makes any error a permanent one.                             *)
AttemptFails(c, e) ==
    /\ \/ /\ MayRetry(c, e)
          /\ req' = [req EXCEPT ![c].stage = "sleep", ![c].dec = NewDecoder]
          /\ sent' = IF c \in Streams THEN [sent EXCEPT ![c] = <<>>] ELSE sent
          /\ UNCHANGED <<got, circuit>>
       \/ ~MayRetry(c, e) /\ FailsWith(c, e) /\ Forgotten(c)
    /\ UNCHANGED clientClosing

(* An attempt is sent at once; a client that closes sends none             *)
(* (_ensure_client).                                                       *)
NewAttempt ==
    IF clientClosing THEN [stage |-> "over", res |-> "permanent"]
    ELSE [stage |-> "connect", res |-> "none"]

(* The guard of the facade, and the first attempt.                         *)
BeginRequest(c, kind) ==
    LET a == IF Looked.state = "open" THEN [stage |-> "over", res |-> "refused"] ELSE NewAttempt
    IN
    /\ req[c].stage = "idle"
    /\ circuit' = Looked
    /\ req' = [req EXCEPT ![c].kind = kind, ![c].try = 1, ![c].stage = a.stage, ![c].res = a.res]
    /\ UNCHANGED <<sent, got, clientClosing>>

(* Headers arrived.                                                        *)
Connect(c) ==
    /\ c \in Streams /\ req[c].stage = "connect"
    /\ req' = [req EXCEPT ![c].stage = "read"]
    /\ UNCHANGED <<sent, got, circuit, clientClosing>>

(* No connection, a bad status, a refused answer or a timeout.             *)
AttemptError(c, e) ==
    /\ req[c].stage \in {"connect", "read"}
    /\ AttemptFails(c, e)

(* The whole answer of a unary request arrived and is valid: a success,    *)
(* also when it calls more tools than the budget allows.                   *)
WholeAnswer(c, res) ==
    /\ c \in Unaries /\ req[c].stage = "connect"
    /\ EndRequest(c, res)
    /\ circuit' = Healed
    /\ UNCHANGED <<sent, got, clientClosing>>

(* One frame of a stream: decoded, counted against the budget of the       *)
(* facade, and given to the consumer.                                      *)
ReceiveFrame(c, f) ==
    LET r == req[c]
        n == Len(sent[c]) + 1
        d == Decoded(r.kind, r.dec, f)
    IN
    /\ r.stage = "read" /\ n <= MaxFrames(r.kind)
    /\ Accepts(r.kind, r.dec, f)
    /\ IF Gives(r.kind, r.dec, f) /\ d.tools > MaxTools
       THEN /\ EndRequest(c, "budget")
            /\ Forgotten(c)
       ELSE /\ req' = [req EXCEPT ![c].dec = d, ![c].emitted = @ \/ Emits(r.kind, r.dec, f)]
            /\ sent' = [sent EXCEPT ![c] = Append(@, f)]
            /\ got' = IF Gives(r.kind, r.dec, f)
                      THEN [got EXCEPT ![c] = @ \cup {<<r.try, n>>}] ELSE got
    /\ UNCHANGED <<circuit, clientClosing>>

(* A frame out of order.                                                   *)
RefuseFrame(c, f) ==
    /\ req[c].stage = "read"
    /\ ~Accepts(req[c].kind, req[c].dec, f)
    /\ AttemptFails(c, "permanent")

(* The stream ends: the terminal chunk is held until the response closed.  *)
EndOfStream(c) ==
    /\ req[c].stage = "read"
    /\ \/ /\ CompleteStream(req[c].kind, req[c].dec)
          /\ req' = [req EXCEPT ![c].stage = "release"]
          /\ UNCHANGED <<sent, got, circuit, clientClosing>>
       \/ /\ ~CompleteStream(req[c].kind, req[c].dec)
          /\ AttemptFails(c, "permanent")

(* Response and iterators are closed: success, and the terminal chunk.     *)
ReleaseResponse(c) ==
    /\ req[c].stage = "release"
    /\ EndRequest(c, "done")
    /\ circuit' = Healed
    /\ UNCHANGED <<sent, got, clientClosing>>

ReleaseFails(c) ==
    /\ req[c].stage = "release"
    /\ FailsWith(c, "permanent")
    /\ Forgotten(c)
    /\ UNCHANGED clientClosing

(* _retry_sleep ends; a sleeper that stalls or fails ends the request.     *)
Wake(c) ==
    /\ req[c].stage = "sleep"
    /\ req' = [req EXCEPT ![c].stage = NewAttempt.stage, ![c].res = NewAttempt.res,
                          ![c].try = @ + 1, ![c].emitted = FALSE]
    /\ UNCHANGED <<sent, got, circuit, clientClosing>>

SleepFails(c, e) ==
    /\ req[c].stage = "sleep"
    /\ FailsWith(c, e)
    /\ UNCHANGED <<sent, got, clientClosing>>

(* The mutant counts a cancelled request as a failure.                     *)
AbandonCounted(c) ==
    /\ req[c].stage \notin {"idle", "over"}
    /\ EndRequest(c, "cancelled")
    /\ circuit' = Struck
    /\ Forgotten(c)
    /\ UNCHANGED clientClosing

(* The caller is cancelled, or stops to consume.                           *)
Abandon(c) ==
    /\ req[c].stage \notin {"idle", "over"}
    /\ EndRequest(c, "cancelled")
    /\ Forgotten(c)
    /\ UNCHANGED <<circuit, clientClosing>>

(* aclose                                                                  *)
CloseClient ==
    /\ ~clientClosing
    /\ clientClosing' = TRUE
    /\ UNCHANGED <<req, sent, got, circuit>>

ProviderNext ==
    \/ CooldownPasses \/ ReadinessCheck \/ CloseClient
    \/ \E c \in ProviderRequests :
          \/ \E kind \in IF c \in Streams THEN ProviderKinds ELSE {"none"} : BeginRequest(c, kind)
          \/ Connect(c) \/ Wake(c) \/ Abandon(c)
          \/ \E e \in {"retryable", "permanent"} : AttemptError(c, e) \/ SleepFails(c, e)
          \/ \E res \in {"done", "budget"} : WholeAnswer(c, res)
    \/ \E c \in Streams :
          \/ \E f \in FramesOf(req[c].kind) : ReceiveFrame(c, f) \/ RefuseFrame(c, f)
          \/ EndOfStream(c) \/ ReleaseResponse(c) \/ ReleaseFails(c)

ProviderSpec == ProviderInit /\ [][ProviderNext]_providerVars

-----------------------------------------------------------------------------
(* Properties *)

(* A whole streamed completion: one terminal choice, choices before it     *)
(* only, the marker at the end, a conclusion that agrees with the tools    *)
(* called; the native API sends its accounting once, after the choice.     *)
WholeChat(kind, s) ==
    \E i \in 1..(Len(s) - 1) :
        LET before == 1..i  after == (i + 1)..(Len(s) - 1)
            Tools == {j \in before : s[j].tool}
        IN  /\ s[Len(s)] = Done
            /\ s[i].finish \in {"stop", "length", "tool_calls"}
            /\ \A j \in (before \cup after) \ {i} : s[j].finish = "none"
            /\ \A j \in after : ~s[j].choice
            /\ s[i].finish = "tool_calls" => Tools # {}
            /\ s[i].finish = "stop" => Tools = {}
            /\ Tools # {} \/ \E j \in before : s[j].text
            /\ kind = "openai" => /\ \A j \in before : ~s[j].usage
                                 /\ Cardinality({j \in after : s[j].usage}) = 1

(* A whole message: blocks that open and close one after the other, then   *)
(* the deltas that conclude it in agreement with the tools called.         *)
WholeMessage(m) ==
    LET n == Len(m)
        Tools == {i \in 1..n : m[i] = "tool_start"}
        Reasons == {Reason(m[i]) : i \in 1..n} \ {"none"}
        Deltas(start) == IF start = "tool_start" THEN "json_delta" ELSE "text_delta"
    IN  /\ n > 3 /\ m[1] = "message_start" /\ m[n] = "message_stop"
        /\ \E j \in 3..(n - 1) :
             /\ \A i \in j..(n - 1) : m[i] \in DeltaFrames
             /\ \A i \in 2..(j - 1) :
                  \/ /\ m[i] \in Starts
                     /\ \E k \in (i + 1)..(j - 1) :
                          /\ m[k] = "block_stop"
                          /\ \A x \in (i + 1)..(k - 1) : m[x] = Deltas(m[i])
                  \/ /\ m[i] \in {"text_delta", "json_delta", "block_stop"}
                     /\ m[i - 1] \notin {"message_start", "block_stop"}
        /\ Cardinality(Reasons) = 1
        /\ Reasons = {"tool_calls"} => Tools # {}
        /\ Reasons = {"stop"} => Tools = {}
        /\ Tools # {} \/ \E i \in 1..n : m[i] \in TextFrames

Whole(kind, s) == IF kind = "anthropic" THEN WholeMessage(s) ELSE WholeChat(kind, s)

(* The frames of a stream that carry text or a tool call before its        *)
(* terminal choice.                                                        *)
Payload(kind, s) ==
    {i \in DOMAIN s : IF kind = "anthropic"
                      THEN s[i] \in {"tool_start", "json_delta"} \cup TextFrames
                      ELSE s[i].finish = "none" /\ (s[i].text \/ s[i].tool)}

(* A consumer that is told that its completion ended was given all of a     *)
(* whole response, and no consumer ever sees parts of two attempts: the    *)
(* terminal chunk is held until the response is validated and closed, and  *)
(* a response of which a part was accepted is not requested again          *)
(* (_chat_completion_stream, _messages_stream).                            *)
OneWholeResponse ==
    \A c \in Streams :
        /\ \A g, h \in got[c] : g[1] = h[1]
        /\ req[c].res = "done" =>
             /\ Whole(req[c].kind, sent[c])
             /\ \A i \in Payload(req[c].kind, sent[c]) : <<req[c].try, i>> \in got[c]

(* Only requests that ended with an error of the provider open the circuit: *)
(* a caller that is cancelled, a budget or a malformed answer does not.    *)
CircuitCountsFailures ==
    circuit.failures <= Cardinality({c \in ProviderRequests : req[c].res = "retryable"})
=============================================================================
