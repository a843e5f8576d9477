------------------------------ MODULE ChatTurn ------------------------------
(***************************************************************************)
(* The turns of one conversation: requests of                              *)
(* apps/api/src/services/chat_service.py over one of its histories: in     *)
(* PostgreSQL (postgres_chat_history.py), SQLite or memory                 *)
(* (chat_history.py).  A request may carry an idempotency key; a retry of  *)
(* it looks for a stored turn, generates an answer when there is none, and *)
(* stores it.  The history is read and written in transactions of their    *)
(* own, so requests with one key overlap between them.  A stream that      *)
(* fails or that its client leaves stores its outcome as a turn too, which *)
(* a later request with the key replaces.                                  *)
(*                                                                         *)
(* A text stands for what the fingerprint of a request covers; an answer   *)
(* is named by the request that generated it.  Requests that are refused   *)
(* before they reach the history are left out, and so are the collections  *)
(* of citations.                                                           *)
(***************************************************************************)
EXTENDS Integers, Sequences, SequencesExt

CONSTANTS
    Clients,       \* requests
    Keys,          \* idempotency keys
    Texts,         \* messages
    Modes,         \* ways to answer, of AllModes
    Stores,        \* histories, of AllStores
    ChatFaults     \* what may fail, of AllChatFaults

(* `chat`, stream_events over a backend that streams, and stream_events    *)
(* over one that does not, which calls `chat`.                             *)
AllModes == {"chat", "live", "buffered"}
AllStores == {"postgres", "sqlite", "memory"}

(* A generation or a validation, a transaction, the acknowledgement of a   *)
(* commit, the client's connection, and the process.                       *)
AllChatFaults == {"generate", "database", "lost", "cancel", "crash"}

ASSUME ChatAssumption ==
    /\ Modes \subseteq AllModes /\ Stores \subseteq AllStores /\ ChatFaults \subseteq AllChatFaults
    /\ Clients \cap Keys = {} /\ {"none", "error"} \cap (Clients \cup Keys) = {}

VARIABLES
    store,         \* the history in use
    conversation,  \* status of the conversation
    turns,         \* the stored turns, in the order of their creation
    ask            \* the requests

chatVars == <<store, conversation, turns, ask>>

-----------------------------------------------------------------------------
(* State *)

Statuses == {"complete", "error", "cancelled"}

(* STREAM_CONTEXT_EXCLUDED_STATUSES; no path of stream_events reaches      *)
(* `partial`, since it holds back every delta until the turn is stored.    *)
Excluded == {"error", "cancelled"}

(* A question and its answer; `id` is the idempotency key of the user      *)
(* message, or the message id of a request without one.                    *)
StoredTurn == [id : Clients \cup Keys, text : Texts, status : Statuses, answer : Clients \cup {"none"}]

Message == [role : {"user", "assistant"}, turn : Clients \cup Keys]

(* `scope` is scope_ready, `history` what the generation is given, `answer`*)
(* what is to be sent, `status` the terminal status of a failed stream,    *)
(* `hurt` that the process or a transaction of the request failed, `reply` *)
(* what the client has received.                                           *)
NoAsk == [stage |-> "idle"]
Ask == [stage : {"enter", "lookup", "prepare", "context", "generate", "append", "insert", "deliver",
                 "emit", "record", "done"},
        mode : Modes, id : Clients \cup Keys, text : Texts, scope : BOOLEAN, replay : BOOLEAN,
        history : Seq(Message), answer : Clients \cup {"none"}, status : Statuses, hurt : BOOLEAN,
        reply : Clients \cup {"none", "error"}]

ChatTypeOK ==
    /\ store \in Stores
    /\ conversation \in {"none", "active", "archived"}
    /\ turns \in Seq(StoredTurn)
    /\ ask \in [Clients -> Ask \cup {NoAsk}]

ChatInit ==
    /\ store \in Stores
    /\ conversation = "none"
    /\ turns = << >>
    /\ ask = [c \in Clients |-> NoAsk]

AtStage(c, stage) == ask[c].stage = stage
Keyed(c) == ask[c].id \in Keys

(* Memory fails with its process only, and a file answers a commit.        *)
MayFail(fault) ==
    /\ fault \in ChatFaults
    /\ store = "sqlite" => fault # "lost"
    /\ store = "memory" => fault \in {"generate", "cancel"}

(* Request c goes on as the given record.                                  *)
Now(c, next) == ask' = [ask EXCEPT ![c] = next]

Hurt(request) == [request EXCEPT !.hurt = TRUE]

(* The turn stored for the key or message id of request c: none or one.    *)
Places(id) == {i \in DOMAIN turns : turns[i].id = id}

-----------------------------------------------------------------------------
(* The end of a request *)

(* What `finally` of stream_events stores an outcome for.                  *)
RecordedErrorsOnly(c, status) == ask[c].scope /\ ~ask[c].replay /\ status = "error"

Recorded(c, status) == ask[c].mode # "chat" /\ ask[c].scope /\ ~ask[c].replay

(* A request ends without an answer: with an error, or because its client  *)
(* has gone.                                                               *)
Ended(c, status) ==
    [ask[c] EXCEPT !.stage = IF Recorded(c, status) THEN "record" ELSE "done",
                   !.status = status, !.history = << >>, !.answer = "none",
                   !.reply = IF status = "error" THEN "error" ELSE "none"]

Raises(c) == Now(c, Ended(c, "error"))

(* A transaction fails and leaves nothing.                                 *)
DatabaseFails(c, next) ==
    /\ MayFail("database")
    /\ Now(c, Hurt(next))
    /\ UNCHANGED <<conversation, turns>>

-----------------------------------------------------------------------------
(* chat and stream_events, up to the generation *)

Begin(c, mode, id, text) ==
    /\ AtStage(c, "idle")
    /\ ask' = [ask EXCEPT ![c] =
                 [stage |-> IF mode = "buffered" THEN "enter" ELSE IF id \in Keys THEN "lookup" ELSE "prepare",
                  mode |-> mode, id |-> id, text |-> text, scope |-> FALSE, replay |-> FALSE,
                  history |-> << >>, answer |-> "none", status |-> "complete", hurt |-> FALSE,
                  reply |-> "none"]]
    /\ UNCHANGED <<conversation, turns>>

(* get_idempotent and _replayable_turn: a turn with another text is a      *)
(* conflict, an outcome without an answer is no turn to replay.            *)
Lookup(c) ==
    /\ AtStage(c, "lookup")
    /\ \/ \E i \in Places(ask[c].id) :
            \/ turns[i].text # ask[c].text /\ Raises(c)
            \/ /\ turns[i].text = ask[c].text /\ turns[i].status \notin Excluded
               /\ \/ Now(c, [ask[c] EXCEPT !.stage = "emit", !.answer = turns[i].answer,
                                           !.replay = ask[c].mode = "live"])
                  \/ MayFail("generate") /\ Raises(c)          \* _cached_response
       \/ /\ \A i \in Places(ask[c].id) : turns[i].text = ask[c].text /\ turns[i].status \in Excluded
          /\ Now(c, [ask[c] EXCEPT !.stage = "prepare"])
       \/ MayFail("database") /\ Now(c, Hurt(Ended(c, "error")))
    /\ UNCHANGED <<conversation, turns>>

(* create_conversation; a stream then owes an outcome.  A buffered stream  *)
(* prepares the conversation before it calls `chat`, which does so again.  *)
Prepare(c) ==
    /\ ask[c].stage \in {"enter", "prepare"}
    /\ \/ conversation = "archived" /\ Raises(c) /\ UNCHANGED <<conversation, turns>>
       \/ /\ conversation # "archived"
          /\ conversation' = "active"
          /\ Now(c, [ask[c] EXCEPT !.scope = ask[c].mode # "chat",
                                    !.stage = IF AtStage(c, "prepare") THEN "context"
                                              ELSE IF Keyed(c) THEN "lookup" ELSE "prepare"])
          /\ UNCHANGED turns
       \/ DatabaseFails(c, Ended(c, "error"))

(* The messages of a turn, in the order in which they are read.  In        *)
(* PostgreSQL they are two rows of one transaction, with one created_at    *)
(* (DEFAULT NOW()), in the order of their ids: "msg-..." before "user-...".*)
MessageRows(turn) ==
    LET Row(role) == [role |-> role, turn |-> turn.id, status |-> turn.status]
    IN IF store = "postgres" THEN <<Row("assistant"), Row("user")>> ELSE <<Row("user"), Row("assistant")>>

(* get_context goes through them, oldest first: an excluded answer is left *)
(* out, together with the question before it.                              *)
Context ==
    LET Take(messages, row) ==
            IF row.role = "user" \/ row.status \notin Excluded
            THEN Append(messages, [role |-> row.role, turn |-> row.turn])
            ELSE IF messages # << >> /\ Last(messages).role = "user" THEN Front(messages)
            ELSE messages
    IN FoldLeft(Take, << >>, FlattenSeq([i \in DOMAIN turns |-> MessageRows(turns[i])]))

ReadContext(c) ==
    /\ AtStage(c, "context")
    /\ \/ /\ Now(c, [ask[c] EXCEPT !.stage = "generate", !.history = Context])
          /\ UNCHANGED <<conversation, turns>>
       \/ DatabaseFails(c, Ended(c, "error"))

(* The professor's answer, validated against the current sources; the      *)
(* professor's lease and its refusals are in ConversationLease.            *)
Generate(c) ==
    /\ AtStage(c, "generate")
    /\ \/ Now(c, [ask[c] EXCEPT !.stage = "append", !.answer = c, !.history = << >>])
       \/ MayFail("generate") /\ Raises(c)
    /\ UNCHANGED <<conversation, turns>>

-----------------------------------------------------------------------------
(* append, for an answer or for the outcome of a stream *)

TurnOf(c) == [id |-> ask[c].id, text |-> ask[c].text, status |-> ask[c].status, answer |-> ask[c].answer]

(* An answer is on its way to the client; an outcome ends the request.     *)
Returns(c, answer) ==
    IF ask[c].status = "complete" THEN [ask[c] EXCEPT !.stage = "deliver", !.answer = answer]
    ELSE [ask[c] EXCEPT !.stage = "done"]

(* An answer that cannot be stored is an error of the request; an outcome  *)
(* that cannot be stored is an error nobody is told.                       *)
Refused(c) ==
    IF ask[c].status = "complete" THEN Ended(c, "error") ELSE [ask[c] EXCEPT !.stage = "done"]

(* The commit of a changed history: it succeeds, fails, or succeeds        *)
(* without an acknowledgement.                                             *)
CommitsTurn(c, stored, status) ==
    \/ turns' = stored /\ conversation' = status /\ Now(c, Returns(c, ask[c].answer))
    \/ /\ MayFail("lost")
       /\ turns' = stored /\ conversation' = status /\ Now(c, Hurt(Refused(c)))
    \/ DatabaseFails(c, Refused(c))

ReplaceableAlways(turn) == TRUE

(* Only an outcome without an answer gives way to another turn of its key. *)
Replaceable(turn) == turn.status \in Excluded

(* In SQLite the turn that replaces an outcome becomes the newest.         *)
Replaced(i, turn) ==
    IF store = "sqlite" THEN Append(RemoveAt(turns, i), turn) ELSE [turns EXCEPT ![i] = turn]

Appending(c) == ask[c].stage \in {"append", "record"}

(* Memory refuses an archived conversation before it looks for the key.    *)
KeyFound(c) == Keyed(c) /\ Places(ask[c].id) # {} /\ ~(store = "memory" /\ conversation = "archived")

(* The turn of the key is found and locked until the end.  The databases   *)
(* replace an outcome whatever the status of the conversation.             *)
AppendFound(c) ==
    /\ Appending(c) /\ KeyFound(c)
    /\ \E i \in Places(ask[c].id) :
         \/ /\ turns[i].text # ask[c].text
            /\ Now(c, Refused(c)) /\ UNCHANGED <<conversation, turns>>
         \/ /\ turns[i].text = ask[c].text /\ ~Replaceable(turns[i])
            /\ Now(c, Returns(c, turns[i].answer)) /\ UNCHANGED <<conversation, turns>>
         \/ /\ turns[i].text = ask[c].text /\ Replaceable(turns[i])
            /\ CommitsTurn(c, Replaced(i, TurnOf(c)), conversation)

(* PostgreSQL: no turn of the key is seen; the insertion follows in the    *)
(* transaction, while others may store one.                                *)
AppendMissing(c) ==
    /\ store = "postgres"
    /\ Appending(c) /\ ~KeyFound(c)
    /\ Now(c, [ask[c] EXCEPT !.stage = "insert"])
    /\ UNCHANGED <<conversation, turns>>

(* Under the lock of the conversation, or of the whole store.  In the      *)
(* databases the key and the message ids are unique: a turn stored in the  *)
(* meantime makes the insertion fail.                                      *)
Insert(c) ==
    /\ \/ AtStage(c, "insert")
       \/ store # "postgres" /\ Appending(c) /\ ~KeyFound(c)
    /\ LET taken == store # "memory" /\ Places(ask[c].id) # {}
       IN \/ /\ conversation = "archived" \/ taken
             /\ Now(c, Refused(c)) /\ UNCHANGED <<conversation, turns>>
          \/ /\ conversation # "archived" /\ ~taken
             /\ CommitsTurn(c, Append(turns, TurnOf(c)), "active")

-----------------------------------------------------------------------------
(* The answer reaches the client *)

(* _cached_response checks the stored turn against the current sources.    *)
Deliver(c) ==
    /\ AtStage(c, "deliver")
    /\ \/ Now(c, [ask[c] EXCEPT !.stage = "emit"])
       \/ MayFail("generate") /\ Raises(c)
    /\ UNCHANGED <<conversation, turns>>

Emit(c) ==
    /\ AtStage(c, "emit")
    /\ Now(c, [ask[c] EXCEPT !.stage = "done", !.reply = ask[c].answer])
    /\ UNCHANGED <<conversation, turns>>

(* The client goes away while the request waits or yields; a stream        *)
(* records that.  The history is read and written without waiting.         *)
Cancelled(c) ==
    /\ MayFail("cancel")
    /\ ask[c].stage \in {"context", "generate", "deliver", "emit"}
    /\ Now(c, Ended(c, "cancelled"))
    /\ UNCHANGED <<conversation, turns>>

(* The process of the request ends; an open transaction is rolled back.    *)
ChatCrash(c) ==
    /\ MayFail("crash")
    /\ ask[c].stage \notin {"idle", "done"}
    /\ Now(c, [ask[c] EXCEPT !.stage = "done", !.hurt = TRUE, !.history = << >>, !.answer = "none"])
    /\ UNCHANGED <<conversation, turns>>

(* archive_conversation.                                                   *)
Archive ==
    /\ conversation = "active"
    /\ conversation' = "archived"
    /\ UNCHANGED <<turns, ask>>

ChatNext ==
    /\ UNCHANGED store
    /\ \/ \E c \in Clients :
            \/ \E mode \in Modes, id \in Keys \cup {c}, text \in Texts : Begin(c, mode, id, text)
            \/ Lookup(c) \/ Prepare(c) \/ ReadContext(c) \/ Generate(c)
            \/ AppendFound(c) \/ AppendMissing(c) \/ Insert(c)
            \/ Deliver(c) \/ Emit(c) \/ Cancelled(c) \/ ChatCrash(c)
       \/ Archive

ChatSpec == ChatInit /\ [][ChatNext]_chatVars

-----------------------------------------------------------------------------
(* Properties *)

(* Every answer a client has received is, and stays, the complete turn of  *)
(* its key: retries that overlap, that fail or that are left by their      *)
(* client neither hide an answer that was given nor give a second one.     *)
AnswerIsStored ==
    \A c \in Clients : AtStage(c, "done") /\ ask[c].reply \in Clients =>
        \E i \in DOMAIN turns :
            turns[i].id = ask[c].id /\ turns[i].status = "complete" /\ turns[i].answer = ask[c].reply

(* A stream that has begun in a conversation ends with a durable outcome,  *)
(* be it an answer, an error or a cancellation, unless the conversation    *)
(* was archived meanwhile or the process or its database failed.           *)
OutcomeIsDurable ==
    \A c \in Clients : AtStage(c, "done") /\ ask[c].scope /\ ~ask[c].hurt =>
        conversation = "archived" \/ Places(ask[c].id) # {}

(* The history a generation is given consists of questions, each followed  *)
(* by its answer, as test_validated_completion_persists_complete_status_   *)
(* and_context expects of the history.                                     *)
HistoryIsPaired ==
    \A c \in Clients : AtStage(c, "generate") =>
        LET h == ask[c].history IN
        /\ Len(h) % 2 = 0
        /\ \A i \in DOMAIN h : i % 2 = 1 =>
             /\ h[i].role = "user" /\ h[i + 1].role = "assistant"
             /\ h[i].turn = h[i + 1].turn
=============================================================================
