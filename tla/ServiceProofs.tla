---------------------------- MODULE ServiceProofs ----------------------------
(***************************************************************************)
(* Theorems about the two components that answer a chat request: the       *)
(* turns of ChatTurn, for any clients, keys, texts, modes, histories and   *)
(* faults, and the requests of ProviderStream, for any number of requests, *)
(* attempts, tools and frames.                                             *)
(***************************************************************************)
EXTENDS ChatTurn, ProviderStream, SequenceTheorems, FiniteSetTheorems, TLAPS

-----------------------------------------------------------------------------
(* Chat turns: the inductive invariant *)

Stages == {"enter", "lookup", "prepare", "context", "generate", "append", "insert", "deliver",
           "emit", "record", "done"}

(* A request whose history is one of H.                                    *)
AskWith(H) ==
    [stage : Stages, mode : Modes, id : Clients \cup Keys, text : Texts, scope : BOOLEAN, replay : BOOLEAN,
     history : H, answer : Clients \cup {"none"}, status : Statuses, hurt : BOOLEAN,
     reply : Clients \cup {"none", "error"}]

Made(a) == a \in AskWith({a.history})

(* The answer is the complete turn of the key; the key has a turn.         *)
Stored(T, id, answer) ==
    \E i \in DOMAIN T : T[i].id = id /\ T[i].status = "complete" /\ T[i].answer = answer
Placed(T, id) == \E i \in DOMAIN T : T[i].id = id

(* What a request knows of the history.                                    *)
Sound(a, T, status) ==
    /\ a.stage \in {"deliver", "emit"} => Stored(T, a.id, a.answer)
    /\ a.reply \in Clients => Stored(T, a.id, a.reply)
    /\ a.replay => Placed(T, a.id)
    /\ a.scope => a.mode # "chat"
    /\ a.stage = "done" /\ a.scope /\ ~a.hurt => status = "archived" \/ Placed(T, a.id)

Request(a, T, status) == a = NoAsk \/ (Made(a) /\ Sound(a, T, status))

ChatInv ==
    /\ turns \in Seq(StoredTurn)
    /\ DOMAIN ask = Clients
    /\ \A c \in Clients : Request(ask[c], turns, conversation)
-----------------------------------------------------------------------------
(* Chat turns: the records of the requests *)

(* Request b is request a with the given stage, scope, replay, answer,     *)
(* mark and reply.                                                         *)
Becomes(a, b, stage, scope, replay, answer, hurt, reply) ==
    /\ Made(b)
    /\ b.id = a.id /\ b.mode = a.mode
    /\ b.stage = stage /\ b.scope = scope /\ b.replay = replay
    /\ b.answer = answer /\ b.hurt = hurt /\ b.reply = reply

(* The updates of the actions change the fields they name.                 *)
LEMMA MovesOn ==
    ASSUME NEW a, Made(a), NEW stage \in Stages
    PROVE  /\ Becomes(a, [a EXCEPT !.stage = stage], stage, a.scope, a.replay, a.answer, a.hurt, a.reply)
           /\ [a EXCEPT !.stage = stage].status = a.status
BY DEF Made, AskWith, Stages, Becomes

LEMMA GetsHurt ==
    ASSUME NEW a, Made(a)
    PROVE  Becomes(a, Hurt(a), a.stage, a.scope, a.replay, a.answer, TRUE, a.reply)
BY DEF Made, AskWith, Hurt, Becomes

LEMMA FindsTurn ==
    ASSUME NEW a, Made(a), NEW stage \in Stages, NEW answer \in Clients \cup {"none"},
           NEW replay \in BOOLEAN
    PROVE  Becomes(a, [a EXCEPT !.stage = stage, !.answer = answer, !.replay = replay],
                   stage, a.scope, replay, answer, a.hurt, a.reply)
BY DEF Made, AskWith, Stages, Becomes

LEMMA EntersScope ==
    ASSUME NEW a, Made(a), NEW stage \in Stages, NEW scope \in BOOLEAN
    PROVE  Becomes(a, [a EXCEPT !.scope = scope, !.stage = stage],
                   stage, scope, a.replay, a.answer, a.hurt, a.reply)
BY DEF Made, AskWith, Stages, Becomes

LEMMA ReadsHistory ==
    ASSUME NEW a, Made(a), NEW stage \in Stages, NEW history
    PROVE  Becomes(a, [a EXCEPT !.stage = stage, !.history = history],
                   stage, a.scope, a.replay, a.answer, a.hurt, a.reply)
BY DEF Made, AskWith, Stages, Becomes

LEMMA HasAnswer ==
    ASSUME NEW a, Made(a), NEW stage \in Stages, NEW answer \in Clients \cup {"none"}, NEW history
    PROVE  Becomes(a, [a EXCEPT !.stage = stage, !.answer = answer, !.history = history],
                   stage, a.scope, a.replay, answer, a.hurt, a.reply)
BY DEF Made, AskWith, Stages, Becomes

LEMMA TakesAnswer ==
    ASSUME NEW a, Made(a), NEW stage \in Stages, NEW answer \in Clients \cup {"none"}
    PROVE  Becomes(a, [a EXCEPT !.stage = stage, !.answer = answer],
                   stage, a.scope, a.replay, answer, a.hurt, a.reply)
BY DEF Made, AskWith, Stages, Becomes

LEMMA Replies ==
    ASSUME NEW a, Made(a), NEW stage \in Stages, NEW reply \in Clients \cup {"none", "error"}
    PROVE  Becomes(a, [a EXCEPT !.stage = stage, !.reply = reply],
                   stage, a.scope, a.replay, a.answer, a.hurt, reply)
BY DEF Made, AskWith, Stages, Becomes

LEMMA Breaks ==
    ASSUME NEW a, Made(a), NEW history
    PROVE  Becomes(a, [a EXCEPT !.stage = "done", !.hurt = TRUE, !.history = history,
                                !.answer = "none"],
                   "done", a.scope, a.replay, "none", TRUE, a.reply)
BY DEF Made, AskWith, Stages, Becomes

LEMMA EndsAs ==
    ASSUME NEW a, Made(a), NEW stage \in Stages, NEW status \in Statuses, NEW history,
           NEW reply \in {"none", "error"}
    PROVE  Becomes(a, [a EXCEPT !.stage = stage, !.status = status, !.history = history,
                                !.answer = "none", !.reply = reply],
                   stage, a.scope, a.replay, "none", a.hurt, reply)
BY DEF Made, AskWith, Stages, Becomes

-----------------------------------------------------------------------------
(* Chat turns: the history only grows *)

(* A history that replaces T by U keeps every complete turn and every key, *)
(* and an archived conversation stays archived.                            *)
Grows(T, status, U, after) ==
    /\ U \in Seq(StoredTurn)
    /\ \A id, answer : Stored(T, id, answer) => Stored(U, id, answer)
    /\ \A id : Placed(T, id) => Placed(U, id)
    /\ status = "archived" => after = "archived"

(* What a request knows stays true while the history grows.                *)
LEMMA KnowledgeLasts ==
    ASSUME NEW a, NEW T, NEW U, NEW status, NEW after,
           Request(a, T, status), Grows(T, status, U, after)
    PROVE  Request(a, U, after)
BY DEF Request, Sound, Grows

(* One turn in the place of another of its key keeps the rest.             *)
LEMMA ReplacedKeeps ==
    ASSUME turns \in Seq(StoredTurn), NEW i \in DOMAIN turns, NEW t \in StoredTurn
    PROVE  /\ Replaced(i, t) \in Seq(StoredTurn)
           /\ \E k \in DOMAIN Replaced(i, t) : Replaced(i, t)[k] = t
           /\ \A j \in DOMAIN turns : j # i =>
                \E k \in DOMAIN Replaced(i, t) : Replaced(i, t)[k] = turns[j]
<1> DEFINE n == Len(turns)
<1>0. n \in Nat /\ DOMAIN turns = 1..n /\ i \in 1..n /\ \A j \in 1..n : turns[j] \in StoredTurn
  OBVIOUS
<1>1. CASE store = "sqlite"
  <2> DEFINE L == SubSeq(turns, 1, i - 1)
             R == SubSeq(turns, i + 1, n)
             S == RemoveAt(turns, i)
             U == Append(S, t)
  <2>1. /\ L \in Seq(StoredTurn) /\ Len(L) = i - 1
        /\ \A j \in 1..(i - 1) : L[j] = turns[j]
    BY <1>0
  <2>2. /\ R \in Seq(StoredTurn) /\ Len(R) = n - i
        /\ \A j \in 1..(n - i) : R[j] = turns[j + i]
    <3>1. i + 1 \in 1..(n + 1) /\ n \in ((i + 1) - 1)..Len(turns)
      BY <1>0
    <3>2. /\ R \in Seq(StoredTurn) /\ Len(R) = n - (i + 1) + 1
          /\ \A j \in 1..(n - (i + 1) + 1) : R[j] = turns[(i + 1) + j - 1]
      BY <3>1, SubSeqProperties
    <3> HIDE DEF R
    <3>3. n - (i + 1) + 1 = n - i /\ \A j \in 1..(n - i) : (i + 1) + j - 1 = j + i
      BY <1>0
    <3> QED
      BY <3>2, <3>3
  <2>3. S = L \o R
    BY DEF RemoveAt
  <2> HIDE DEF L, R, S
  <2>4. /\ S \in Seq(StoredTurn) /\ Len(S) = n - 1
        /\ \A j \in 1..(i - 1) : S[j] = turns[j]
        /\ \A j \in i..(n - 1) : S[j] = turns[j + 1]
    <3>1. S \in Seq(StoredTurn) /\ Len(S) = n - 1
      <4>1. L \o R \in Seq(StoredTurn) /\ Len(L \o R) = Len(L) + Len(R)
        BY <2>1, <2>2, ConcatProperties
      <4>2. (i - 1) + (n - i) = n - 1
        BY <1>0
      <4> QED
        BY <4>1, <4>2, <2>1, <2>2, <2>3
    <3>2. \A j \in 1..(i - 1) : S[j] = turns[j]
      BY <1>0, <2>1, <2>2, <2>3
    <3>3. \A j \in i..(n - 1) : S[j] = turns[j + 1]
      <4> SUFFICES ASSUME NEW j \in i..(n - 1)
                   PROVE  S[j] = turns[j + 1]
        OBVIOUS
      <4>1. S[j] = R[j - (i - 1)]
        BY <1>0, <2>1, <2>2, <2>3
      <4>2. j - (i - 1) \in 1..(n - i) /\ (j - (i - 1)) + i = j + 1
        BY <1>0
      <4> QED
        BY <4>1, <4>2, <2>2
    <3> QED
      BY <3>1, <3>2, <3>3
  <2>5. /\ U \in Seq(StoredTurn) /\ DOMAIN U = 1..n /\ U[n] = t
        /\ \A j \in 1..(n - 1) : U[j] = S[j]
    <3>1. /\ U \in Seq(StoredTurn) /\ Len(U) = Len(S) + 1
          /\ \A j \in 1..Len(S) : U[j] = S[j]
          /\ U[Len(S) + 1] = t
      BY <2>4, AppendProperties
    <3> HIDE DEF U
    <3>2. Len(S) = n - 1 /\ (n - 1) + 1 = n
      BY <1>0, <2>4
    <3> QED
      BY <3>1, <3>2
  <2>6. Replaced(i, t) = U
    BY <1>1 DEF Replaced, S
  <2> HIDE DEF U
  <2>7. \A j \in 1..n : j # i => \E k \in 1..n : U[k] = turns[j]
    <3> SUFFICES ASSUME NEW j \in 1..n, j # i
                 PROVE  \E k \in 1..n : U[k] = turns[j]
      OBVIOUS
    <3>1. CASE j < i
      BY <3>1, <1>0, <2>4, <2>5
    <3>2. CASE j > i
      <4>1. j - 1 \in i..(n - 1) /\ (j - 1) + 1 = j /\ j - 1 \in 1..n /\ j - 1 \in 1..(n - 1)
        BY <3>2, <1>0
      <4>2. U[j - 1] = turns[j]
        BY <4>1, <2>4, <2>5
      <4> QED
        BY <4>1, <4>2
    <3> QED
      BY <3>1, <3>2, <1>0
  <2>8. n \in 1..n
    BY <1>0
  <2> QED
    BY <2>5, <2>6, <2>7, <2>8, <1>0
<1>2. CASE store # "sqlite"
  <2>1. Replaced(i, t) = [turns EXCEPT ![i] = t]
    BY <1>2 DEF Replaced
  <2> QED
    BY <2>1, <1>0
<1> QED
  BY <1>1, <1>2

(* A turn that gives way held no answer, and its key has another turn.     *)
LEMMA ReplacingGrows ==
    ASSUME turns \in Seq(StoredTurn), NEW i \in DOMAIN turns, NEW t \in StoredTurn,
           turns[i].id = t.id, Replaceable(turns[i])
    PROVE  Grows(turns, conversation, Replaced(i, t), conversation)
<1> DEFINE U == Replaced(i, t)
<1>1. /\ U \in Seq(StoredTurn)
      /\ \E k \in DOMAIN U : U[k] = t
      /\ \A j \in DOMAIN turns : j # i => \E k \in DOMAIN U : U[k] = turns[j]
  BY ReplacedKeeps
<1>2. turns[i].status # "complete"
  BY DEF Replaceable, Excluded
<1> HIDE DEF U
<1>3. ASSUME NEW id, NEW answer, Stored(turns, id, answer)
      PROVE  Stored(U, id, answer)
  <2>1. PICK j \in DOMAIN turns :
          turns[j].id = id /\ turns[j].status = "complete" /\ turns[j].answer = answer
    BY <1>3 DEF Stored
  <2>2. PICK k \in DOMAIN U : U[k] = turns[j]
    BY <1>1, <1>2, <2>1
  <2> QED
    BY <2>1, <2>2 DEF Stored
<1>4. ASSUME NEW id, Placed(turns, id)
      PROVE  Placed(U, id)
  <2>1. PICK j \in DOMAIN turns : turns[j].id = id
    BY <1>4 DEF Placed
  <2>2. CASE j = i
    BY <1>1, <2>1, <2>2 DEF Placed
  <2>3. CASE j # i
    BY <1>1, <2>1, <2>3 DEF Placed
  <2> QED
    BY <2>2, <2>3
<1> QED
  BY <1>1, <1>3, <1>4 DEF Grows, U

LEMMA AppendingGrows ==
    ASSUME turns \in Seq(StoredTurn), NEW t \in StoredTurn, NEW status,
           conversation # "archived"
    PROVE  /\ Grows(turns, conversation, Append(turns, t), status)
           /\ \E k \in DOMAIN Append(turns, t) : Append(turns, t)[k] = t
<1> DEFINE U == Append(turns, t)
<1>1. /\ U \in Seq(StoredTurn)
      /\ \A j \in DOMAIN turns : j \in DOMAIN U /\ U[j] = turns[j]
      /\ Len(turns) + 1 \in DOMAIN U /\ U[Len(turns) + 1] = t
  OBVIOUS
<1> HIDE DEF U
<1>2. \A id, answer : Stored(turns, id, answer) => Stored(U, id, answer)
  BY <1>1 DEF Stored
<1>3. \A id : Placed(turns, id) => Placed(U, id)
  BY <1>1 DEF Placed
<1> QED
  BY <1>1, <1>2, <1>3 DEF Grows, U

LEMMA StandingGrows ==
    ASSUME turns \in Seq(StoredTurn)
    PROVE  Grows(turns, conversation, turns, conversation)
BY DEF Grows

-----------------------------------------------------------------------------
(* Chat turns: the steps of a request *)

(* Request c goes from one sound record to another while the history       *)
(* grows.                                                                  *)
AskStep(c) ==
    /\ Grows(turns, conversation, turns', conversation')
    /\ \E next : Now(c, next) /\ Request(next, turns', conversation')

LEMMA AskStepKeepsInv ==
    ASSUME ChatInv, NEW c \in Clients, AskStep(c)
    PROVE  ChatInv'
<1>1. PICK next : Now(c, next) /\ Request(next, turns', conversation')
  BY DEF AskStep
<1>2. Grows(turns, conversation, turns', conversation')
  BY DEF AskStep
<1>3. DOMAIN ask' = Clients
  BY <1>1 DEF Now, ChatInv
<1>4. ASSUME NEW d \in Clients
      PROVE  Request(ask'[d], turns', conversation')
  <2>1. CASE d = c
    BY <1>1, <2>1 DEF Now, ChatInv
  <2>2. CASE d # c
    <3>1. ask'[d] = ask[d] /\ Request(ask[d], turns, conversation)
      BY <1>1, <2>2 DEF Now, ChatInv
    <3> QED
      BY <3>1, <1>2, KnowledgeLasts
  <2> QED
    BY <2>1, <2>2
<1>5. turns' \in Seq(StoredTurn)
  BY <1>2 DEF Grows
<1> QED
  BY <1>3, <1>4, <1>5 DEF ChatInv

(* A request that stays as it is in the history is in a quiet step.        *)
LEMMA QuietStep ==
    ASSUME ChatInv, NEW c \in Clients, NEW next, Now(c, next),
           Request(next, turns, conversation), UNCHANGED <<conversation, turns>>
    PROVE  AskStep(c)
<1>1. Grows(turns, conversation, turns', conversation')
  BY StandingGrows DEF ChatInv
<1> QED
  BY <1>1 DEF AskStep

(* A request that has begun has a record.                                  *)
LEMMA Begun ==
    ASSUME ChatInv, NEW c \in Clients, ask[c].stage # "idle"
    PROVE  Made(ask[c]) /\ Sound(ask[c], turns, conversation)
BY DEF ChatInv, Request, NoAsk

LEMMA HurtStaysSound ==
    ASSUME NEW a, Made(a), Sound(a, turns, conversation)
    PROVE  Made(Hurt(a)) /\ Sound(Hurt(a), turns, conversation)
<1>1. Becomes(a, Hurt(a), a.stage, a.scope, a.replay, a.answer, TRUE, a.reply)
  BY GetsHurt
<1> QED
  BY <1>1 DEF Becomes, Sound

(* A request that ends without an answer: it owes an outcome or none, or   *)
(* has found a turn of its key.                                            *)
LEMMA EndedIsSound ==
    ASSUME ChatInv, NEW c \in Clients, ask[c].stage # "idle", NEW status \in Excluded
    PROVE  Made(Ended(c, status)) /\ Sound(Ended(c, status), turns, conversation)
<1> DEFINE a == ask[c]
           stage == IF Recorded(c, status) THEN "record" ELSE "done"
           reply == IF status = "error" THEN "error" ELSE "none"
           b == Ended(c, status)
<1>1. Made(a) /\ Sound(a, turns, conversation)
  BY Begun
<1>2. stage \in Stages /\ reply \in {"none", "error"} /\ status \in Statuses
  BY DEF Stages, Statuses, Excluded
<1>3. stage \in {"record", "done"} /\ (stage = "done" /\ a.scope => a.replay)
  BY <1>1 DEF Recorded, Sound
<1>4. b = [a EXCEPT !.stage = stage, !.status = status, !.history = << >>, !.answer = "none",
                    !.reply = reply]
  BY DEF Ended
<1> HIDE DEF a, b, stage, reply
<1>5. Becomes(a, b, stage, a.scope, a.replay, "none", a.hurt, reply)
  <2>1. Becomes(a, [a EXCEPT !.stage = stage, !.status = status, !.history = << >>,
                             !.answer = "none", !.reply = reply],
                stage, a.scope, a.replay, "none", a.hurt, reply)
    BY <1>1, <1>2, EndsAs
  <2> QED
    BY <1>4, <2>1, Zenon
<1>6. reply \notin Clients
  BY <1>2, ChatAssumption
<1>7. Made(b) /\ Sound(b, turns, conversation)
  BY <1>1, <1>3, <1>5, <1>6 DEF Becomes, Sound
<1> QED
  BY <1>7 DEF b

LEMMA RaisesIsSound ==
    ASSUME ChatInv, NEW c \in Clients, ask[c].stage # "idle", Raises(c),
           UNCHANGED <<conversation, turns>>
    PROVE  AskStep(c)
<1>1. Made(Ended(c, "error")) /\ Sound(Ended(c, "error"), turns, conversation)
  BY EndedIsSound DEF Excluded
<1> QED
  BY <1>1, QuietStep DEF Raises, Request

LEMMA FailureIsSound ==
    ASSUME ChatInv, NEW c \in Clients, ask[c].stage # "idle", NEW status \in Excluded,
           Now(c, Hurt(Ended(c, status))), UNCHANGED <<conversation, turns>>
    PROVE  AskStep(c)
<1>1. Made(Ended(c, status)) /\ Sound(Ended(c, status), turns, conversation)
  BY EndedIsSound
<1>2. Request(Hurt(Ended(c, status)), turns, conversation)
  BY <1>1, HurtStaysSound DEF Request
<1> QED
  BY <1>2, QuietStep

LEMMA BeginStep ==
    ASSUME ChatInv, NEW c \in Clients, NEW mode \in Modes, NEW id \in Keys \cup {c},
           NEW text \in Texts, Begin(c, mode, id, text)
    PROVE  AskStep(c)
<1> DEFINE stage == IF mode = "buffered" THEN "enter" ELSE IF id \in Keys THEN "lookup" ELSE "prepare"
           b == [stage |-> stage,
                 mode |-> mode, id |-> id, text |-> text, scope |-> FALSE, replay |-> FALSE,
                 history |-> << >>, answer |-> "none", status |-> "complete", hurt |-> FALSE,
                 reply |-> "none"]
<1>1. Now(c, b) /\ UNCHANGED <<conversation, turns>>
  BY DEF Begin, Now
<1>2. stage \in Stages /\ stage \notin {"deliver", "emit", "done"}
  BY DEF Stages
<1> HIDE DEF stage
<1>3. Made(b)
  BY <1>2 DEF Made, AskWith, Stages, Statuses
<1>4. Sound(b, turns, conversation)
  BY <1>2, ChatAssumption DEF Sound
<1> HIDE DEF b
<1> QED
  BY <1>1, <1>3, <1>4, QuietStep DEF Request

LEMMA LookupStep ==
    ASSUME ChatInv, NEW c \in Clients, Lookup(c)
    PROVE  AskStep(c)
<1> DEFINE a == ask[c]
<1>1. a.stage = "lookup" /\ UNCHANGED <<conversation, turns>>
  BY DEF Lookup, AtStage
<1>2. Made(a) /\ Sound(a, turns, conversation)
  BY <1>1, Begun
<1>3. CASE Raises(c)
  BY <1>1, <1>3, RaisesIsSound
<1>4. CASE Now(c, Hurt(Ended(c, "error")))
  BY <1>1, <1>4, FailureIsSound DEF Excluded
<1>5. ASSUME NEW i \in Places(a.id), turns[i].status \notin Excluded,
             Now(c, [a EXCEPT !.stage = "emit", !.answer = turns[i].answer,
                              !.replay = a.mode = "live"])
      PROVE  AskStep(c)
  <2> DEFINE b == [a EXCEPT !.stage = "emit", !.answer = turns[i].answer,
                            !.replay = a.mode = "live"]
  <2>1. i \in DOMAIN turns /\ turns[i].id = a.id /\ turns[i] \in StoredTurn
    BY DEF Places, ChatInv
  <2>2. turns[i].status = "complete" /\ turns[i].answer \in Clients \cup {"none"}
    BY <1>5, <2>1 DEF StoredTurn, Statuses, Excluded
  <2>3. Stored(turns, a.id, turns[i].answer) /\ Placed(turns, a.id)
    BY <2>1, <2>2 DEF Stored, Placed
  <2> HIDE DEF a
  <2>4. Becomes(a, b, "emit", a.scope, a.mode = "live", turns[i].answer, a.hurt, a.reply)
    BY <1>2, <2>2, FindsTurn DEF Stages
  <2>5. Now(c, b)
    BY <1>5
  <2> HIDE DEF b
  <2>6. Made(b) /\ Sound(b, turns, conversation)
    BY <1>2, <2>3, <2>4 DEF Becomes, Sound
  <2> QED
    BY <1>1, <2>5, <2>6, QuietStep DEF Request
<1>6. CASE Now(c, [a EXCEPT !.stage = "prepare"])
  <2> DEFINE b == [a EXCEPT !.stage = "prepare"]
  <2> HIDE DEF a
  <2>1. Becomes(a, b, "prepare", a.scope, a.replay, a.answer, a.hurt, a.reply)
    BY <1>2, MovesOn DEF Stages
  <2>2. Now(c, b)
    BY <1>6
  <2> HIDE DEF b
  <2>3. Made(b) /\ Sound(b, turns, conversation)
    BY <1>2, <2>1 DEF Becomes, Sound
  <2> QED
    BY <1>1, <2>2, <2>3, QuietStep DEF Request
<1> QED
  BY <1>3, <1>4, <1>5, <1>6 DEF Lookup

LEMMA PrepareStep ==
    ASSUME ChatInv, NEW c \in Clients, Prepare(c)
    PROVE  AskStep(c)
<1> DEFINE a == ask[c]
           stage == IF AtStage(c, "prepare") THEN "context"
                    ELSE IF Keyed(c) THEN "lookup" ELSE "prepare"
           b == [a EXCEPT !.scope = a.mode # "chat", !.stage = stage]
<1>1. a.stage \in {"enter", "prepare"}
  BY DEF Prepare
<1>2. Made(a) /\ Sound(a, turns, conversation)
  BY <1>1, Begun
<1>3. CASE Raises(c) /\ UNCHANGED <<conversation, turns>>
  BY <1>1, <1>3, RaisesIsSound
<1>4. CASE DatabaseFails(c, Ended(c, "error"))
  BY <1>1, <1>4, FailureIsSound DEF Excluded, DatabaseFails
<1>5. CASE conversation # "archived" /\ Now(c, b) /\ UNCHANGED turns
  <2>1. stage \in Stages /\ stage \notin {"deliver", "emit", "done"}
    BY DEF Stages
  <2> HIDE DEF a, stage
  <2>2. Becomes(a, b, stage, a.mode # "chat", a.replay, a.answer, a.hurt, a.reply)
    BY <1>2, <2>1, EntersScope
  <2> HIDE DEF b
  <2>3. Made(b) /\ Sound(b, turns, conversation')
    BY <1>2, <2>1, <2>2 DEF Becomes, Sound
  <2>4. Grows(turns, conversation, turns', conversation')
    BY <1>5 DEF Grows, ChatInv
  <2> QED
    BY <1>5, <2>3, <2>4 DEF AskStep, Request
<1> QED
  BY <1>3, <1>4, <1>5 DEF Prepare

LEMMA ReadContextStep ==
    ASSUME ChatInv, NEW c \in Clients, ReadContext(c)
    PROVE  AskStep(c)
<1> DEFINE a == ask[c]
           b == [a EXCEPT !.stage = "generate", !.history = Context]
<1>1. a.stage = "context"
  BY DEF ReadContext, AtStage
<1>2. Made(a) /\ Sound(a, turns, conversation)
  BY <1>1, Begun
<1>3. CASE DatabaseFails(c, Ended(c, "error"))
  BY <1>1, <1>3, FailureIsSound DEF Excluded, DatabaseFails
<1>4. CASE Now(c, b) /\ UNCHANGED <<conversation, turns>>
  <2> HIDE DEF a
  <2>1. Becomes(a, b, "generate", a.scope, a.replay, a.answer, a.hurt, a.reply)
    BY <1>2, ReadsHistory DEF Stages
  <2> HIDE DEF b
  <2>2. Made(b) /\ Sound(b, turns, conversation)
    BY <1>2, <2>1 DEF Becomes, Sound
  <2> QED
    BY <1>4, <2>2, QuietStep DEF Request
<1> QED
  BY <1>3, <1>4 DEF ReadContext

LEMMA GenerateStep ==
    ASSUME ChatInv, NEW c \in Clients, Generate(c)
    PROVE  AskStep(c)
<1> DEFINE a == ask[c]
           b == [a EXCEPT !.stage = "append", !.answer = c, !.history = << >>]
<1>1. a.stage = "generate" /\ UNCHANGED <<conversation, turns>>
  BY DEF Generate, AtStage
<1>2. Made(a) /\ Sound(a, turns, conversation)
  BY <1>1, Begun
<1>3. CASE Raises(c)
  BY <1>1, <1>3, RaisesIsSound
<1>4. CASE Now(c, b)
  <2> HIDE DEF a
  <2>1. Becomes(a, b, "append", a.scope, a.replay, c, a.hurt, a.reply)
    BY <1>2, HasAnswer DEF Stages
  <2> HIDE DEF b
  <2>2. Made(b) /\ Sound(b, turns, conversation)
    BY <1>2, <2>1 DEF Becomes, Sound
  <2> QED
    BY <1>1, <1>4, <2>2, QuietStep DEF Request
<1> QED
  BY <1>3, <1>4 DEF Generate

LEMMA DeliverStep ==
    ASSUME ChatInv, NEW c \in Clients, Deliver(c)
    PROVE  AskStep(c)
<1> DEFINE a == ask[c]
           b == [a EXCEPT !.stage = "emit"]
<1>1. a.stage = "deliver" /\ UNCHANGED <<conversation, turns>>
  BY DEF Deliver, AtStage
<1>2. Made(a) /\ Sound(a, turns, conversation)
  BY <1>1, Begun
<1>3. CASE Raises(c)
  BY <1>1, <1>3, RaisesIsSound
<1>4. CASE Now(c, b)
  <2> HIDE DEF a
  <2>1. Becomes(a, b, "emit", a.scope, a.replay, a.answer, a.hurt, a.reply)
    BY <1>2, MovesOn DEF Stages
  <2> HIDE DEF b
  <2>2. Made(b) /\ Sound(b, turns, conversation)
    BY <1>1, <1>2, <2>1 DEF Becomes, Sound
  <2> QED
    BY <1>1, <1>4, <2>2, QuietStep DEF Request
<1> QED
  BY <1>3, <1>4 DEF Deliver

LEMMA EmitStep ==
    ASSUME ChatInv, NEW c \in Clients, Emit(c)
    PROVE  AskStep(c)
<1> DEFINE a == ask[c]
           b == [a EXCEPT !.stage = "done", !.reply = a.answer]
<1>1. a.stage = "emit" /\ UNCHANGED <<conversation, turns>> /\ Now(c, b)
  BY DEF Emit, AtStage
<1>2. Made(a) /\ Sound(a, turns, conversation)
  BY <1>1, Begun
<1>3. a.answer \in Clients \cup {"none", "error"}
  BY <1>2 DEF Made, AskWith
<1>4. Stored(turns, a.id, a.answer) /\ Placed(turns, a.id)
  BY <1>1, <1>2 DEF Sound, Stored, Placed
<1> HIDE DEF a
<1>5. Becomes(a, b, "done", a.scope, a.replay, a.answer, a.hurt, a.answer)
  BY <1>2, <1>3, Replies DEF Stages
<1> HIDE DEF b
<1>6. Made(b) /\ Sound(b, turns, conversation)
  BY <1>2, <1>4, <1>5 DEF Becomes, Sound
<1> QED
  BY <1>1, <1>6, QuietStep DEF Request

LEMMA CancelledStep ==
    ASSUME ChatInv, NEW c \in Clients, Cancelled(c)
    PROVE  AskStep(c)
<1>1. /\ ask[c].stage # "idle" /\ UNCHANGED <<conversation, turns>>
      /\ Now(c, Ended(c, "cancelled"))
  BY DEF Cancelled
<1>2. Request(Ended(c, "cancelled"), turns, conversation)
  BY <1>1, EndedIsSound DEF Excluded, Request
<1> QED
  BY <1>1, <1>2, QuietStep

LEMMA ChatCrashStep ==
    ASSUME ChatInv, NEW c \in Clients, ChatCrash(c)
    PROVE  AskStep(c)
<1> DEFINE a == ask[c]
           b == [a EXCEPT !.stage = "done", !.hurt = TRUE, !.history = << >>, !.answer = "none"]
<1>1. a.stage # "idle" /\ UNCHANGED <<conversation, turns>> /\ Now(c, b)
  BY DEF ChatCrash
<1>2. Made(a) /\ Sound(a, turns, conversation)
  BY <1>1, Begun
<1> HIDE DEF a
<1>3. Becomes(a, b, "done", a.scope, a.replay, "none", TRUE, a.reply)
  BY <1>2, Breaks
<1> HIDE DEF b
<1>4. Made(b) /\ Sound(b, turns, conversation)
  BY <1>2, <1>3 DEF Becomes, Sound
<1> QED
  BY <1>1, <1>4, QuietStep DEF Request

(* A request whose turn is stored, or was found, is on its way or over.    *)
LEMMA ReturnsIsSound ==
    ASSUME ChatInv, NEW c \in Clients, ask[c].stage # "idle", NEW answer \in Clients \cup {"none"},
           NEW T, NEW status, Grows(turns, conversation, T, status), Placed(T, ask[c].id),
           ask[c].status = "complete" => Stored(T, ask[c].id, answer)
    PROVE  Request(Returns(c, answer), T, status)
<1> DEFINE a == ask[c]
<1>1. Made(a) /\ Sound(a, turns, conversation)
  BY Begun
<1>2. Sound(a, T, status)
  BY <1>1 DEF Sound, Grows
<1>3. CASE a.status = "complete"
  <2> DEFINE b == [a EXCEPT !.stage = "deliver", !.answer = answer]
  <2>1. Returns(c, answer) = b /\ Stored(T, a.id, answer)
    BY <1>3 DEF Returns
  <2> HIDE DEF a
  <2>2. Becomes(a, b, "deliver", a.scope, a.replay, answer, a.hurt, a.reply)
    BY <1>1, TakesAnswer DEF Stages
  <2> HIDE DEF b
  <2>3. Made(b) /\ Sound(b, T, status)
    BY <1>2, <2>1, <2>2 DEF Becomes, Sound
  <2> QED
    BY <2>1, <2>3 DEF Request
<1>4. CASE a.status # "complete"
  <2> DEFINE b == [a EXCEPT !.stage = "done"]
  <2>1. Returns(c, answer) = b /\ Placed(T, a.id)
    BY <1>4 DEF Returns
  <2> HIDE DEF a
  <2>2. Becomes(a, b, "done", a.scope, a.replay, a.answer, a.hurt, a.reply)
    BY <1>1, MovesOn DEF Stages
  <2> HIDE DEF b
  <2>3. Made(b) /\ Sound(b, T, status)
    BY <1>2, <2>1, <2>2 DEF Becomes, Sound
  <2> QED
    BY <2>1, <2>3 DEF Request
<1> QED
  BY <1>3, <1>4

(* A request whose turn is refused: an archived conversation or a turn of  *)
(* the key is the reason, or else it is marked.                            *)
LEMMA RefusedIsSound ==
    ASSUME ChatInv, NEW c \in Clients, ask[c].stage # "idle"
    PROVE  /\ conversation = "archived" \/ Placed(turns, ask[c].id) =>
                Request(Refused(c), turns, conversation)
           /\ Request(Hurt(Refused(c)), turns, conversation)
<1> DEFINE a == ask[c]
<1>1. Made(a) /\ Sound(a, turns, conversation)
  BY Begun
<1>2. CASE a.status = "complete"
  <2>1. Refused(c) = Ended(c, "error")
    BY <1>2 DEF Refused
  <2>2. Made(Refused(c)) /\ Sound(Refused(c), turns, conversation)
    BY <2>1, EndedIsSound DEF Excluded
  <2> QED
    BY <2>2, HurtStaysSound DEF Request
<1>3. CASE a.status # "complete"
  <2> DEFINE b == [a EXCEPT !.stage = "done"]
  <2>1. Refused(c) = b
    BY <1>3 DEF Refused
  <2>0. a.id = ask[c].id
    OBVIOUS
  <2> HIDE DEF a
  <2>2. Becomes(a, b, "done", a.scope, a.replay, a.answer, a.hurt, a.reply)
    BY <1>1, MovesOn DEF Stages
  <2> HIDE DEF b
  <2>3. /\ Made(b)
        /\ conversation = "archived" \/ Placed(turns, a.id) => Sound(b, turns, conversation)
    BY <1>1, <2>2 DEF Becomes, Sound
  <2>4. Becomes(b, Hurt(b), b.stage, b.scope, b.replay, b.answer, TRUE, b.reply)
    BY <2>3, GetsHurt
  <2>5. Made(Hurt(b)) /\ Sound(Hurt(b), turns, conversation)
    BY <1>1, <2>2, <2>4 DEF Becomes, Sound
  <2> QED
    BY <2>0, <2>1, <2>3, <2>5 DEF Request
<1> QED
  BY <1>2, <1>3

LEMMA RefusalStep ==
    ASSUME ChatInv, NEW c \in Clients, ask[c].stage # "idle",
           conversation = "archived" \/ Placed(turns, ask[c].id),
           Now(c, Refused(c)), UNCHANGED <<conversation, turns>>
    PROVE  AskStep(c)
<1>1. Request(Refused(c), turns, conversation)
  BY RefusedIsSound
<1> QED
  BY <1>1, QuietStep

(* The commit of a history that grows by the turn of the request.          *)
LEMMA CommitStep ==
    ASSUME ChatInv, NEW c \in Clients, ask[c].stage # "idle", NEW stored, NEW status,
           Grows(turns, conversation, stored, status),
           \E k \in DOMAIN stored : stored[k] = TurnOf(c),
           CommitsTurn(c, stored, status)
    PROVE  AskStep(c)
<1>0. PICK k \in DOMAIN stored : stored[k] = TurnOf(c)
  OBVIOUS
<1>1. CASE turns' = stored /\ conversation' = status /\ Now(c, Returns(c, ask[c].answer))
  <2>1. Made(ask[c])
    BY Begun
  <2>2. ask[c].answer \in Clients \cup {"none"}
    BY <2>1 DEF Made, AskWith
  <2>3. /\ stored[k].id = ask[c].id /\ stored[k].answer = ask[c].answer
        /\ stored[k].status = ask[c].status
    BY <1>0 DEF TurnOf
  <2>4. Placed(stored, ask[c].id)
    BY <1>0, <2>3 DEF Placed
  <2>5. ask[c].status = "complete" => Stored(stored, ask[c].id, ask[c].answer)
    BY <1>0, <2>3 DEF Stored
  <2>6. Request(Returns(c, ask[c].answer), stored, status)
    BY <2>2, <2>4, <2>5, ReturnsIsSound
  <2> QED
    BY <1>1, <2>6 DEF AskStep
<1>2. CASE turns' = stored /\ conversation' = status /\ Now(c, Hurt(Refused(c)))
  <2>1. Request(Hurt(Refused(c)), turns, conversation)
    BY RefusedIsSound
  <2>2. Request(Hurt(Refused(c)), stored, status)
    BY <2>1, KnowledgeLasts
  <2> QED
    BY <1>2, <2>2 DEF AskStep
<1>3. CASE DatabaseFails(c, Refused(c))
  <2>1. Request(Hurt(Refused(c)), turns, conversation)
    BY RefusedIsSound
  <2> QED
    BY <1>3, <2>1, QuietStep DEF DatabaseFails
<1> QED
  BY <1>1, <1>2, <1>3 DEF CommitsTurn

LEMMA TurnOfIsTurn ==
    ASSUME ChatInv, NEW c \in Clients, ask[c].stage # "idle"
    PROVE  TurnOf(c) \in StoredTurn /\ TurnOf(c).id = ask[c].id
<1>1. Made(ask[c])
  BY Begun
<1> QED
  BY <1>1 DEF Made, AskWith, TurnOf, StoredTurn

LEMMA AppendFoundStep ==
    ASSUME ChatInv, NEW c \in Clients, AppendFound(c)
    PROVE  AskStep(c)
<1>1. ask[c].stage # "idle"
  BY DEF AppendFound, Appending
<1>2. PICK i \in Places(ask[c].id) :
         \/ /\ turns[i].text # ask[c].text
            /\ Now(c, Refused(c)) /\ UNCHANGED <<conversation, turns>>
         \/ /\ turns[i].text = ask[c].text /\ ~Replaceable(turns[i])
            /\ Now(c, Returns(c, turns[i].answer)) /\ UNCHANGED <<conversation, turns>>
         \/ /\ turns[i].text = ask[c].text /\ Replaceable(turns[i])
            /\ CommitsTurn(c, Replaced(i, TurnOf(c)), conversation)
  BY DEF AppendFound
<1>3. i \in DOMAIN turns /\ turns[i].id = ask[c].id /\ turns[i] \in StoredTurn
  BY DEF Places, ChatInv
<1>4. Placed(turns, ask[c].id)
  BY <1>3 DEF Placed
<1>5. CASE Now(c, Refused(c)) /\ UNCHANGED <<conversation, turns>>
  BY <1>1, <1>4, <1>5, RefusalStep
<1>6. CASE /\ ~Replaceable(turns[i])
           /\ Now(c, Returns(c, turns[i].answer)) /\ UNCHANGED <<conversation, turns>>
  <2>1. turns[i].status = "complete" /\ turns[i].answer \in Clients \cup {"none"}
    BY <1>3, <1>6 DEF Replaceable, Excluded, StoredTurn, Statuses
  <2>2. Stored(turns, ask[c].id, turns[i].answer)
    BY <1>3, <2>1 DEF Stored
  <2>3. Grows(turns, conversation, turns, conversation)
    BY StandingGrows DEF ChatInv
  <2>4. Request(Returns(c, turns[i].answer), turns, conversation)
    BY <1>1, <1>4, <2>1, <2>2, <2>3, ReturnsIsSound
  <2> QED
    BY <1>6, <2>4, QuietStep
<1>7. CASE Replaceable(turns[i]) /\ CommitsTurn(c, Replaced(i, TurnOf(c)), conversation)
  <2>1. TurnOf(c) \in StoredTurn /\ TurnOf(c).id = ask[c].id
    BY <1>1, TurnOfIsTurn
  <2>2. turns \in Seq(StoredTurn)
    BY DEF ChatInv
  <2>3. Grows(turns, conversation, Replaced(i, TurnOf(c)), conversation)
    BY <1>3, <1>7, <2>1, <2>2, ReplacingGrows
  <2>4. \E k \in DOMAIN Replaced(i, TurnOf(c)) : Replaced(i, TurnOf(c))[k] = TurnOf(c)
    BY <1>3, <2>1, <2>2, ReplacedKeeps
  <2> QED
    BY <1>1, <1>7, <2>3, <2>4, CommitStep
<1> QED
  BY <1>2, <1>5, <1>6, <1>7

LEMMA AppendMissingStep ==
    ASSUME ChatInv, NEW c \in Clients, AppendMissing(c)
    PROVE  AskStep(c)
<1> DEFINE a == ask[c]
           b == [a EXCEPT !.stage = "insert"]
<1>1. a.stage # "idle" /\ UNCHANGED <<conversation, turns>> /\ Now(c, b)
  BY DEF AppendMissing, Appending
<1>2. Made(a) /\ Sound(a, turns, conversation)
  BY <1>1, Begun
<1> HIDE DEF a
<1>3. Becomes(a, b, "insert", a.scope, a.replay, a.answer, a.hurt, a.reply)
  BY <1>2, MovesOn DEF Stages
<1> HIDE DEF b
<1>4. Made(b) /\ Sound(b, turns, conversation)
  BY <1>2, <1>3 DEF Becomes, Sound
<1> QED
  BY <1>1, <1>4, QuietStep DEF Request

LEMMA InsertStep ==
    ASSUME ChatInv, NEW c \in Clients, Insert(c)
    PROVE  AskStep(c)
<1>1. ask[c].stage # "idle"
  BY DEF Insert, AtStage, Appending
<1>2. CASE /\ conversation = "archived" \/ (store # "memory" /\ Places(ask[c].id) # {})
           /\ Now(c, Refused(c)) /\ UNCHANGED <<conversation, turns>>
  <2>1. conversation = "archived" \/ Placed(turns, ask[c].id)
    BY <1>2 DEF Places, Placed
  <2> QED
    BY <1>1, <1>2, <2>1, RefusalStep
<1>3. CASE /\ conversation # "archived"
           /\ CommitsTurn(c, Append(turns, TurnOf(c)), "active")
  <2>1. TurnOf(c) \in StoredTurn
    BY <1>1, TurnOfIsTurn
  <2>2. turns \in Seq(StoredTurn)
    BY DEF ChatInv
  <2>3. /\ Grows(turns, conversation, Append(turns, TurnOf(c)), "active")
        /\ \E k \in DOMAIN Append(turns, TurnOf(c)) : Append(turns, TurnOf(c))[k] = TurnOf(c)
    BY <1>3, <2>1, <2>2, AppendingGrows
  <2> QED
    BY <1>1, <1>3, <2>3, CommitStep
<1> QED
  BY <1>2, <1>3 DEF Insert

-----------------------------------------------------------------------------
(* Chat turns: the theorems *)

(* ChatInv holds in every state: what a request was told of the history    *)
(* stays true of it.                                                       *)
THEOREM ChatInvariant == ChatSpec => []ChatInv
<1>1. ChatInit => ChatInv
  BY DEF ChatInit, ChatInv, Request
<1>2. ASSUME ChatInv, [ChatNext]_chatVars
      PROVE  ChatInv'
  <2>1. CASE UNCHANGED chatVars
    <3>1. turns' = turns /\ conversation' = conversation /\ ask' = ask
      BY <2>1 DEF chatVars
    <3> QED
      BY <1>2, <3>1 DEF ChatInv
  <2>2. CASE Archive
    <3>1. Grows(turns, conversation, turns', conversation') /\ ask' = ask
      BY <1>2, <2>2 DEF Archive, Grows, ChatInv
    <3>2. \A c \in Clients : Request(ask[c], turns', conversation')
      BY <1>2, <3>1, KnowledgeLasts DEF ChatInv
    <3> QED
      BY <1>2, <3>1, <3>2 DEF ChatInv, Grows
  <2>3. ASSUME NEW c \in Clients,
               \/ \E mode \in Modes, id \in Keys \cup {c}, text \in Texts : Begin(c, mode, id, text)
               \/ Lookup(c) \/ Prepare(c) \/ ReadContext(c) \/ Generate(c)
               \/ AppendFound(c) \/ AppendMissing(c) \/ Insert(c)
               \/ Deliver(c) \/ Emit(c) \/ Cancelled(c) \/ ChatCrash(c)
        PROVE  ChatInv'
    <3>1. AskStep(c)
      BY <1>2, <2>3, BeginStep, LookupStep, PrepareStep, ReadContextStep, GenerateStep,
         AppendFoundStep, AppendMissingStep, InsertStep, DeliverStep, EmitStep, CancelledStep,
         ChatCrashStep
    <3> QED
      BY <1>2, <3>1, AskStepKeepsInv
  <2> QED
    BY <1>2, <2>1, <2>2, <2>3 DEF ChatNext
<1> QED
  BY <1>1, <1>2, PTL DEF ChatSpec

(* Every answer a client has received is, and stays, the complete turn of  *)
(* its key in the history, whatever overlaps, fails or is cancelled        *)
(* between the lookup of chat or stream_events and the reply.              *)
THEOREM AnswersAreStored == ChatSpec => []AnswerIsStored
<1>1. ChatInv => AnswerIsStored
  <2> SUFFICES ASSUME ChatInv, NEW c \in Clients, AtStage(c, "done"), ask[c].reply \in Clients
               PROVE  Stored(turns, ask[c].id, ask[c].reply)
    BY DEF AnswerIsStored, Stored
  <2>1. Sound(ask[c], turns, conversation)
    BY Begun DEF AtStage
  <2> QED
    BY <2>1 DEF Sound
<1> QED
  BY <1>1, ChatInvariant, PTL

(* A stream that has begun in a conversation, and whose process and        *)
(* database did not fail, leaves a turn of its key in the history unless   *)
(* the conversation was archived: `finally` of stream_events stores what   *)
(* append did not.                                                         *)
THEOREM OutcomesAreDurable == ChatSpec => []OutcomeIsDurable
<1>1. ChatInv => OutcomeIsDurable
  <2> SUFFICES ASSUME ChatInv, NEW c \in Clients, AtStage(c, "done"), ask[c].scope, ~ask[c].hurt
               PROVE  conversation = "archived" \/ Places(ask[c].id) # {}
    BY DEF OutcomeIsDurable
  <2>1. Sound(ask[c], turns, conversation)
    BY Begun DEF AtStage
  <2>2. conversation = "archived" \/ Placed(turns, ask[c].id)
    BY <2>1 DEF Sound, AtStage
  <2> QED
    BY <2>2 DEF Placed, Places
<1> QED
  BY <1>1, ChatInvariant, PTL

-----------------------------------------------------------------------------
(* Providers: what a decoder has seen *)

(* After the frames s of a completion.                                     *)
ChatSeen(kind, d, s) ==
    /\ \A i \in DOMAIN s : s[i] = Done <=> d.done /\ i = Len(s)
    /\ d.done => Len(s) > 0
    /\ d.finish = "none" => \A i \in DOMAIN s : s[i].finish \in {"none", "[DONE]"}
    /\ d.finish # "none" =>
         \E i \in DOMAIN s :
            /\ s[i].finish = d.finish
            /\ \A j \in DOMAIN s : j # i => s[j].finish \in {"none", "[DONE]"}
            /\ \A j \in DOMAIN s : j > i => ~s[j].choice
            /\ kind = "openai" => \A j \in DOMAIN s : j <= i => ~s[j].usage
    /\ d.text <=> \E i \in DOMAIN s : s[i].text
    /\ d.tools > 0 <=> \E i \in DOMAIN s : s[i].tool
    /\ kind = "openai" =>
         /\ d.usage <=> \E i \in DOMAIN s : s[i].usage
         /\ d.usage => d.finish # "none"
         /\ \A i, j \in DOMAIN s : s[i].usage /\ s[j].usage => i = j

DeltaOf(start) == IF start = "tool_start" THEN "json_delta" ELSE "text_delta"

(* The block that starts at i is closed before the frame after top, or it  *)
(* is the open one.                                                        *)
Closed(m, i, top) ==
    \E k \in (i + 1)..top :
        m[k] = "block_stop" /\ \A x \in (i + 1)..(k - 1) : m[x] = DeltaOf(m[i])
Open(active, m, i, top) ==
    /\ active # "none"
    /\ m[i] \in IF active = "tool" THEN {"tool_start"} ELSE TextStarts
    /\ \A x \in (i + 1)..top : m[x] = DeltaOf(m[i])

Block(active, m, i, top) ==
    \/ m[i] \in Starts /\ (Closed(m, i, top) \/ Open(active, m, i, top))
    \/ /\ m[i] \in {"text_delta", "json_delta", "block_stop"}
       /\ m[i - 1] \notin {"message_start", "block_stop"}

(* After the frames m of a message.                                        *)
MessageSeen(d, m) ==
    /\ d.begun <=> Len(m) > 0
    /\ Len(m) > 0 => m[1] = "message_start"
    /\ \A i \in DOMAIN m : m[i] = "message_stop" <=> d.done /\ i = Len(m)
    /\ d.done => d.delta
    /\ ~d.delta =>
         /\ \A i \in 2..Len(m) : Block(d.active, m, i, Len(m))
         /\ d.active # "none" => Len(m) > 1 /\ m[Len(m)] \notin {"message_start", "block_stop"}
    /\ d.delta =>
         /\ d.active = "none"
         /\ \E j \in 2..Len(m) :
              /\ m[j] \in DeltaFrames
              /\ \A i \in j..Len(m) : m[i] \in DeltaFrames \cup {"message_stop"}
              /\ \A i \in 2..(j - 1) : Block("none", m, i, j - 1)
    /\ d.text <=> \E i \in DOMAIN m : m[i] \in TextFrames
    /\ d.tools > 0 <=> \E i \in DOMAIN m : m[i] = "tool_start"
    /\ d.blocks <= Len(m) /\ (d.blocks > 0 => \E i \in DOMAIN m : m[i] \in Starts)
    /\ \A i \in DOMAIN m : Reason(m[i]) \in {"none", d.finish}
    /\ d.finish # "none" => \E i \in DOMAIN m : Reason(m[i]) = d.finish

Seen(kind, d, s) == IF kind = "anthropic" THEN MessageSeen(d, s) ELSE ChatSeen(kind, d, s)

-----------------------------------------------------------------------------
(* Providers: the inductive invariant *)

(* The consumer has all of what carries text or tools.                     *)
AllGiven(r, s, g) == \A i \in Payload(r.kind, s) : <<r.try, i>> \in g

StreamOK(r, s, g) ==
    /\ s \in Seq(FramesOf(r.kind)) /\ Len(s) <= MaxFrames(r.kind)
    /\ g \subseteq {r.try} \X Nat
    /\ r.stage \in {"idle", "connect", "sleep"} => s = << >> /\ r.dec = NewDecoder /\ ~r.emitted
    /\ r.stage # "over" /\ ~r.emitted => g = {}
    /\ r.stage \in {"read", "release"} => Seen(r.kind, r.dec, s) /\ AllGiven(r, s, g)
    /\ r.stage = "release" => CompleteStream(r.kind, r.dec)
    /\ r.res = "done" => Whole(r.kind, s) /\ AllGiven(r, s, g)

RequestOK(r) ==
    /\ r \in ProviderRequest
    /\ r.stage # "over" => r.res = "none"
    /\ r.stage \notin {"idle", "over"} => r.try > 0
    /\ r.stage = "sleep" => r.try < ProviderAttempts

Failed == {c \in ProviderRequests : req[c].res = "retryable"}

ProviderInv ==
    /\ req = [c \in ProviderRequests |-> req[c]]
    /\ sent = [c \in Streams |-> sent[c]] /\ got = [c \in Streams |-> got[c]]
    /\ \A c \in ProviderRequests : RequestOK(req[c])
    /\ \A c \in Streams : StreamOK(req[c], sent[c], got[c])
    /\ circuit \in [failures : 0..FailureThreshold, state : {"closed", "open", "cooled"}]
    /\ clientClosing \in BOOLEAN

CircuitInv == IsFiniteSet(Failed) /\ CircuitCountsFailures

-----------------------------------------------------------------------------
(* Providers: frames and decoders *)

(* A decoder whose counters are not bounded yet.                           *)
Wide == [finish : {"none", "stop", "length", "tool_calls"}, active : {"none", "text", "tool"},
         tools : Nat, blocks : Nat, done : BOOLEAN, text : BOOLEAN,
         usage : BOOLEAN, begun : BOOLEAN, args : BOOLEAN, delta : BOOLEAN]

LEMMA DecoderIsWide == Decoder \subseteq Wide
BY ProviderAssumption DEF Decoder, Wide

LEMMA NewDecoderType == NewDecoder \in Decoder
BY ProviderAssumption DEF Decoder, NewDecoder

LEMMA FrameFields ==
    ASSUME NEW f \in ChatFrames
    PROVE  /\ f.choice \in BOOLEAN /\ f.text \in BOOLEAN /\ f.tool \in BOOLEAN /\ f.usage \in BOOLEAN
           /\ f = Done => ~f.choice /\ ~f.text /\ ~f.tool /\ ~f.usage /\ f.finish = "[DONE]"
           /\ f # Done => f.finish \in {"none", "stop", "length", "tool_calls"}
           /\ (f.text \/ f.tool) => f.choice
           /\ f # Done /\ f.finish # "none" => f.choice /\ ~f.usage
           /\ f.tool => f.finish = "none"
<1>1. /\ Done.choice = FALSE /\ Done.text = FALSE /\ Done.tool = FALSE /\ Done.usage = FALSE
      /\ Done.finish = "[DONE]"
  BY DEF Done, NoChoice
<1>2. CASE f = Done
  BY <1>1, <1>2
<1>3. CASE f \in ChatFrames \ {Done}
  <2>1. PICK choice \in BOOLEAN, text \in BOOLEAN, tool \in BOOLEAN, usage \in BOOLEAN,
             again \in BOOLEAN, finish \in {"none", "stop", "length", "tool_calls"} :
          /\ f = [choice |-> choice, text |-> text, tool |-> tool, again |-> again, finish |-> finish,
                  usage |-> usage]
          /\ (text \/ tool) => choice
          /\ finish # "none" => choice /\ ~usage
          /\ tool => finish = "none"
    BY <1>3 DEF ChatFrames, Role, MoreOfTool, Frame, NoChoice
  <2> QED
    BY <1>3, <2>1
<1> QED
  BY <1>2, <1>3

LEMMA DoneDecoded ==
    ASSUME NEW d \in Wide
    PROVE  LET e == ChatDecoded(d, Done) IN
           /\ e \in Wide /\ e.done = TRUE
           /\ e.finish = d.finish /\ e.text = d.text /\ e.tools = d.tools /\ e.usage = d.usage
           /\ e.blocks = d.blocks
BY DEF Wide, ChatDecoded

LEMMA ChatFields ==
    ASSUME NEW d \in Wide, NEW f \in ChatFrames, f # Done
    PROVE  LET e == ChatDecoded(d, f) IN
           /\ e \in Wide
           /\ e.done = d.done /\ e.blocks = d.blocks
           /\ e.finish = (IF f.finish # "none" THEN f.finish ELSE d.finish)
           /\ e.text = (d.text \/ f.text)
           /\ e.tools = (IF f.tool /\ (~f.again \/ d.tools = 0) THEN d.tools + 1 ELSE d.tools)
           /\ e.usage = (d.usage \/ f.usage)
<1> DEFINE fin == IF f.finish # "none" THEN f.finish ELSE d.finish
           txt == d.text \/ f.text
           tls == (IF f.tool /\ (~f.again \/ d.tools = 0) THEN d.tools + 1 ELSE d.tools)
           usg == d.usage \/ f.usage
<1>1. ChatDecoded(d, f) = [d EXCEPT !.finish = fin, !.text = txt, !.tools = tls, !.usage = usg]
  BY DEF ChatDecoded
<1>2. fin \in {"none", "stop", "length", "tool_calls"} /\ txt \in BOOLEAN /\ tls \in Nat /\ usg \in BOOLEAN
  BY FrameFields DEF Wide
<1> HIDE DEF fin, txt, tls, usg
<1>3. LET e == [d EXCEPT !.finish = fin, !.text = txt, !.tools = tls, !.usage = usg] IN
      /\ e \in Wide /\ e.done = d.done /\ e.blocks = d.blocks
      /\ e.finish = fin /\ e.text = txt /\ e.tools = tls /\ e.usage = usg
  BY <1>2 DEF Wide
<1> QED
  BY <1>1, <1>3 DEF fin, txt, tls, usg

(* A sequence with one more element.                                       *)
LEMMA OneMore ==
    ASSUME NEW S, NEW s \in Seq(S), NEW f \in S
    PROVE  LET t == Append(s, f)  n == Len(s) IN
           /\ t \in Seq(S) /\ n \in Nat /\ Len(t) = n + 1
           /\ DOMAIN s = 1..n /\ DOMAIN t = 1..(n + 1)
           /\ \A i \in DOMAIN s : t[i] = s[i] /\ s[i] \in S
           /\ t[n + 1] = f
OBVIOUS

(* The marker ends a completion.                                           *)
LEMMA DoneAdvances ==
    ASSUME NEW kind, NEW d \in Wide, NEW s \in Seq(ChatFrames), ChatSeen(kind, d, s), ~d.done
    PROVE  ChatSeen(kind, ChatDecoded(d, Done), Append(s, Done))
<1> DEFINE e == ChatDecoded(d, Done)
           t == Append(s, Done)
           n == Len(s)
<1>1. /\ e.done = TRUE
      /\ e.finish = d.finish /\ e.text = d.text /\ e.tools = d.tools /\ e.usage = d.usage
  BY DoneDecoded
<1>2. Done \in ChatFrames
  BY DEF ChatFrames
<1>3. /\ n \in Nat /\ Len(t) = n + 1 /\ DOMAIN s = 1..n /\ DOMAIN t = 1..(n + 1)
      /\ \A i \in DOMAIN s : t[i] = s[i]
      /\ t[n + 1] = Done
  BY <1>2, OneMore
<1>4. ~Done.choice /\ ~Done.text /\ ~Done.tool /\ ~Done.usage /\ Done.finish = "[DONE]"
  BY <1>2, FrameFields
<1> HIDE DEF e, t, n
<1>5. \A i \in DOMAIN t : t[i] = Done <=> i = Len(t)
  BY <1>3 DEF ChatSeen
<1>6. e.finish = "none" => \A i \in DOMAIN t : t[i].finish \in {"none", "[DONE]"}
  BY <1>1, <1>3, <1>4 DEF ChatSeen
<1>7. ASSUME e.finish # "none"
      PROVE  \E i \in DOMAIN t :
                /\ t[i].finish = e.finish
                /\ \A j \in DOMAIN t : j # i => t[j].finish \in {"none", "[DONE]"}
                /\ \A j \in DOMAIN t : j > i => ~t[j].choice
                /\ kind = "openai" => \A j \in DOMAIN t : j <= i => ~t[j].usage
  <2>1. PICK i \in DOMAIN s :
            /\ s[i].finish = d.finish
            /\ \A j \in DOMAIN s : j # i => s[j].finish \in {"none", "[DONE]"}
            /\ \A j \in DOMAIN s : j > i => ~s[j].choice
            /\ kind = "openai" => \A j \in DOMAIN s : j <= i => ~s[j].usage
    BY <1>1, <1>7 DEF ChatSeen
  <2>2. /\ t[i].finish = e.finish
        /\ \A j \in DOMAIN t : j # i => t[j].finish \in {"none", "[DONE]"}
        /\ \A j \in DOMAIN t : j > i => ~t[j].choice
    BY <1>1, <1>3, <1>4, <2>1
  <2>3. kind = "openai" => \A j \in DOMAIN t : j <= i => ~t[j].usage
    BY <1>3, <1>4, <2>1
  <2>4. i \in DOMAIN t
    BY <1>3
  <2> QED
    BY <2>2, <2>3, <2>4
<1>8. /\ e.text <=> \E i \in DOMAIN t : t[i].text
      /\ e.tools > 0 <=> \E i \in DOMAIN t : t[i].tool
  <2>1. (\E i \in DOMAIN t : t[i].text) <=> \E i \in DOMAIN s : s[i].text
    BY <1>3, <1>4
  <2>2. (\E i \in DOMAIN t : t[i].tool) <=> \E i \in DOMAIN s : s[i].tool
    BY <1>3, <1>4
  <2> QED
    BY <1>1, <2>1, <2>2 DEF ChatSeen
<1>9. ASSUME kind = "openai"
      PROVE  /\ e.usage <=> \E i \in DOMAIN t : t[i].usage
             /\ e.usage => e.finish # "none"
             /\ \A i, j \in DOMAIN t : t[i].usage /\ t[j].usage => i = j
  <2>1. (\E i \in DOMAIN t : t[i].usage) <=> \E i \in DOMAIN s : s[i].usage
    BY <1>3, <1>4
  <2>2. \A i, j \in DOMAIN t : t[i].usage /\ t[j].usage => i = j
    BY <1>3, <1>4, <1>9 DEF ChatSeen
  <2> QED
    BY <1>1, <1>9, <2>1, <2>2 DEF ChatSeen
<1>10. e.done = TRUE /\ Len(t) > 0
  BY <1>1, <1>3
<1>11. ChatSeen(kind, e, t)
  BY <1>5, <1>6, <1>7, <1>8, <1>9, <1>10 DEF ChatSeen
<1> QED
  BY <1>11 DEF e, t

(* Another frame of a completion.                                          *)
LEMMA FrameAdvances ==
    ASSUME NEW kind, NEW d \in Wide, NEW s \in Seq(ChatFrames), NEW f \in ChatFrames, f # Done,
           ChatSeen(kind, d, s), ChatAccepts(kind, d, f)
    PROVE  ChatSeen(kind, ChatDecoded(d, f), Append(s, f))
<1> DEFINE e == ChatDecoded(d, f)
           t == Append(s, f)
           n == Len(s)
<1>1. /\ e.done = d.done
      /\ e.finish = (IF f.finish # "none" THEN f.finish ELSE d.finish)
      /\ e.text = (d.text \/ f.text)
      /\ e.tools = (IF f.tool /\ (~f.again \/ d.tools = 0) THEN d.tools + 1 ELSE d.tools)
      /\ e.usage = (d.usage \/ f.usage)
  BY ChatFields
<1>2. /\ d.done = FALSE /\ d.text \in BOOLEAN /\ d.tools \in Nat /\ d.usage \in BOOLEAN
      /\ d.finish \in {"none", "stop", "length", "tool_calls"}
      /\ d.finish # "none" => ~f.choice
      /\ kind = "openai" => (f.usage => d.finish # "none" /\ ~f.choice /\ ~d.usage)
  BY DEF Wide, ChatAccepts
<1>3. /\ n \in Nat /\ Len(t) = n + 1 /\ DOMAIN s = 1..n /\ DOMAIN t = 1..(n + 1)
      /\ \A i \in DOMAIN s : t[i] = s[i]
      /\ t[n + 1] = f
  BY OneMore
<1>4. /\ f.choice \in BOOLEAN /\ f.text \in BOOLEAN /\ f.tool \in BOOLEAN /\ f.usage \in BOOLEAN
      /\ f.finish \in {"none", "stop", "length", "tool_calls"}
      /\ (f.text \/ f.tool) => f.choice
      /\ f.finish # "none" => f.choice /\ ~f.usage
  BY FrameFields
<1> HIDE DEF e, t, n
<1>5. \A i \in DOMAIN t : t[i] # Done
  BY <1>2, <1>3 DEF ChatSeen
<1>6. e.finish = "none" => \A i \in DOMAIN t : t[i].finish \in {"none", "[DONE]"}
  BY <1>1, <1>3, <1>4 DEF ChatSeen
<1>7. ASSUME e.finish # "none"
      PROVE  \E i \in DOMAIN t :
                /\ t[i].finish = e.finish
                /\ \A j \in DOMAIN t : j # i => t[j].finish \in {"none", "[DONE]"}
                /\ \A j \in DOMAIN t : j > i => ~t[j].choice
                /\ kind = "openai" => \A j \in DOMAIN t : j <= i => ~t[j].usage
  <2>1. CASE d.finish # "none"
    <3>1. PICK i \in DOMAIN s :
            /\ s[i].finish = d.finish
            /\ \A j \in DOMAIN s : j # i => s[j].finish \in {"none", "[DONE]"}
            /\ \A j \in DOMAIN s : j > i => ~s[j].choice
            /\ kind = "openai" => \A j \in DOMAIN s : j <= i => ~s[j].usage
      BY <2>1 DEF ChatSeen
    <3>2. ~f.choice /\ f.finish = "none" /\ e.finish = d.finish
      BY <1>1, <1>2, <1>4, <2>1
    <3>3. /\ t[i].finish = e.finish
          /\ \A j \in DOMAIN t : j # i => t[j].finish \in {"none", "[DONE]"}
          /\ \A j \in DOMAIN t : j > i => ~t[j].choice
      BY <1>3, <3>1, <3>2
    <3>4. kind = "openai" => \A j \in DOMAIN t : j <= i => ~t[j].usage
      BY <1>3, <3>1
    <3>5. i \in DOMAIN t
      BY <1>3
    <3> QED
      BY <3>3, <3>4, <3>5
  <2>2. CASE d.finish = "none"
    <3>1. f.finish # "none" /\ e.finish = f.finish /\ ~f.usage
      BY <1>1, <1>4, <1>7, <2>2
    <3>2. /\ t[n + 1].finish = e.finish
          /\ \A j \in DOMAIN t : j # n + 1 => t[j].finish \in {"none", "[DONE]"}
          /\ \A j \in DOMAIN t : ~(j > n + 1)
      BY <1>3, <2>2, <3>1 DEF ChatSeen
    <3>3. kind = "openai" => \A j \in DOMAIN t : ~t[j].usage
      BY <1>3, <2>2, <3>1 DEF ChatSeen
    <3>4. n + 1 \in DOMAIN t
      BY <1>3
    <3> QED
      BY <3>2, <3>3, <3>4
  <2> QED
    BY <2>1, <2>2
<1>8. e.text <=> \E i \in DOMAIN t : t[i].text
  <2>1. (\E i \in DOMAIN t : t[i].text) <=> (f.text \/ \E i \in DOMAIN s : s[i].text)
    BY <1>3
  <2>2. d.text <=> \E i \in DOMAIN s : s[i].text
    BY DEF ChatSeen
  <2> QED
    BY <1>1, <2>1, <2>2
<1>9. e.tools > 0 <=> \E i \in DOMAIN t : t[i].tool
  <2>1. (\E i \in DOMAIN t : t[i].tool) <=> (f.tool \/ \E i \in DOMAIN s : s[i].tool)
    BY <1>3
  <2>2. d.tools > 0 <=> \E i \in DOMAIN s : s[i].tool
    BY DEF ChatSeen
  <2>3. e.tools > 0 <=> (f.tool \/ d.tools > 0)
    BY <1>1, <1>2, <1>4
  <2> QED
    BY <2>1, <2>2, <2>3
<1>10. ASSUME kind = "openai"
       PROVE  /\ e.usage <=> \E i \in DOMAIN t : t[i].usage
              /\ e.usage => e.finish # "none"
              /\ \A i, j \in DOMAIN t : t[i].usage /\ t[j].usage => i = j
  <2>1. (\E i \in DOMAIN t : t[i].usage) <=> (f.usage \/ \E i \in DOMAIN s : s[i].usage)
    BY <1>3
  <2>2. /\ d.usage <=> \E i \in DOMAIN s : s[i].usage
        /\ d.usage => d.finish # "none"
        /\ \A i, j \in DOMAIN s : s[i].usage /\ s[j].usage => i = j
    BY <1>10 DEF ChatSeen
  <2>3. e.usage <=> \E i \in DOMAIN t : t[i].usage
    BY <1>1, <2>1, <2>2
  <2>4. e.usage => e.finish # "none"
    BY <1>1, <1>2, <1>10, <2>2
  <2>5. f.usage => \A i \in DOMAIN s : ~s[i].usage
    BY <1>2, <1>10, <2>2
  <2>6. \A i, j \in DOMAIN t : t[i].usage /\ t[j].usage => i = j
    BY <1>3, <2>2, <2>5
  <2> QED
    BY <2>3, <2>4, <2>6
<1>11. e.done = FALSE
  BY <1>1, <1>2
<1>12. ChatSeen(kind, e, t)
  BY <1>5, <1>6, <1>7, <1>8, <1>9, <1>10, <1>11 DEF ChatSeen
<1> QED
  BY <1>12 DEF e, t

LEMMA ChatAdvances ==
    ASSUME NEW kind, NEW d \in Wide, NEW s \in Seq(ChatFrames), NEW f \in ChatFrames,
           ChatSeen(kind, d, s), ChatAccepts(kind, d, f)
    PROVE  ChatSeen(kind, ChatDecoded(d, f), Append(s, f))
<1>1. ~d.done
  BY DEF ChatAccepts
<1> QED
  BY <1>1, DoneAdvances, FrameAdvances

(* A completion that the decoder finds complete is whole.                  *)
LEMMA ChatIsWhole ==
    ASSUME NEW kind, NEW d \in Wide, NEW s \in Seq(ChatFrames),
           ChatSeen(kind, d, s), ChatComplete(kind, d)
    PROVE  WholeChat(kind, s)
<1> DEFINE n == Len(s)
<1>1. n \in Nat /\ DOMAIN s = 1..n /\ \A i \in 1..n : s[i] \in ChatFrames
  OBVIOUS
<1>2. d.finish \in {"stop", "length", "tool_calls"} /\ d.tools \in Nat
  BY DEF ChatComplete, Wide
<1>3. n > 0 /\ s[n] = Done /\ \A i \in 1..n : s[i] = Done => i = n
  <2>1. n > 0 /\ \A i \in DOMAIN s : s[i] = Done <=> i = n
    BY DEF ChatSeen, ChatComplete
  <2>2. n \in DOMAIN s
    BY <1>1, <2>1
  <2> QED
    BY <1>1, <2>1, <2>2
<1>4. PICK i \in 1..n :
            /\ s[i].finish = d.finish
            /\ \A j \in 1..n : j # i => s[j].finish \in {"none", "[DONE]"}
            /\ \A j \in 1..n : j > i => ~s[j].choice
            /\ kind = "openai" => \A j \in 1..n : j <= i => ~s[j].usage
  BY <1>1, <1>2 DEF ChatSeen
<1> HIDE DEF n
<1>5. \A j \in 1..n : /\ s[j] = Done => ~s[j].choice /\ s[j].finish = "[DONE]" /\ ~s[j].usage
                      /\ s[j].text \/ s[j].tool => s[j].choice
                      /\ s[j] # Done => s[j].finish # "[DONE]"
                      /\ s[j].usage \in BOOLEAN
  BY <1>1, FrameFields
<1>6. i \in 1..(n - 1) /\ i # n
  BY <1>1, <1>2, <1>3, <1>4, <1>5
<1> DEFINE before == 1..i
           after == (i + 1)..(n - 1)
           Tools == {j \in before : s[j].tool}
<1>7. \A j \in (before \cup after) \ {i} : s[j].finish = "none"
  <2> SUFFICES ASSUME NEW j \in (before \cup after) \ {i}
               PROVE  s[j].finish = "none"
    OBVIOUS
  <2>1. j \in 1..n /\ j # n /\ j # i
    BY <1>1, <1>6
  <2> QED
    BY <2>1, <1>3, <1>4, <1>5
<1>8. \A j \in after : ~s[j].choice
  BY <1>1, <1>4, <1>6
<1>9. \A j \in 1..n : s[j].tool \/ s[j].text => j \in before
  BY <1>1, <1>4, <1>5, <1>6
<1>10. Tools # {} <=> d.tools > 0
  <2>1. d.tools > 0 <=> \E j \in 1..n : s[j].tool
    BY <1>1 DEF ChatSeen
  <2>2. (\E j \in 1..n : s[j].tool) <=> Tools # {}
    BY <1>1, <1>6, <1>9
  <2> QED
    BY <2>1, <2>2
<1>11. d.text => \E j \in before : s[j].text
  <2>1. d.text => \E j \in 1..n : s[j].text
    BY <1>1 DEF ChatSeen
  <2> QED
    BY <2>1, <1>9
<1>12. /\ s[i].finish = "tool_calls" => Tools # {}
       /\ s[i].finish = "stop" => Tools = {}
       /\ Tools # {} \/ \E j \in before : s[j].text
  BY <1>2, <1>4, <1>10, <1>11 DEF ChatComplete
<1>13. ASSUME kind = "openai"
       PROVE  /\ \A j \in before : ~s[j].usage
              /\ Cardinality({j \in after : s[j].usage}) = 1
  <2>1. \A j \in before : ~s[j].usage
    BY <1>1, <1>4, <1>6, <1>13
  <2>2. PICK k \in 1..n : s[k].usage
    BY <1>1, <1>13 DEF ChatSeen, ChatComplete
  <2>3. \A j \in 1..n : s[j].usage => j = k
    BY <1>1, <1>13, <2>2 DEF ChatSeen
  <2>4. k \in after
    BY <1>1, <1>3, <1>5, <1>6, <2>1, <2>2
  <2>5. \A j \in after : j \in 1..n
    BY <1>1, <1>6
  <2>6. {j \in after : s[j].usage} = {k}
    BY <2>2, <2>3, <2>4, <2>5
  <2> QED
    BY <2>1, <2>6, FS_Singleton
<1>14. s[n] = Done
  BY <1>3
<1>15. s[i].finish \in {"stop", "length", "tool_calls"}
  BY <1>2, <1>4
<1> QED
  BY <1>6, <1>7, <1>8, <1>12, <1>13, <1>14, <1>15 DEF WholeChat, n

-----------------------------------------------------------------------------
(* Providers: the decoder of a message *)

(* The fields of a decoder that the frames so far determine.               *)
Fields(e, begun, done, delta, active, text, tools, blocks, finish) ==
    /\ e \in Wide
    /\ e.begun = begun /\ e.done = done /\ e.delta = delta /\ e.active = active
    /\ e.text = text /\ e.tools = tools /\ e.blocks = blocks /\ e.finish = finish

LEMMA MessageFields ==
    ASSUME NEW d \in Wide
    PROVE  /\ Fields(MessageDecoded(d, "message_start"),
                     TRUE, d.done, d.delta, d.active, d.text, d.tools, d.blocks, d.finish)
           /\ Fields(MessageDecoded(d, "text_start"),
                     d.begun, d.done, d.delta, "text", d.text, d.tools, d.blocks + 1, d.finish)
           /\ Fields(MessageDecoded(d, "filled_start"),
                     d.begun, d.done, d.delta, "text", TRUE, d.tools, d.blocks + 1, d.finish)
           /\ Fields(MessageDecoded(d, "tool_start"),
                     d.begun, d.done, d.delta, "tool", d.text, d.tools + 1, d.blocks + 1, d.finish)
           /\ Fields(MessageDecoded(d, "text_delta"),
                     d.begun, d.done, d.delta, d.active, TRUE, d.tools, d.blocks, d.finish)
           /\ Fields(MessageDecoded(d, "json_delta"),
                     d.begun, d.done, d.delta, d.active, d.text, d.tools, d.blocks, d.finish)
           /\ Fields(MessageDecoded(d, "block_stop"),
                     d.begun, d.done, d.delta, "none", d.text, d.tools, d.blocks, d.finish)
           /\ Fields(MessageDecoded(d, "message_stop"),
                     d.begun, TRUE, d.delta, d.active, d.text, d.tools, d.blocks, d.finish)
<1>1. Fields([d EXCEPT !.begun = TRUE],
             TRUE, d.done, d.delta, d.active, d.text, d.tools, d.blocks, d.finish)
  BY DEF Fields, Wide
<1>0. d.blocks + 1 \in Nat /\ d.tools + 1 \in Nat
  BY DEF Wide
<1>2. \A blocks \in Nat :
        Fields([d EXCEPT !.active = "text", !.blocks = blocks],
               d.begun, d.done, d.delta, "text", d.text, d.tools, blocks, d.finish)
  BY DEF Fields, Wide
<1>3. \A blocks, tools \in Nat :
        Fields([d EXCEPT !.active = "tool", !.blocks = blocks, !.tools = tools, !.args = FALSE],
               d.begun, d.done, d.delta, "tool", d.text, tools, blocks, d.finish)
  BY DEF Fields, Wide
<1>8. \A blocks \in Nat :
        Fields([d EXCEPT !.active = "text", !.blocks = blocks, !.text = TRUE],
               d.begun, d.done, d.delta, "text", TRUE, d.tools, blocks, d.finish)
  BY DEF Fields, Wide
<1>4. Fields([d EXCEPT !.text = TRUE],
             d.begun, d.done, d.delta, d.active, TRUE, d.tools, d.blocks, d.finish)
  BY DEF Fields, Wide
<1>5. Fields([d EXCEPT !.args = TRUE],
             d.begun, d.done, d.delta, d.active, d.text, d.tools, d.blocks, d.finish)
  BY DEF Fields, Wide
<1>6. Fields([d EXCEPT !.active = "none"],
             d.begun, d.done, d.delta, "none", d.text, d.tools, d.blocks, d.finish)
  BY DEF Fields, Wide
<1>7. Fields([d EXCEPT !.done = TRUE],
             d.begun, TRUE, d.delta, d.active, d.text, d.tools, d.blocks, d.finish)
  BY DEF Fields, Wide
<1> QED
  BY <1>0, <1>1, <1>2, <1>3, <1>4, <1>5, <1>6, <1>7, <1>8 DEF MessageDecoded

LEMMA DeltaFields ==
    ASSUME NEW d \in Wide, NEW f \in DeltaFrames
    PROVE  Fields(MessageDecoded(d, f), d.begun, d.done, TRUE, d.active, d.text, d.tools, d.blocks,
                  IF Reason(f) = "none" THEN d.finish ELSE Reason(f))
<1> DEFINE fin == IF Reason(f) = "none" THEN d.finish ELSE Reason(f)
<1>1. MessageDecoded(d, f) = [d EXCEPT !.delta = TRUE, !.usage = TRUE, !.finish = fin]
  BY DEF MessageDecoded, DeltaFrames
<1>2. fin \in {"none", "stop", "length", "tool_calls"}
  BY DEF Reason, Wide
<1> HIDE DEF fin
<1>3. Fields([d EXCEPT !.delta = TRUE, !.usage = TRUE, !.finish = fin],
             d.begun, d.done, TRUE, d.active, d.text, d.tools, d.blocks, fin)
  BY <1>2 DEF Fields, Wide
<1> QED
  BY <1>1, <1>3 DEF fin

(* A block stays what it is when a frame follows that suits it.            *)
LEMMA BlockGrows ==
    ASSUME NEW n \in Nat, NEW m, NEW t, NEW i \in 2..n, NEW active,
           \A x \in 1..n : t[x] = m[x], Block(active, m, i, n)
    PROVE  /\ m[i] \in Starts /\ Open(active, m, i, n) /\ t[n + 1] = DeltaOf(m[i])
                => Block(active, t, i, n + 1)
           /\ t[n + 1] = "block_stop" => Block("none", t, i, n + 1)
           /\ active = "none" => \A after : Block(after, t, i, n + 1)
           /\ m[i] \notin Starts => \A after : Block(after, t, i, n + 1)
           /\ Closed(m, i, n) => \A after : Block(after, t, i, n + 1)
<1>1. t[i] = m[i] /\ t[i - 1] = m[i - 1]
  OBVIOUS
<1>2. Closed(m, i, n) => Closed(t, i, n + 1)
  <2> SUFFICES ASSUME Closed(m, i, n)
               PROVE  Closed(t, i, n + 1)
    OBVIOUS
  <2>1. PICK k \in (i + 1)..n :
           m[k] = "block_stop" /\ \A x \in (i + 1)..(k - 1) : m[x] = DeltaOf(m[i])
    BY DEF Closed
  <2>2. k \in (i + 1)..(n + 1) /\ t[k] = "block_stop"
    BY <2>1
  <2>3. \A x \in (i + 1)..(k - 1) : t[x] = DeltaOf(t[i])
    BY <1>1, <2>1
  <2> QED
    BY <2>2, <2>3 DEF Closed
<1>3. Open(active, m, i, n) /\ t[n + 1] = DeltaOf(m[i]) => Open(active, t, i, n + 1)
  BY <1>1 DEF Open
<1>4. Open(active, m, i, n) /\ t[n + 1] = "block_stop" => Closed(t, i, n + 1)
  <2> SUFFICES ASSUME Open(active, m, i, n), t[n + 1] = "block_stop"
               PROVE  Closed(t, i, n + 1)
    OBVIOUS
  <2>1. n + 1 \in (i + 1)..(n + 1)
    OBVIOUS
  <2>2. \A x \in (i + 1)..((n + 1) - 1) : t[x] = DeltaOf(t[i])
    BY <1>1 DEF Open
  <2> QED
    BY <2>1, <2>2 DEF Closed
<1>5. m[i] \notin Starts => \A after : Block(after, t, i, n + 1)
  BY <1>1 DEF Block
<1>6. m[i] \in Starts /\ Closed(m, i, n) => \A after : Block(after, t, i, n + 1)
  BY <1>1, <1>2 DEF Block
<1>7. active = "none" => m[i] \notin Starts \/ Closed(m, i, n)
  BY DEF Block, Open, Starts, TextStarts
<1>8. m[i] \in Starts => Closed(m, i, n) \/ Open(active, m, i, n)
  BY DEF Block, Starts, TextStarts
<1>9. m[i] \in Starts /\ Open(active, t, i, n + 1) => Block(active, t, i, n + 1)
  BY <1>1 DEF Block
<1>10. m[i] \in Starts /\ Closed(t, i, n + 1) => Block("none", t, i, n + 1)
  BY <1>1 DEF Block
<1> QED
  BY <1>3, <1>4, <1>5, <1>6, <1>7, <1>8, <1>9, <1>10

(* The blocks before top depend on the frames up to top only.              *)
LEMMA BlocksStand ==
    ASSUME NEW top \in Nat, NEW m, NEW t, NEW i \in 2..top, NEW active,
           \A x \in 1..top : t[x] = m[x], Block(active, m, i, top)
    PROVE  Block(active, t, i, top)
<1>1. t[i] = m[i] /\ t[i - 1] = m[i - 1]
  OBVIOUS
<1>2. Closed(m, i, top) => Closed(t, i, top)
  BY <1>1 DEF Closed
<1>3. Open(active, m, i, top) => Open(active, t, i, top)
  BY <1>1 DEF Open
<1> QED
  BY <1>1, <1>2, <1>3 DEF Block

LEMMA Reasons ==
    /\ \A f \in MessageFrames \ DeltaFrames : Reason(f) = "none"
    /\ \A f : Reason(f) \in {"none", "stop", "length", "tool_calls"}
BY DEF MessageFrames, DeltaFrames, Reason

(* What an accepted frame f makes of decoder d.                            *)
Effect(d, f, e) ==
    /\ e \in Wide
    /\ e.begun = TRUE
    /\ e.done = (f = "message_stop")
    /\ e.delta = (d.delta \/ f \in DeltaFrames)
    /\ e.active = (IF f \in TextStarts THEN "text" ELSE IF f = "tool_start" THEN "tool"
                   ELSE IF f = "block_stop" THEN "none" ELSE d.active)
    /\ e.text = (d.text \/ f \in TextFrames)
    /\ e.tools = (IF f = "tool_start" THEN d.tools + 1 ELSE d.tools)
    /\ e.blocks = (IF f \in Starts THEN d.blocks + 1 ELSE d.blocks)
    /\ e.finish = (IF Reason(f) = "none" THEN d.finish ELSE Reason(f))

LEMMA MessageEffect ==
    ASSUME NEW d \in Wide, NEW f \in MessageFrames, MessageAccepts(d, f)
    PROVE  Effect(d, f, MessageDecoded(d, f))
<1>1. d.done = FALSE /\ d.delta \in BOOLEAN /\ d.text \in BOOLEAN /\ d.begun \in BOOLEAN
  BY DEF MessageAccepts, Wide
<1>2. f # "message_start" => d.begun = TRUE
  BY <1>1 DEF MessageAccepts
<1>3. CASE f \in DeltaFrames
  <2>1. f \notin {"message_start", "text_start", "filled_start", "tool_start", "text_delta",
                  "json_delta", "block_stop", "message_stop"}
    BY <1>3 DEF DeltaFrames
  <2> QED
    BY <1>1, <1>2, <1>3, <2>1, DeltaFields DEF Fields, Starts, TextStarts, TextFrames, Effect
<1>4. CASE f \notin DeltaFrames
  <2>1. f \in {"message_start", "text_start", "filled_start", "tool_start", "text_delta",
               "json_delta", "block_stop", "message_stop"}
    BY <1>4 DEF MessageFrames, Starts, TextStarts
  <2>2. Reason(f) = "none"
    BY <1>4, Reasons
  <2>3. CASE f = "message_start"
    <3>1. Fields(MessageDecoded(d, f),
                 TRUE, d.done, d.delta, d.active, d.text, d.tools, d.blocks, d.finish)
      BY <2>3, MessageFields
    <3> QED
      BY <1>1, <1>2, <1>4, <2>2, <2>3, <3>1 DEF Fields, Starts, TextStarts, TextFrames, Effect
  <2>4. CASE f = "text_start"
    <3>1. Fields(MessageDecoded(d, f),
                 d.begun, d.done, d.delta, "text", d.text, d.tools, d.blocks + 1, d.finish)
      BY <2>4, MessageFields
    <3> QED
      BY <1>1, <1>2, <1>4, <2>2, <2>4, <3>1 DEF Fields, Starts, TextStarts, TextFrames, Effect
  <2>10. CASE f = "filled_start"
    <3>1. Fields(MessageDecoded(d, f),
                 d.begun, d.done, d.delta, "text", TRUE, d.tools, d.blocks + 1, d.finish)
      BY <2>10, MessageFields
    <3> QED
      BY <1>1, <1>2, <1>4, <2>2, <2>10, <3>1 DEF Fields, Starts, TextStarts, TextFrames, Effect
  <2>5. CASE f = "tool_start"
    <3>1. Fields(MessageDecoded(d, f),
                 d.begun, d.done, d.delta, "tool", d.text, d.tools + 1, d.blocks + 1, d.finish)
      BY <2>5, MessageFields
    <3> QED
      BY <1>1, <1>2, <1>4, <2>2, <2>5, <3>1 DEF Fields, Starts, TextStarts, TextFrames, Effect
  <2>6. CASE f = "text_delta"
    <3>1. Fields(MessageDecoded(d, f),
                 d.begun, d.done, d.delta, d.active, TRUE, d.tools, d.blocks, d.finish)
      BY <2>6, MessageFields
    <3> QED
      BY <1>1, <1>2, <1>4, <2>2, <2>6, <3>1 DEF Fields, Starts, TextStarts, TextFrames, Effect
  <2>7. CASE f = "json_delta"
    <3>1. Fields(MessageDecoded(d, f),
                 d.begun, d.done, d.delta, d.active, d.text, d.tools, d.blocks, d.finish)
      BY <2>7, MessageFields
    <3> QED
      BY <1>1, <1>2, <1>4, <2>2, <2>7, <3>1 DEF Fields, Starts, TextStarts, TextFrames, Effect
  <2>8. CASE f = "block_stop"
    <3>1. Fields(MessageDecoded(d, f),
                 d.begun, d.done, d.delta, "none", d.text, d.tools, d.blocks, d.finish)
      BY <2>8, MessageFields
    <3> QED
      BY <1>1, <1>2, <1>4, <2>2, <2>8, <3>1 DEF Fields, Starts, TextStarts, TextFrames, Effect
  <2>9. CASE f = "message_stop"
    <3>1. Fields(MessageDecoded(d, f),
                 d.begun, TRUE, d.delta, d.active, d.text, d.tools, d.blocks, d.finish)
      BY <2>9, MessageFields
    <3> QED
      BY <1>1, <1>2, <1>4, <2>2, <2>9, <3>1 DEF Fields, Starts, TextStarts, TextFrames, Effect
  <2> QED
    BY <2>1, <2>3, <2>4, <2>5, <2>6, <2>7, <2>8, <2>9, <2>10
<1> QED
  BY <1>3, <1>4

(* The frames of blocks: a start, a delta or a stop while no delta of the  *)
(* message came.                                                           *)
LEMMA BlocksAdvance ==
    ASSUME NEW d \in Wide, NEW m \in Seq(MessageFrames), NEW f \in MessageFrames,
           MessageSeen(d, m), MessageAccepts(d, f), ~d.delta, f \notin DeltaFrames, NEW active,
           active = (IF f \in TextStarts THEN "text" ELSE IF f = "tool_start" THEN "tool"
                     ELSE IF f = "block_stop" THEN "none" ELSE d.active)
    PROVE  LET t == Append(m, f) IN
           /\ \A i \in 2..Len(t) : Block(active, t, i, Len(t))
           /\ active # "none" => Len(t) > 1 /\ t[Len(t)] \notin {"message_start", "block_stop"}
<1> DEFINE t == Append(m, f)
           n == Len(m)
<1>1. /\ n \in Nat /\ Len(t) = n + 1 /\ DOMAIN m = 1..n
      /\ \A i \in 1..n : t[i] = m[i]
      /\ t[n + 1] = f
  BY OneMore
<1>2. /\ \A i \in 2..n : Block(d.active, m, i, n)
      /\ d.active # "none" => n > 1 /\ m[n] \notin {"message_start", "block_stop"}
      /\ d.begun <=> n > 0
      /\ d.active \in {"none", "text", "tool"}
  BY DEF MessageSeen, Wide
<1>3. f # "message_stop"
  BY DEF MessageAccepts
<1>4. f \in Starts \cup {"message_start", "text_delta", "json_delta", "block_stop"}
  BY <1>3 DEF MessageFrames
<1>5. /\ f = "message_start" => n = 0 /\ active = "none"
      /\ f # "message_start" => n > 0
  BY <1>1, <1>2 DEF MessageAccepts, TextStarts
<1> HIDE DEF t, n
<1>6. /\ f \in Starts => d.active = "none"
      /\ f = "text_delta" => d.active = "text"
      /\ f = "json_delta" => d.active = "tool"
      /\ f = "block_stop" => d.active # "none"
  BY DEF MessageAccepts, Starts, TextStarts
<1>7. ASSUME NEW i \in 2..n
      PROVE  Block(active, t, i, n + 1)
  <2>1. Block(d.active, m, i, n)
    BY <1>2
  <2>2. CASE f \in Starts
    BY <1>1, <1>6, <2>1, <2>2, BlockGrows
  <2>3. CASE f \in {"text_delta", "json_delta"}
    <3>1. active = d.active
      BY <2>3 DEF TextStarts
    <3>2. Open(d.active, m, i, n) => f = DeltaOf(m[i])
      BY <1>6, <2>3 DEF Open, DeltaOf, TextStarts
    <3>3. CASE m[i] \in Starts /\ Open(d.active, m, i, n)
      <4>1. t[n + 1] = DeltaOf(m[i])
        BY <1>1, <3>2, <3>3
      <4>2. Block(d.active, t, i, n + 1)
        BY <1>1, <2>1, <3>3, <4>1, BlockGrows
      <4> QED
        BY <3>1, <4>2
    <3>4. CASE m[i] \notin Starts \/ Closed(m, i, n)
      BY <1>1, <2>1, <3>4, BlockGrows
    <3> QED
      BY <2>1, <3>3, <3>4 DEF Block, Starts, TextStarts
  <2>4. CASE f = "block_stop"
    BY <1>1, <2>1, <2>4, BlockGrows DEF TextStarts
  <2>5. CASE f = "message_start"
    BY <1>1, <1>5, <2>5
  <2> QED
    BY <1>4, <2>2, <2>3, <2>4, <2>5 DEF Starts, TextStarts
<1>8. ASSUME n + 1 \in 2..(n + 1)
      PROVE  Block(active, t, n + 1, n + 1)
  <2>1. n > 0 /\ t[n] = m[n] /\ f # "message_start" /\ (n + 1) - 1 = n
    BY <1>1, <1>5, <1>8
  <2>2. CASE f \in Starts
    <3>1. Open(active, t, n + 1, n + 1)
      BY <1>1, <2>2 DEF Open, Starts, TextStarts
    <3> QED
      BY <1>1, <2>2, <3>1 DEF Block
  <2>3. CASE f \notin Starts
    <3>1. f \in {"text_delta", "json_delta", "block_stop"} /\ d.active # "none"
      BY <1>4, <1>6, <2>1, <2>3 DEF Starts, TextStarts
    <3>2. t[(n + 1) - 1] \notin {"message_start", "block_stop"}
      BY <1>2, <2>1, <3>1
    <3> QED
      BY <1>1, <3>1, <3>2 DEF Block
  <2> QED
    BY <2>2, <2>3
<1>9. \A i \in 2..(n + 1) : Block(active, t, i, n + 1)
  <2> SUFFICES ASSUME NEW i \in 2..(n + 1)
               PROVE  Block(active, t, i, n + 1)
    OBVIOUS
  <2>1. i \in 2..n \/ i = n + 1
    BY <1>1
  <2> QED
    BY <1>7, <1>8, <2>1
<1>10. active # "none" => n + 1 > 1 /\ t[n + 1] \notin {"message_start", "block_stop"}
  BY <1>1, <1>4, <1>5 DEF Starts, TextStarts
<1> QED
  BY <1>1, <1>9, <1>10 DEF t

(* The deltas of the message, and its stop.                                *)
LEMMA DeltasAdvance ==
    ASSUME NEW d \in Wide, NEW m \in Seq(MessageFrames), NEW f \in MessageFrames,
           MessageSeen(d, m), MessageAccepts(d, f), d.delta \/ f \in DeltaFrames
    PROVE  LET t == Append(m, f) IN
           /\ d.active = "none" /\ f \notin Starts /\ f # "block_stop"
           /\ \E j \in 2..Len(t) :
                /\ t[j] \in DeltaFrames
                /\ \A i \in j..Len(t) : t[i] \in DeltaFrames \cup {"message_stop"}
                /\ \A i \in 2..(j - 1) : Block("none", t, i, j - 1)
<1> DEFINE t == Append(m, f)
           n == Len(m)
<1>1. /\ n \in Nat /\ Len(t) = n + 1 /\ DOMAIN m = 1..n
      /\ \A i \in 1..n : t[i] = m[i]
      /\ t[n + 1] = f
  BY OneMore
<1>2. d.active = "none"
  BY DEF MessageSeen, MessageAccepts
<1>3. f # "message_start" /\ n > 0
  <2>1. d.delta => d.begun
    <3> SUFFICES ASSUME d.delta PROVE d.begun
      OBVIOUS
    <3>1. PICK j \in 2..n : TRUE
      BY DEF MessageSeen
    <3> QED
      BY <1>1, <3>1 DEF MessageSeen
  <2>2. f \in DeltaFrames => f # "message_start"
    BY DEF DeltaFrames
  <2>3. f # "message_start"
    BY <2>1, <2>2 DEF MessageAccepts
  <2> QED
    BY <2>3 DEF MessageAccepts, MessageSeen
<1>4. f \in DeltaFrames \cup {"message_stop"}
  BY <1>2, <1>3 DEF MessageFrames, MessageAccepts
<1>5. f \notin Starts /\ f # "block_stop"
  BY <1>4 DEF DeltaFrames, Starts, TextStarts
<1> HIDE DEF t, n
<1>6. \E j \in 2..(n + 1) :
         /\ t[j] \in DeltaFrames
         /\ \A i \in j..(n + 1) : t[i] \in DeltaFrames \cup {"message_stop"}
         /\ \A i \in 2..(j - 1) : Block("none", t, i, j - 1)
  <2>1. CASE d.delta
    <3>1. PICK j \in 2..n :
            /\ m[j] \in DeltaFrames
            /\ \A i \in j..n : m[i] \in DeltaFrames \cup {"message_stop"}
            /\ \A i \in 2..(j - 1) : Block("none", m, i, j - 1)
      BY <2>1 DEF MessageSeen, n
    <3>2. j \in 2..(n + 1) /\ t[j] \in DeltaFrames
      BY <1>1, <3>1
    <3>3. \A i \in j..(n + 1) : t[i] \in DeltaFrames \cup {"message_stop"}
      <4> SUFFICES ASSUME NEW i \in j..(n + 1)
                   PROVE  t[i] \in DeltaFrames \cup {"message_stop"}
        OBVIOUS
      <4>1. i = n + 1 \/ (i \in j..n /\ i \in 1..n)
        BY <1>1, <3>1
      <4> QED
        BY <1>1, <1>4, <3>1, <4>1
    <3>4. ASSUME NEW i \in 2..(j - 1)
          PROVE  Block("none", t, i, j - 1)
      <4>1. j - 1 \in Nat /\ \A x \in 1..(j - 1) : t[x] = m[x]
        BY <1>1, <3>1
      <4> QED
        BY <3>1, <4>1, BlocksStand
    <3> QED
      BY <3>2, <3>3, <3>4
  <2>2. CASE ~d.delta
    <3>1. f \in DeltaFrames
      BY <2>2
    <3>2. n + 1 \in 2..(n + 1) /\ t[n + 1] \in DeltaFrames
      BY <1>1, <1>3, <3>1
    <3>3. \A i \in (n + 1)..(n + 1) : t[i] \in DeltaFrames \cup {"message_stop"}
      BY <1>1, <3>1
    <3>4. ASSUME NEW i \in 2..n
          PROVE  Block("none", t, i, n)
      <4>1. Block("none", m, i, n)
        BY <1>2, <2>2 DEF MessageSeen, n
      <4> QED
        BY <1>1, <4>1, BlocksStand
    <3>5. (n + 1) - 1 = n
      BY <1>1
    <3> QED
      BY <3>2, <3>3, <3>4, <3>5
  <2> QED
    BY <2>1, <2>2
<1> QED
  BY <1>1, <1>2, <1>5, <1>6 DEF t

LEMMA MessageAdvances ==
    ASSUME NEW d \in Wide, NEW m \in Seq(MessageFrames), NEW f \in MessageFrames,
           MessageSeen(d, m), MessageAccepts(d, f)
    PROVE  MessageSeen(MessageDecoded(d, f), Append(m, f))
<1> DEFINE e == MessageDecoded(d, f)
           t == Append(m, f)
           n == Len(m)
<1>1. /\ n \in Nat /\ Len(t) = n + 1 /\ DOMAIN m = 1..n /\ DOMAIN t = 1..(n + 1)
      /\ \A i \in DOMAIN m : t[i] = m[i]
      /\ t[n + 1] = f
  BY OneMore
<1>2. /\ e \in Wide
      /\ e.begun = TRUE
      /\ e.done = (f = "message_stop")
      /\ e.delta = (d.delta \/ f \in DeltaFrames)
      /\ e.active = (IF f \in TextStarts THEN "text" ELSE IF f = "tool_start" THEN "tool"
                     ELSE IF f = "block_stop" THEN "none" ELSE d.active)
      /\ e.text = (d.text \/ f \in TextFrames)
      /\ e.tools = (IF f = "tool_start" THEN d.tools + 1 ELSE d.tools)
      /\ e.blocks = (IF f \in Starts THEN d.blocks + 1 ELSE d.blocks)
      /\ e.finish = (IF Reason(f) = "none" THEN d.finish ELSE Reason(f))
  <2>1. Effect(d, f, e)
    BY MessageEffect
  <2> HIDE DEF e
  <2> QED
    BY <2>1 DEF Effect
<1>3. /\ d.done = FALSE /\ d.delta \in BOOLEAN /\ d.text \in BOOLEAN /\ d.tools \in Nat
      /\ d.blocks \in Nat
      /\ f # "message_start" => d.begun
      /\ f = "message_start" => ~d.begun
      /\ f = "message_stop" => d.delta
  BY DEF MessageAccepts, Wide
<1>4. ~e.delta =>
         /\ \A i \in 2..Len(t) : Block(e.active, t, i, Len(t))
         /\ e.active # "none" => Len(t) > 1 /\ t[Len(t)] \notin {"message_start", "block_stop"}
  <2> SUFFICES ASSUME ~e.delta
               PROVE  /\ \A i \in 2..Len(t) : Block(e.active, t, i, Len(t))
                      /\ e.active # "none" =>
                           Len(t) > 1 /\ t[Len(t)] \notin {"message_start", "block_stop"}
    OBVIOUS
  <2>1. ~d.delta /\ f \notin DeltaFrames
    BY <1>2
  <2> QED
    BY <1>2, <2>1, BlocksAdvance
<1>5. e.delta =>
         /\ e.active = "none"
         /\ \E j \in 2..Len(t) :
              /\ t[j] \in DeltaFrames
              /\ \A i \in j..Len(t) : t[i] \in DeltaFrames \cup {"message_stop"}
              /\ \A i \in 2..(j - 1) : Block("none", t, i, j - 1)
  <2> SUFFICES ASSUME e.delta
               PROVE  /\ e.active = "none"
                      /\ \E j \in 2..Len(t) :
                           /\ t[j] \in DeltaFrames
                           /\ \A i \in j..Len(t) : t[i] \in DeltaFrames \cup {"message_stop"}
                           /\ \A i \in 2..(j - 1) : Block("none", t, i, j - 1)
    OBVIOUS
  <2>1. d.delta \/ f \in DeltaFrames
    BY <1>2
  <2>2. d.active = "none" /\ f \notin Starts /\ f # "block_stop"
    BY <2>1, DeltasAdvance
  <2>3. e.active = "none"
    BY <1>2, <2>2 DEF Starts, TextStarts
  <2> QED
    BY <2>1, <2>3, DeltasAdvance
<1> HIDE DEF e, t, n
<1>6. \A v : (\E i \in DOMAIN t : t[i] = v) <=> (f = v \/ \E i \in DOMAIN m : m[i] = v)
  BY <1>1
<1>7. e.begun /\ Len(t) > 0 /\ t[1] = "message_start"
  <2>1. CASE f = "message_start"
    <3>1. n = 0
      BY <1>1, <1>3, <2>1 DEF MessageSeen, n
    <3> QED
      BY <1>1, <1>2, <2>1, <3>1
  <2>2. CASE f # "message_start"
    <3>1. n > 0 /\ m[1] = "message_start"
      BY <1>3, <2>2 DEF MessageSeen, n
    <3> QED
      BY <1>1, <1>2, <3>1
  <2> QED
    BY <2>1, <2>2
<1>8. \A i \in DOMAIN t : t[i] = "message_stop" <=> e.done /\ i = Len(t)
  <2>1. \A i \in DOMAIN m : m[i] # "message_stop"
    BY <1>3 DEF MessageSeen
  <2>2. \A i \in DOMAIN m : t[i] # "message_stop" /\ i # Len(t)
    BY <1>1, <2>1
  <2>3. t[Len(t)] = "message_stop" <=> e.done
    BY <1>1, <1>2
  <2>4. \A i \in DOMAIN t : i \in DOMAIN m \/ i = Len(t)
    BY <1>1
  <2> QED
    BY <2>2, <2>3, <2>4
<1>9. e.done => e.delta
  BY <1>2, <1>3
<1>10. /\ e.text <=> \E i \in DOMAIN t : t[i] \in TextFrames
       /\ e.tools > 0 <=> \E i \in DOMAIN t : t[i] = "tool_start"
  <2>1. /\ d.text <=> \E i \in DOMAIN m : m[i] \in TextFrames
        /\ d.tools > 0 <=> \E i \in DOMAIN m : m[i] = "tool_start"
    BY DEF MessageSeen
  <2>2. e.text <=> \E i \in DOMAIN t : t[i] \in TextFrames
    <3>1. (\E i \in DOMAIN t : t[i] \in TextFrames) <=> (f \in TextFrames \/ \E i \in DOMAIN m : m[i] \in TextFrames)
      BY <1>1
    <3> QED
      BY <1>2, <2>1, <3>1
  <2>3. e.tools > 0 <=> (f = "tool_start" \/ d.tools > 0)
    BY <1>2, <1>3
  <2> QED
    BY <1>6, <2>1, <2>2, <2>3
<1>11. e.blocks <= Len(t) /\ (e.blocks > 0 => \E i \in DOMAIN t : t[i] \in Starts)
  <2>1. d.blocks <= n /\ (d.blocks > 0 => \E i \in DOMAIN m : m[i] \in Starts)
    BY DEF MessageSeen, n
  <2>2. e.blocks <= Len(t)
    BY <1>1, <1>2, <1>3, <2>1
  <2>3. e.blocks > 0 => f \in Starts \/ d.blocks > 0
    BY <1>2, <1>3
  <2> QED
    BY <1>1, <2>1, <2>2, <2>3
<1>12. (\A i \in DOMAIN t : Reason(t[i]) \in {"none", e.finish}) /\ (e.finish # "none" => \E i \in DOMAIN t : Reason(t[i]) = e.finish)
  <2>1. /\ \A i \in DOMAIN m : Reason(m[i]) \in {"none", d.finish}
        /\ d.finish # "none" => \E i \in DOMAIN m : Reason(m[i]) = d.finish
    BY DEF MessageSeen
  <2>2. CASE Reason(f) = "none"
    BY <1>1, <1>2, <2>1, <2>2
  <2>3. CASE Reason(f) # "none"
    <3>1. f \in DeltaFrames
      BY <2>3, Reasons
    <3>2. d.finish # "none" => d.finish = Reason(f)
      BY <2>3, <3>1 DEF MessageAccepts
    <3> QED
      BY <1>1, <1>2, <2>1, <2>3, <3>2
  <2> QED
    BY <2>2, <2>3
<1>13. MessageSeen(e, t)
  BY <1>4, <1>5, <1>7, <1>8, <1>9, <1>10, <1>11, <1>12 DEF MessageSeen
<1> QED
  BY <1>13 DEF e, t

(* A message that the decoder finds complete is whole.                     *)
LEMMA MessageIsWhole ==
    ASSUME NEW d \in Wide, NEW m \in Seq(MessageFrames), MessageSeen(d, m), MessageComplete(d)
    PROVE  WholeMessage(m)
<1> DEFINE n == Len(m)
           Tools == {i \in 1..n : m[i] = "tool_start"}
           Given == {Reason(m[i]) : i \in 1..n} \ {"none"}
           Deltas(start) == IF start = "tool_start" THEN "json_delta" ELSE "text_delta"
<1>1. n \in Nat /\ DOMAIN m = 1..n
  OBVIOUS
<1>2. d.done /\ d.delta /\ d.finish # "none" /\ d.blocks > 0
  BY DEF MessageComplete, MessageSeen
<1>3. PICK j \in 2..n :
         /\ m[j] \in DeltaFrames
         /\ \A i \in j..n : m[i] \in DeltaFrames \cup {"message_stop"}
         /\ \A i \in 2..(j - 1) : Block("none", m, i, j - 1)
  BY <1>2 DEF MessageSeen
<1>4. /\ m[1] = "message_start"
      /\ \A i \in 1..n : m[i] = "message_stop" <=> i = n
  <2>1. n > 0
    BY <1>1, <1>3
  <2>2. m[1] = "message_start"
    BY <2>1 DEF MessageSeen
  <2>3. \A i \in DOMAIN m : m[i] = "message_stop" <=> d.done /\ i = n
    BY DEF MessageSeen
  <2> QED
    BY <1>1, <1>2, <2>2, <2>3
<1>5. PICK k \in 1..n : m[k] \in Starts
  BY <1>1, <1>2 DEF MessageSeen
<1> HIDE DEF n
<1>6. m[n] = "message_stop" /\ n > 0
  BY <1>1, <1>3, <1>4
<1>7. j \in 3..(n - 1)
  <2>1. j # n
    BY <1>3, <1>6 DEF DeltaFrames
  <2>2. k # 1
    BY <1>4, <1>5 DEF Starts, TextStarts
  <2>3. k < j
    <3>1. ~(k \in j..n)
      BY <1>3, <1>5 DEF Starts, TextStarts, DeltaFrames
    <3> QED
      BY <1>1, <1>3, <1>5, <3>1
  <2> QED
    BY <1>1, <1>3, <1>5, <2>1, <2>2, <2>3
<1>8. \A i \in j..(n - 1) : m[i] \in DeltaFrames
  BY <1>1, <1>3, <1>4, <1>7
<1>9. \A i \in 2..(j - 1) :
         \/ /\ m[i] \in Starts
            /\ \E x \in (i + 1)..(j - 1) :
                 /\ m[x] = "block_stop"
                 /\ \A y \in (i + 1)..(x - 1) : m[y] = Deltas(m[i])
         \/ /\ m[i] \in {"text_delta", "json_delta", "block_stop"}
            /\ m[i - 1] \notin {"message_start", "block_stop"}
  BY <1>3 DEF Block, Closed, Open, DeltaOf, Starts, TextStarts
<1>10. Given = {d.finish}
  <2>1. \A i \in 1..n : Reason(m[i]) \in {"none", d.finish}
    BY <1>1 DEF MessageSeen
  <2>2. \E i \in 1..n : Reason(m[i]) = d.finish
    BY <1>1, <1>2 DEF MessageSeen
  <2> QED
    BY <1>2, <2>1, <2>2
<1>11. Cardinality(Given) = 1
  BY <1>10, FS_Singleton
<1>12. Tools # {} <=> d.tools > 0
  BY <1>1 DEF MessageSeen
<1>13. d.text => \E i \in 1..n : m[i] \in TextFrames
  BY <1>1 DEF MessageSeen
<1>14. /\ Given = {"tool_calls"} => Tools # {}
       /\ Given = {"stop"} => Tools = {}
       /\ Tools # {} \/ \E i \in 1..n : m[i] \in TextFrames
  BY <1>10, <1>12, <1>13 DEF MessageComplete
<1>15. n > 3
  BY <1>1, <1>7
<1> QED
  BY <1>4, <1>6, <1>7, <1>8, <1>9, <1>11, <1>14, <1>15 DEF WholeMessage, n

-----------------------------------------------------------------------------
(* Providers: the records of the requests *)

(* Request n is request r, of the same kind, with the given values.        *)
Turned(r, n, stage, res, try, emitted, dec) ==
    /\ n \in ProviderRequest /\ n.kind = r.kind
    /\ n.stage = stage /\ n.res = res /\ n.try = try /\ n.emitted = emitted /\ n.dec = dec

ProviderStages == {"idle", "connect", "read", "release", "sleep", "over"}

LEMMA EndTurns ==
    ASSUME NEW r \in ProviderRequest, NEW res \in Results
    PROVE  Turned(r, [r EXCEPT !.stage = "over", !.res = res, !.emitted = FALSE, !.dec = NewDecoder],
                  "over", res, r.try, FALSE, NewDecoder)
BY NewDecoderType DEF ProviderRequest, Turned

LEMMA StageTurns ==
    ASSUME NEW r \in ProviderRequest, NEW stage \in ProviderStages
    PROVE  Turned(r, [r EXCEPT !.stage = stage], stage, r.res, r.try, r.emitted, r.dec)
BY DEF ProviderRequest, Turned, ProviderStages

LEMMA SleepTurns ==
    ASSUME NEW r \in ProviderRequest
    PROVE  Turned(r, [r EXCEPT !.stage = "sleep", !.dec = NewDecoder],
                  "sleep", r.res, r.try, r.emitted, NewDecoder)
BY NewDecoderType DEF ProviderRequest, Turned

LEMMA FrameTurns ==
    ASSUME NEW r \in ProviderRequest, NEW dec \in Decoder, NEW emitted \in BOOLEAN
    PROVE  Turned(r, [r EXCEPT !.dec = dec, !.emitted = emitted],
                  r.stage, r.res, r.try, emitted, dec)
BY DEF ProviderRequest, Turned

LEMMA WakeTurns ==
    ASSUME NEW r \in ProviderRequest, NEW stage \in ProviderStages, NEW res \in Results,
           NEW try \in 0..ProviderAttempts
    PROVE  Turned(r, [r EXCEPT !.stage = stage, !.res = res, !.try = try, !.emitted = FALSE],
                  stage, res, try, FALSE, r.dec)
BY DEF ProviderRequest, Turned, ProviderStages

(* Request n is request r, begun as one of the given kind.                 *)
Starting(r, n, kind, try, stage, res) ==
    /\ n \in ProviderRequest /\ n.kind = kind /\ n.try = try /\ n.stage = stage /\ n.res = res
    /\ n.emitted = r.emitted /\ n.dec = r.dec

LEMMA BeginTurns ==
    ASSUME NEW r \in ProviderRequest, NEW kind \in ProviderKinds \cup {"none"},
           NEW stage \in ProviderStages, NEW res \in Results, NEW try \in 0..ProviderAttempts
    PROVE  Starting(r, [r EXCEPT !.kind = kind, !.try = try, !.stage = stage, !.res = res],
                    kind, try, stage, res)
BY DEF ProviderRequest, ProviderStages, Starting

-----------------------------------------------------------------------------
(* Providers: the streams *)

LEMMA FramesBound == \A kind : MaxFrames(kind) \in Nat
BY ProviderAssumption DEF MaxFrames

(* Before the first frame.                                                 *)
LEMMA NothingSeen ==
    ASSUME NEW kind
    PROVE  Seen(kind, NewDecoder, << >>) /\ Payload(kind, << >>) = {}
<1>1. ChatSeen(kind, NewDecoder, << >>)
  BY DEF ChatSeen, NewDecoder
<1>2. MessageSeen(NewDecoder, << >>)
  BY DEF MessageSeen, NewDecoder
<1> QED
  BY <1>1, <1>2 DEF Seen, Payload

(* A frame that carries text or a tool call is given.                      *)
LEMMA PayloadIsGiven ==
    ASSUME NEW kind, NEW d \in Wide, NEW s \in Seq(FramesOf(kind)), NEW f \in FramesOf(kind),
           Accepts(kind, d, f)
    PROVE  /\ Gives(kind, d, f) => Emits(kind, d, f)
           /\ \A i \in Payload(kind, Append(s, f)) :
                i \in Payload(kind, s) \/ (i = Len(s) + 1 /\ Gives(kind, d, f))
<1> DEFINE t == Append(s, f)
           n == Len(s)
<1>1. /\ n \in Nat /\ DOMAIN s = 1..n /\ DOMAIN t = 1..(n + 1)
      /\ \A i \in DOMAIN s : t[i] = s[i]
      /\ t[n + 1] = f
  BY OneMore
<1> HIDE DEF t, n
<1>2. CASE kind = "anthropic"
  <2>1. f \in {"tool_start", "json_delta"} \cup TextFrames => Gives(kind, d, f)
    BY <1>2 DEF Gives, MessageGives
  <2>2. \A i \in Payload(kind, t) : i \in Payload(kind, s) \/ (i = n + 1 /\ Gives(kind, d, f))
    BY <1>1, <1>2, <2>1 DEF Payload
  <2> QED
    BY <1>2, <2>2 DEF Gives, Emits, t, n
<1>3. CASE kind # "anthropic"
  <2>1. f \in ChatFrames /\ ChatAccepts(kind, d, f)
    BY <1>3 DEF FramesOf, Accepts
  <2>2. /\ f.text \/ f.tool => f.choice
        /\ f = Done => f.finish = "[DONE]"
    BY <2>1, FrameFields
  <2>3. f.finish = "none" /\ (f.text \/ f.tool) => Gives(kind, d, f)
    BY <1>3, <2>1, <2>2 DEF Gives, ChatGives, ChatAccepts
  <2>4. \A i \in Payload(kind, t) : i \in Payload(kind, s) \/ (i = n + 1 /\ Gives(kind, d, f))
    BY <1>1, <1>3, <2>3 DEF Payload
  <2>5. Gives(kind, d, f) => Emits(kind, d, f)
    BY <1>3 DEF Gives, Emits, ChatGives, ChatEmits
  <2> QED
    BY <2>4, <2>5 DEF t, n
<1> QED
  BY <1>2, <1>3

(* Whatever the kind, a decoder that accepts a frame has seen it.          *)
LEMMA Advances ==
    ASSUME NEW kind, NEW d \in Decoder, NEW s \in Seq(FramesOf(kind)), NEW f \in FramesOf(kind),
           Seen(kind, d, s), Accepts(kind, d, f), Len(s) + 1 <= MaxFrames(kind),
           ~(Gives(kind, d, f) /\ Decoded(kind, d, f).tools > MaxTools)
    PROVE  /\ Decoded(kind, d, f) \in Decoder
           /\ Seen(kind, Decoded(kind, d, f), Append(s, f))
<1> DEFINE e == Decoded(kind, d, f)
<1>0. /\ d \in Wide /\ d.tools \in 0..MaxTools /\ d.blocks \in 0..MaxMessageFrames
      /\ MaxTools \in Nat /\ MaxMessageFrames \in Nat
  BY DecoderIsWide, ProviderAssumption DEF Decoder
<1>1. Seen(kind, e, Append(s, f))
  <2>1. CASE kind = "anthropic"
    BY <1>0, <2>1, MessageAdvances DEF Seen, Accepts, FramesOf, Decoded
  <2>2. CASE kind # "anthropic"
    BY <1>0, <2>2, ChatAdvances DEF Seen, Accepts, FramesOf, Decoded
  <2> QED
    BY <2>1, <2>2
<1>2. e \in Wide /\ e.tools \in 0..MaxTools /\ e.blocks \in 0..MaxMessageFrames
  <2>1. CASE kind = "anthropic"
    <3>1. e = MessageDecoded(d, f) /\ MessageAccepts(d, f) /\ f \in MessageFrames
      BY <2>1 DEF Decoded, Accepts, FramesOf
    <3>2. Effect(d, f, e)
      BY <1>0, <3>1, MessageEffect
    <3>3. MessageSeen(e, Append(s, f))
      BY <1>1, <2>1 DEF Seen
    <3>4. Len(Append(s, f)) = Len(s) + 1 /\ Len(s) \in Nat
      OBVIOUS
    <3>5. f = "tool_start" => Gives(kind, d, f)
      BY <2>1 DEF Gives, MessageGives
    <3> HIDE DEF e
    <3>6. e \in Wide /\ e.blocks <= Len(Append(s, f))
      BY <3>2, <3>3 DEF Effect, MessageSeen
    <3>7. e.tools \in 0..MaxTools
      <4>1. e.tools \in Nat
        BY <3>6 DEF Wide
      <4>2. CASE f = "tool_start"
        BY <1>0, <3>5, <4>1, <4>2 DEF e
      <4>3. CASE f # "tool_start"
        BY <1>0, <3>2, <4>3 DEF Effect
      <4> QED
        BY <4>2, <4>3
    <3>8. e.blocks \in 0..MaxMessageFrames
      <4>1. e.blocks \in Nat
        BY <3>6 DEF Wide
      <4> QED
        BY <1>0, <2>1, <3>4, <3>6, <4>1 DEF MaxFrames
    <3> QED
      BY <3>6, <3>7, <3>8
  <2>2. CASE kind # "anthropic"
    <3>1. e = ChatDecoded(d, f) /\ ChatAccepts(kind, d, f) /\ f \in ChatFrames
      BY <2>2 DEF Decoded, Accepts, FramesOf
    <3>2. CASE f = Done
      BY <1>0, <3>1, <3>2, DoneDecoded
    <3>3. CASE f # Done
      <4>1. /\ e \in Wide /\ e.blocks = d.blocks
            /\ e.tools = (IF f.tool /\ (~f.again \/ d.tools = 0) THEN d.tools + 1 ELSE d.tools)
        BY <1>0, <3>1, <3>3, ChatFields
      <4>2. f.tool => f.choice /\ f.finish = "none"
        BY <3>1, FrameFields
      <4>3. f.tool => Gives(kind, d, f)
        BY <2>2, <3>1, <3>3, <4>2 DEF Gives, ChatGives, ChatAccepts
      <4>4. e.tools \in Nat
        BY <4>1 DEF Wide
      <4> HIDE DEF e
      <4>5. CASE f.tool
        <5>1. ~(e.tools > MaxTools)
          BY <4>3, <4>5 DEF e
        <5> QED
          BY <1>0, <4>1, <4>4, <5>1
      <4>6. CASE ~f.tool
        BY <1>0, <4>1, <4>6
      <4> QED
        BY <4>5, <4>6
    <3> QED
      BY <3>2, <3>3
  <2> QED
    BY <2>1, <2>2
<1> HIDE DEF e
<1>3. e \in Decoder
  BY <1>2 DEF Wide, Decoder
<1> QED
  BY <1>1, <1>3 DEF e

LEMMA CompleteIsWhole ==
    ASSUME NEW kind, NEW d \in Decoder, NEW s \in Seq(FramesOf(kind)),
           Seen(kind, d, s), CompleteStream(kind, d)
    PROVE  Whole(kind, s)
<1>1. d \in Wide
  BY DecoderIsWide
<1>2. CASE kind = "anthropic"
  BY <1>1, <1>2, MessageIsWhole DEF Seen, CompleteStream, FramesOf, Whole
<1>3. CASE kind # "anthropic"
  BY <1>1, <1>3, ChatIsWhole DEF Seen, CompleteStream, FramesOf, Whole
<1> QED
  BY <1>2, <1>3

-----------------------------------------------------------------------------
(* Providers: the steps of a request *)

Breaker == [failures : 0..FailureThreshold, state : {"closed", "open", "cooled"}]

(* Request c goes on as n; a stream has then sent s and given g; only a    *)
(* retryable error counts against the provider.                            *)
Advance(c, n, s, g) ==
    /\ req[c].stage # "over"
    /\ req' = [req EXCEPT ![c] = n] /\ RequestOK(n)
    /\ c \in Streams =>
         /\ sent' = [sent EXCEPT ![c] = s] /\ got' = [got EXCEPT ![c] = g]
         /\ StreamOK(n, s, g)
    /\ c \notin Streams => sent' = sent /\ got' = got
    /\ circuit' \in {circuit, Looked, Healed} \/ (n.res = "retryable" /\ circuit' = Struck)
    /\ clientClosing' = clientClosing

AdvanceStep(c) == \E n, s, g : Advance(c, n, s, g)

LEMMA BreakerTypes ==
    ASSUME circuit \in Breaker
    PROVE  Looked \in Breaker /\ Healed \in Breaker /\ Struck \in Breaker
BY ProviderAssumption DEF Breaker, Looked, Healed, Struck

LEMMA AdvanceKeepsInv ==
    ASSUME ProviderInv, NEW c \in ProviderRequests, AdvanceStep(c)
    PROVE  ProviderInv'
<1>1. PICK n, s, g : Advance(c, n, s, g)
  BY DEF AdvanceStep
<1>2. /\ req' = [x \in ProviderRequests |-> req'[x]]
      /\ \A x \in ProviderRequests : req'[x] = IF x = c THEN n ELSE req[x]
  BY <1>1 DEF Advance, ProviderInv
<1>3. \A x \in ProviderRequests : RequestOK(req'[x])
  BY <1>1, <1>2 DEF Advance, ProviderInv
<1>4. /\ sent' = [x \in Streams |-> sent'[x]] /\ got' = [x \in Streams |-> got'[x]]
      /\ \A x \in Streams : StreamOK(req'[x], sent'[x], got'[x])
  <2>1. CASE c \in Streams
    <3>1. \A x \in Streams : /\ sent'[x] = IF x = c THEN s ELSE sent[x]
                             /\ got'[x] = IF x = c THEN g ELSE got[x]
      BY <1>1, <2>1 DEF Advance, ProviderInv
    <3>2. sent' = [x \in Streams |-> sent'[x]] /\ got' = [x \in Streams |-> got'[x]]
      BY <1>1, <2>1 DEF Advance, ProviderInv
    <3>3. \A x \in Streams : StreamOK(req'[x], sent'[x], got'[x])
      BY <1>1, <1>2, <2>1, <3>1 DEF Advance, ProviderInv, ProviderRequests
    <3> QED
      BY <3>2, <3>3
  <2>2. CASE c \notin Streams
    <3>1. sent' = sent /\ got' = got /\ \A x \in Streams : req'[x] = req[x]
      BY <1>1, <1>2, <2>2 DEF Advance, ProviderRequests
    <3> QED
      BY <3>1 DEF ProviderInv
  <2> QED
    BY <2>1, <2>2
<1>5. circuit' \in Breaker
  BY <1>1, BreakerTypes DEF Advance, ProviderInv, Breaker
<1>6. clientClosing' \in BOOLEAN
  BY <1>1 DEF Advance, ProviderInv
<1> QED
  BY <1>2, <1>3, <1>4, <1>5, <1>6 DEF ProviderInv, Breaker

(* The breaker counts what failed.                                         *)
LEMMA AdvanceCounts ==
    ASSUME ProviderInv, CircuitInv, NEW c \in ProviderRequests, AdvanceStep(c)
    PROVE  CircuitInv'
<1>1. PICK n, s, g : Advance(c, n, s, g)
  BY DEF AdvanceStep
<1>2. \A x \in ProviderRequests : req'[x] = IF x = c THEN n ELSE req[x]
  BY <1>1 DEF Advance, ProviderInv
<1>3. c \notin Failed
  BY <1>1 DEF Advance, ProviderInv, RequestOK, Failed
<1>4. Failed' = IF n.res = "retryable" THEN Failed \cup {c} ELSE Failed
  BY <1>2, <1>3 DEF Failed
<1>5. /\ IsFiniteSet(Failed) /\ Cardinality(Failed) \in Nat
      /\ circuit.failures <= Cardinality(Failed) /\ circuit.failures \in Nat
  BY FS_CardinalityType, ProviderAssumption DEF CircuitInv, CircuitCountsFailures, Failed, ProviderInv
<1>6. /\ Looked.failures <= Cardinality(Failed) /\ Healed.failures <= Cardinality(Failed)
      /\ Struck.failures <= Cardinality(Failed) + 1
      /\ Looked.failures \in Nat /\ Healed.failures \in Nat /\ Struck.failures \in Nat
  BY <1>5, ProviderAssumption DEF Looked, Healed, Struck, ProviderInv
<1>7. CASE n.res = "retryable"
  <2>1. IsFiniteSet(Failed') /\ Cardinality(Failed') = Cardinality(Failed) + 1
    BY <1>3, <1>4, <1>5, <1>7, FS_AddElement
  <2>2. circuit'.failures <= Cardinality(Failed')
    BY <1>1, <1>5, <1>6, <2>1 DEF Advance
  <2> QED
    BY <2>1, <2>2 DEF CircuitInv, CircuitCountsFailures, Failed
<1>8. CASE n.res # "retryable"
  <2>1. Failed' = Failed
    BY <1>4, <1>8
  <2>2. circuit'.failures <= Cardinality(Failed)
    BY <1>1, <1>5, <1>6, <1>8 DEF Advance
  <2> QED
    BY <1>5, <2>1, <2>2 DEF CircuitInv, CircuitCountsFailures, Failed
<1> QED
  BY <1>7, <1>8

(* A request that is over, other than with a whole response.               *)
LEMMA OverIsOK ==
    ASSUME NEW r, RequestOK(r), NEW n, NEW res \in Results \ {"done"},
           Turned(r, n, "over", res, r.try, FALSE, NewDecoder)
    PROVE  /\ RequestOK(n)
           /\ \A s, g : StreamOK(r, s, g) => StreamOK(n, s, g)
           /\ StreamOK(n, << >>, {})
<1>1. RequestOK(n)
  BY DEF RequestOK, Turned
<1>2. \A s, g : StreamOK(r, s, g) => StreamOK(n, s, g)
  BY DEF Turned, StreamOK
<1>3. StreamOK(n, << >>, {})
  BY FramesBound DEF Turned, StreamOK
<1> QED
  BY <1>1, <1>2, <1>3

LEMMA RequestFacts ==
    ASSUME ProviderInv, NEW c \in ProviderRequests
    PROVE  /\ RequestOK(req[c]) /\ req[c] \in ProviderRequest
           /\ c \in Streams => StreamOK(req[c], sent[c], got[c])
           /\ c \in Streams => sent = [sent EXCEPT ![c] = sent[c]] /\ got = [got EXCEPT ![c] = got[c]]
<1>1. RequestOK(req[c]) /\ req[c] \in ProviderRequest
  BY DEF ProviderInv, RequestOK
<1>2. c \in Streams => StreamOK(req[c], sent[c], got[c])
  BY DEF ProviderInv
<1>3. c \in Streams => sent = [sent EXCEPT ![c] = sent[c]] /\ got = [got EXCEPT ![c] = got[c]]
  BY DEF ProviderInv
<1> QED
  BY <1>1, <1>2, <1>3

(* EndRequest makes the record that EndTurns describes.                    *)
LEMMA EndMakes ==
    ASSUME ProviderInv, NEW c \in ProviderRequests, NEW res \in Results, EndRequest(c, res)
    PROVE  \E n : /\ req' = [req EXCEPT ![c] = n]
                  /\ Turned(req[c], n, "over", res, req[c].try, FALSE, NewDecoder)
<1> DEFINE r == req[c]
           n == [r EXCEPT !.stage = "over", !.res = res, !.emitted = FALSE, !.dec = NewDecoder]
<1>1. r \in ProviderRequest
  BY RequestFacts
<1>2. req' = [req EXCEPT ![c] = n]
  BY <1>1 DEF EndRequest, ProviderInv
<1> HIDE DEF r
<1>3. Turned(r, n, "over", res, r.try, FALSE, NewDecoder)
  BY <1>1, EndTurns
<1> HIDE DEF n
<1> QED
  BY <1>2, <1>3 DEF r

(* A request that ends otherwise than with a whole response.               *)
LEMMA EndStep ==
    ASSUME ProviderInv, NEW c \in ProviderRequests, NEW res \in Results \ {"done"},
           req[c].stage # "over", EndRequest(c, res),
           Forgotten(c) \/ UNCHANGED <<sent, got>>,
           circuit' \in {circuit, Looked, Healed} \/ (res = "retryable" /\ circuit' = Struck),
           UNCHANGED clientClosing
    PROVE  AdvanceStep(c)
<1>1. PICK n : /\ req' = [req EXCEPT ![c] = n]
               /\ Turned(req[c], n, "over", res, req[c].try, FALSE, NewDecoder)
  BY EndMakes
<1>2. /\ RequestOK(n)
      /\ \A s, g : StreamOK(req[c], s, g) => StreamOK(n, s, g)
      /\ StreamOK(n, << >>, {})
      /\ n.res = res
  BY <1>1, RequestFacts, OverIsOK DEF Turned
<1>3. CASE Forgotten(c)
  <2>1. Advance(c, n, << >>, {})
    BY <1>1, <1>2, <1>3 DEF Advance, Forgotten
  <2> QED
    BY <2>1 DEF AdvanceStep
<1>4. CASE UNCHANGED <<sent, got>>
  <2>1. c \in Streams => /\ StreamOK(n, sent[c], got[c])
                         /\ sent' = [sent EXCEPT ![c] = sent[c]] /\ got' = [got EXCEPT ![c] = got[c]]
    BY <1>2, <1>4, RequestFacts
  <2>2. Advance(c, n, sent[c], got[c])
    BY <1>1, <1>2, <1>4, <2>1 DEF Advance
  <2> QED
    BY <2>2 DEF AdvanceStep
<1> QED
  BY <1>3, <1>4

LEMMA AttemptFailsStep ==
    ASSUME ProviderInv, NEW c \in ProviderRequests, NEW e \in {"retryable", "permanent"},
           req[c].stage \notin {"idle", "over"}, AttemptFails(c, e)
    PROVE  AdvanceStep(c)
<1> DEFINE r == req[c]
           n == [r EXCEPT !.stage = "sleep", !.dec = NewDecoder]
<1>0. r \in ProviderRequest /\ RequestOK(r) /\ (c \in Streams => StreamOK(r, sent[c], got[c]))
  BY RequestFacts
<1>1. CASE /\ MayRetry(c, e)
           /\ req' = [req EXCEPT ![c].stage = "sleep", ![c].dec = NewDecoder]
           /\ sent' = IF c \in Streams THEN [sent EXCEPT ![c] = <<>>] ELSE sent
           /\ UNCHANGED <<got, circuit>>
  <2>1. req' = [req EXCEPT ![c] = n]
    BY <1>0, <1>1 DEF ProviderInv
  <2>2. ~r.emitted /\ r.try < ProviderAttempts /\ r.stage \notin {"idle", "over"}
    BY <1>1 DEF MayRetry
  <2>3. c \in Streams => got' = [got EXCEPT ![c] = {}]
    <3>1. c \in Streams => got[c] = {}
      BY <1>0, <2>2 DEF StreamOK
    <3> QED
      BY <1>1, <3>1, RequestFacts
  <2>4. clientClosing' = clientClosing /\ r.stage = req[c].stage
    BY DEF AttemptFails
  <2> HIDE DEF r
  <2>5. Turned(r, n, "sleep", r.res, r.try, r.emitted, NewDecoder)
    BY <1>0, SleepTurns
  <2> HIDE DEF n
  <2>6. RequestOK(n)
    BY <1>0, <2>2, <2>5 DEF RequestOK, Turned
  <2>7. StreamOK(n, << >>, {})
    <3>1. n.res = "none" /\ n.stage = "sleep" /\ ~n.emitted /\ n.dec = NewDecoder
      BY <1>0, <2>2, <2>5 DEF RequestOK, Turned
    <3> QED
      BY <3>1, FramesBound DEF StreamOK
  <2>8. Advance(c, n, << >>, {})
    BY <1>1, <2>1, <2>2, <2>3, <2>4, <2>6, <2>7 DEF Advance
  <2> QED
    BY <2>8 DEF AdvanceStep
<1>2. CASE FailsWith(c, e) /\ Forgotten(c)
  <2>1. EndRequest(c, e) /\ (circuit' = circuit \/ (e = "retryable" /\ circuit' = Struck))
    BY <1>2 DEF FailsWith
  <2>2. UNCHANGED clientClosing /\ e \in Results \ {"done"}
    BY DEF AttemptFails, Results
  <2> QED
    BY <1>2, <2>1, <2>2, EndStep
<1> QED
  BY <1>1, <1>2 DEF AttemptFails

LEMMA BeginRequestStep ==
    ASSUME ProviderInv, NEW c \in ProviderRequests, NEW kind \in ProviderKinds \cup {"none"},
           BeginRequest(c, kind)
    PROVE  AdvanceStep(c)
<1> DEFINE r == req[c]
           a == IF Looked.state = "open" THEN [stage |-> "over", res |-> "refused"] ELSE NewAttempt
           n == [r EXCEPT !.kind = kind, !.try = 1, !.stage = a.stage, !.res = a.res]
<1>0. r \in ProviderRequest /\ RequestOK(r) /\ (c \in Streams => StreamOK(r, sent[c], got[c]))
  BY RequestFacts
<1>1. r.stage = "idle" /\ circuit' = Looked /\ UNCHANGED <<sent, got, clientClosing>>
  BY DEF BeginRequest
<1>2. req' = [req EXCEPT ![c] = n]
  BY <1>0 DEF BeginRequest, ProviderInv
<1>3. /\ a.stage \in {"connect", "over"} /\ a.res \in Results \ {"done"}
      /\ a.stage = "connect" => a.res = "none"
  BY DEF NewAttempt, Results
<1>4. r.stage = req[c].stage
  OBVIOUS
<1> HIDE DEF r, a
<1>5. /\ n \in ProviderRequest /\ n.kind = kind /\ n.try = 1 /\ n.stage = a.stage /\ n.res = a.res
      /\ n.emitted = r.emitted /\ n.dec = r.dec
  <2>1. a.stage \in ProviderStages /\ a.res \in Results /\ 1 \in 0..ProviderAttempts
    BY <1>3, ProviderAssumption DEF ProviderStages
  <2>2. Starting(r, n, kind, 1, a.stage, a.res)
    BY <1>0, <2>1, BeginTurns
  <2> HIDE DEF n
  <2> QED
    BY <2>2 DEF Starting
<1> HIDE DEF n
<1>6. RequestOK(n)
  BY <1>3, <1>5 DEF RequestOK
<1>7. c \in Streams => /\ sent[c] = << >> /\ got[c] = {} /\ ~r.emitted /\ r.dec = NewDecoder
  BY <1>0, <1>1 DEF StreamOK
<1>8. c \in Streams => StreamOK(n, << >>, {})
  BY <1>3, <1>5, <1>7, FramesBound DEF StreamOK
<1>9. c \in Streams => sent' = [sent EXCEPT ![c] = << >>] /\ got' = [got EXCEPT ![c] = {}]
  BY <1>1, <1>7, RequestFacts
<1>10. Advance(c, n, << >>, {})
  BY <1>1, <1>2, <1>4, <1>6, <1>8, <1>9 DEF Advance
<1> QED
  BY <1>10 DEF AdvanceStep

LEMMA ConnectStep ==
    ASSUME ProviderInv, NEW c \in ProviderRequests, Connect(c)
    PROVE  AdvanceStep(c)
<1> DEFINE r == req[c]
           n == [r EXCEPT !.stage = "read"]
<1>0. r \in ProviderRequest /\ RequestOK(r) /\ (c \in Streams => StreamOK(r, sent[c], got[c]))
  BY RequestFacts
<1>1. /\ c \in Streams /\ r.stage = "connect" /\ req[c].stage # "over"
      /\ UNCHANGED <<sent, got, circuit, clientClosing>>
  BY DEF Connect
<1>2. req' = [req EXCEPT ![c] = n]
  BY <1>0 DEF Connect, ProviderInv
<1> HIDE DEF r
<1>3. Turned(r, n, "read", r.res, r.try, r.emitted, r.dec)
  BY <1>0, StageTurns DEF ProviderStages
<1> HIDE DEF n
<1>4. RequestOK(n)
  BY <1>0, <1>1, <1>3 DEF RequestOK, Turned
<1>5. sent[c] = << >> /\ got[c] = {} /\ r.dec = NewDecoder
  BY <1>0, <1>1 DEF StreamOK
<1>6. StreamOK(n, << >>, {})
  <2>1. n.stage = "read" /\ n.res = "none" /\ n.dec = NewDecoder
    BY <1>0, <1>1, <1>3, <1>5 DEF RequestOK, Turned
  <2> QED
    BY <2>1, FramesBound, NothingSeen DEF StreamOK, AllGiven
<1>7. sent' = [sent EXCEPT ![c] = << >>] /\ got' = [got EXCEPT ![c] = {}]
  BY <1>1, <1>5, RequestFacts
<1>8. Advance(c, n, << >>, {})
  BY <1>1, <1>2, <1>4, <1>6, <1>7 DEF Advance
<1> QED
  BY <1>8 DEF AdvanceStep

LEMMA WakeStep ==
    ASSUME ProviderInv, NEW c \in ProviderRequests, Wake(c)
    PROVE  AdvanceStep(c)
<1> DEFINE r == req[c]
           n == [r EXCEPT !.stage = NewAttempt.stage, !.res = NewAttempt.res, !.try = r.try + 1,
                          !.emitted = FALSE]
<1>0. r \in ProviderRequest /\ RequestOK(r) /\ (c \in Streams => StreamOK(r, sent[c], got[c]))
  BY RequestFacts
<1>1. /\ r.stage = "sleep" /\ req[c].stage # "over"
      /\ UNCHANGED <<sent, got, circuit, clientClosing>>
  BY DEF Wake
<1>2. req' = [req EXCEPT ![c] = n]
  BY <1>0 DEF Wake, ProviderInv
<1>3. /\ NewAttempt.stage \in {"connect", "over"} /\ NewAttempt.res \in {"none", "permanent"}
      /\ NewAttempt.stage = "connect" => NewAttempt.res = "none"
  BY DEF NewAttempt
<1> HIDE DEF r
<1>4. r.try + 1 \in 0..ProviderAttempts /\ r.try + 1 > 0
  BY <1>0, <1>1, ProviderAssumption DEF RequestOK, ProviderRequest
<1>5. Turned(r, n, NewAttempt.stage, NewAttempt.res, r.try + 1, FALSE, r.dec)
  BY <1>0, <1>3, <1>4, WakeTurns DEF ProviderStages, Results
<1> HIDE DEF n
<1>6. RequestOK(n)
  BY <1>3, <1>4, <1>5 DEF RequestOK, Turned
<1>7. c \in Streams => sent[c] = << >> /\ got[c] = {} /\ r.dec = NewDecoder
  BY <1>0, <1>1 DEF StreamOK
<1>8. c \in Streams => StreamOK(n, << >>, {})
  <2>1. /\ n.stage \in {"connect", "over"} /\ n.res # "done" /\ ~n.emitted
        /\ n.dec = r.dec
    BY <1>3, <1>5 DEF Turned
  <2> QED
    BY <1>7, <2>1, FramesBound DEF StreamOK
<1>9. c \in Streams => sent' = [sent EXCEPT ![c] = << >>] /\ got' = [got EXCEPT ![c] = {}]
  BY <1>1, <1>7, RequestFacts
<1>10. Advance(c, n, << >>, {})
  BY <1>1, <1>2, <1>6, <1>8, <1>9 DEF Advance
<1> QED
  BY <1>10 DEF AdvanceStep

LEMMA WholeAnswerStep ==
    ASSUME ProviderInv, NEW c \in ProviderRequests, NEW res \in {"done", "budget"},
           WholeAnswer(c, res)
    PROVE  AdvanceStep(c)
<1>1. /\ c \in Unaries /\ req[c].stage = "connect" /\ EndRequest(c, res) /\ circuit' = Healed
      /\ UNCHANGED <<sent, got, clientClosing>>
  BY DEF WholeAnswer
<1>2. PICK n : /\ req' = [req EXCEPT ![c] = n]
               /\ Turned(req[c], n, "over", res, req[c].try, FALSE, NewDecoder)
  <2>1. res \in Results
    BY DEF Results
  <2> QED
    BY <1>1, <2>1, EndMakes
<1>3. c \notin Streams
  BY <1>1, ProviderAssumption
<1>4. RequestOK(n)
  BY <1>2 DEF RequestOK, Turned
<1>5. Advance(c, n, << >>, {})
  BY <1>1, <1>2, <1>3, <1>4 DEF Advance
<1> QED
  BY <1>5 DEF AdvanceStep

LEMMA ReceiveFrameStep ==
    ASSUME ProviderInv, NEW c \in Streams, NEW f \in FramesOf(req[c].kind), ReceiveFrame(c, f)
    PROVE  AdvanceStep(c)
<1> DEFINE r == req[c]
           s == sent[c]
           g == got[c]
           e == Decoded(r.kind, r.dec, f)
           emits == r.emitted \/ Emits(r.kind, r.dec, f)
           n == [r EXCEPT !.dec = e, !.emitted = emits]
           t == Append(s, f)
           given == IF Gives(r.kind, r.dec, f) THEN g \cup {<<r.try, Len(s) + 1>>} ELSE g
<1>0. c \in ProviderRequests
  BY DEF ProviderRequests
<1>1. r \in ProviderRequest /\ RequestOK(r) /\ StreamOK(r, s, g)
  BY <1>0, RequestFacts
<1>2. /\ r.stage = "read" /\ Len(s) + 1 <= MaxFrames(r.kind) /\ Accepts(r.kind, r.dec, f)
      /\ UNCHANGED <<circuit, clientClosing>>
  BY DEF ReceiveFrame
<1>3. CASE Gives(r.kind, r.dec, f) /\ e.tools > MaxTools
  <2>1. EndRequest(c, "budget") /\ Forgotten(c)
    BY <1>3 DEF ReceiveFrame
  <2>2. req[c].stage # "over"
    BY <1>2
  <2> QED
    BY <1>0, <1>2, <2>1, <2>2, EndStep DEF Results
<1>4. CASE ~(Gives(r.kind, r.dec, f) /\ e.tools > MaxTools)
  <2>1. /\ req' = [req EXCEPT ![c].dec = e, ![c].emitted = @ \/ Emits(r.kind, r.dec, f)]
        /\ sent' = [sent EXCEPT ![c] = Append(@, f)]
        /\ got' = IF Gives(r.kind, r.dec, f) THEN [got EXCEPT ![c] = @ \cup {<<r.try, Len(s) + 1>>}]
                  ELSE got
    BY <1>4 DEF ReceiveFrame
  <2>2. req' = [req EXCEPT ![c] = n]
    BY <1>0, <1>1, <2>1 DEF ProviderInv
  <2>3. sent' = [sent EXCEPT ![c] = t] /\ got' = [got EXCEPT ![c] = given]
    BY <1>0, <2>1, RequestFacts
  <2>4. req[c].stage # "over" /\ f \in FramesOf(r.kind)
    BY <1>2
  <2> HIDE DEF r, s, g
  <2>5. /\ s \in Seq(FramesOf(r.kind)) /\ g \subseteq {r.try} \X Nat
        /\ Seen(r.kind, r.dec, s) /\ AllGiven(r, s, g) /\ (~r.emitted => g = {})
        /\ r.res = "none" /\ r.try > 0
    BY <1>1, <1>2 DEF StreamOK, RequestOK
  <2>6. r.dec \in Decoder /\ r.emitted \in BOOLEAN
    BY <1>1 DEF ProviderRequest
  <2>7. e \in Decoder /\ Seen(r.kind, e, t)
    BY <1>2, <1>4, <2>4, <2>5, <2>6, Advances
  <2>8. emits \in BOOLEAN
    BY <2>6 DEF Emits, MessageGives, ChatEmits
  <2>9. /\ Gives(r.kind, r.dec, f) => Emits(r.kind, r.dec, f)
        /\ \A i \in Payload(r.kind, t) :
             i \in Payload(r.kind, s) \/ (i = Len(s) + 1 /\ Gives(r.kind, r.dec, f))
    BY <1>2, <2>4, <2>5, <2>6, DecoderIsWide, PayloadIsGiven
  <2>10. t \in Seq(FramesOf(r.kind)) /\ Len(t) = Len(s) + 1 /\ Len(s) \in Nat
    BY <2>4, <2>5
  <2>11. given \subseteq {r.try} \X Nat
    BY <2>5, <2>10
  <2>12. ~emits => given = {}
    BY <2>5, <2>9
  <2>13. \A i \in Payload(r.kind, t) : <<r.try, i>> \in given
    BY <2>5, <2>9 DEF AllGiven
  <2> HIDE DEF e, emits, t, given
  <2>14. Turned(r, n, r.stage, r.res, r.try, emits, e)
    BY <1>1, <2>7, <2>8, FrameTurns
  <2> HIDE DEF n
  <2>15. RequestOK(n)
    BY <1>2, <2>5, <2>14 DEF RequestOK, Turned
  <2>16. StreamOK(n, t, given)
    <3>1. n.kind = r.kind /\ n.try = r.try /\ n.stage = "read" /\ n.res = "none" /\ n.emitted = emits
          /\ n.dec = e
      BY <1>2, <2>5, <2>14 DEF Turned
    <3>2. AllGiven(n, t, given)
      BY <2>13, <3>1 DEF AllGiven
    <3> QED
      BY <1>2, <2>7, <2>10, <2>11, <2>12, <3>1, <3>2 DEF StreamOK
  <2>17. Advance(c, n, t, given)
    BY <1>2, <2>2, <2>3, <2>4, <2>15, <2>16 DEF Advance
  <2> QED
    BY <2>17 DEF AdvanceStep
<1> QED
  BY <1>3, <1>4

LEMMA EndOfStreamStep ==
    ASSUME ProviderInv, NEW c \in Streams, EndOfStream(c)
    PROVE  AdvanceStep(c)
<1> DEFINE r == req[c]
           n == [r EXCEPT !.stage = "release"]
<1>0. c \in ProviderRequests
  BY DEF ProviderRequests
<1>1. r \in ProviderRequest /\ RequestOK(r) /\ StreamOK(r, sent[c], got[c])
  BY <1>0, RequestFacts
<1>2. r.stage = "read" /\ req[c].stage \notin {"idle", "over"}
  BY DEF EndOfStream
<1>3. CASE AttemptFails(c, "permanent")
  BY <1>0, <1>2, <1>3, AttemptFailsStep
<1>4. CASE /\ CompleteStream(r.kind, r.dec)
           /\ req' = [req EXCEPT ![c].stage = "release"]
           /\ UNCHANGED <<sent, got, circuit, clientClosing>>
  <2>1. req' = [req EXCEPT ![c] = n]
    BY <1>0, <1>1, <1>4 DEF ProviderInv
  <2>2. sent' = [sent EXCEPT ![c] = sent[c]] /\ got' = [got EXCEPT ![c] = got[c]]
    BY <1>0, <1>4, RequestFacts
  <2> HIDE DEF r
  <2>3. Turned(r, n, "release", r.res, r.try, r.emitted, r.dec)
    BY <1>1, StageTurns DEF ProviderStages
  <2> HIDE DEF n
  <2>4. RequestOK(n)
    BY <1>1, <1>2, <2>3 DEF RequestOK, Turned
  <2>5. StreamOK(n, sent[c], got[c])
    BY <1>1, <1>2, <1>4, <2>3 DEF StreamOK, Turned, AllGiven
  <2>6. Advance(c, n, sent[c], got[c])
    BY <1>2, <1>4, <2>1, <2>2, <2>4, <2>5 DEF Advance
  <2> QED
    BY <2>6 DEF AdvanceStep
<1> QED
  BY <1>3, <1>4 DEF EndOfStream

LEMMA ReleaseResponseStep ==
    ASSUME ProviderInv, NEW c \in Streams, ReleaseResponse(c)
    PROVE  AdvanceStep(c)
<1> DEFINE r == req[c]
<1>0. c \in ProviderRequests
  BY DEF ProviderRequests
<1>1. r \in ProviderRequest /\ RequestOK(r) /\ StreamOK(r, sent[c], got[c])
  BY <1>0, RequestFacts
<1>2. /\ r.stage = "release" /\ EndRequest(c, "done") /\ circuit' = Healed
      /\ UNCHANGED <<sent, got, clientClosing>>
  BY DEF ReleaseResponse
<1>3. PICK n : /\ req' = [req EXCEPT ![c] = n]
               /\ Turned(req[c], n, "over", "done", req[c].try, FALSE, NewDecoder)
  BY <1>0, <1>2, EndMakes DEF Results
<1>4. sent' = [sent EXCEPT ![c] = sent[c]] /\ got' = [got EXCEPT ![c] = got[c]]
  BY <1>0, <1>2, RequestFacts
<1>5. RequestOK(n)
  BY <1>3 DEF RequestOK, Turned
<1>6. Whole(r.kind, sent[c])
  <2>1. r.dec \in Decoder
    BY <1>1 DEF ProviderRequest
  <2> QED
    BY <1>1, <1>2, <2>1, CompleteIsWhole DEF StreamOK
<1>7. StreamOK(n, sent[c], got[c])
  <2>1. n.kind = r.kind /\ n.try = r.try /\ n.stage = "over"
    BY <1>3 DEF Turned
  <2>2. AllGiven(n, sent[c], got[c])
    BY <1>1, <1>2, <2>1 DEF StreamOK, AllGiven
  <2> QED
    BY <1>1, <1>6, <2>1, <2>2 DEF StreamOK
<1>8. Advance(c, n, sent[c], got[c])
  BY <1>2, <1>3, <1>4, <1>5, <1>7 DEF Advance
<1> QED
  BY <1>8 DEF AdvanceStep

LEMMA FailureStep ==
    ASSUME ProviderInv, NEW c \in ProviderRequests, NEW e \in {"retryable", "permanent"},
           req[c].stage # "over", FailsWith(c, e),
           Forgotten(c) \/ UNCHANGED <<sent, got>>, UNCHANGED clientClosing
    PROVE  AdvanceStep(c)
<1>1. EndRequest(c, e) /\ (circuit' = circuit \/ (e = "retryable" /\ circuit' = Struck))
  BY DEF FailsWith
<1>2. e \in Results \ {"done"}
  BY DEF Results
<1> QED
  BY <1>1, <1>2, EndStep

LEMMA AbandonStep ==
    ASSUME ProviderInv, NEW c \in ProviderRequests, Abandon(c)
    PROVE  AdvanceStep(c)
<1>1. /\ req[c].stage # "over" /\ EndRequest(c, "cancelled") /\ Forgotten(c)
      /\ UNCHANGED <<circuit, clientClosing>>
  BY DEF Abandon
<1>2. "cancelled" \in Results \ {"done"}
  BY DEF Results
<1> QED
  BY <1>1, <1>2, EndStep

(* Every step advances one request or leaves all of them alone.            *)
LEMMA ProviderNextCases ==
    ASSUME ProviderInv, ProviderNext
    PROVE  \/ \E c \in ProviderRequests : AdvanceStep(c)
           \/ /\ UNCHANGED <<req, sent, got>>
              /\ circuit' \in Breaker /\ circuit'.failures <= circuit.failures
              /\ clientClosing' \in BOOLEAN
<1>0. circuit \in Breaker /\ clientClosing \in BOOLEAN
  BY DEF ProviderInv, Breaker
<1>1. CASE CooldownPasses
  BY <1>0, <1>1, ProviderAssumption DEF CooldownPasses, Breaker
<1>2. CASE ReadinessCheck
  BY <1>0, <1>2, ProviderAssumption DEF ReadinessCheck, Looked, Breaker
<1>3. CASE CloseClient
  BY <1>0, <1>3, ProviderAssumption DEF CloseClient, Breaker
<1>4. ASSUME NEW c \in ProviderRequests,
             \/ \E kind \in IF c \in Streams THEN ProviderKinds ELSE {"none"} : BeginRequest(c, kind)
             \/ Connect(c) \/ Wake(c) \/ Abandon(c)
             \/ \E e \in {"retryable", "permanent"} : AttemptError(c, e) \/ SleepFails(c, e)
             \/ \E res \in {"done", "budget"} : WholeAnswer(c, res)
      PROVE  AdvanceStep(c)
  <2>1. CASE \E kind \in IF c \in Streams THEN ProviderKinds ELSE {"none"} : BeginRequest(c, kind)
    BY <2>1, BeginRequestStep
  <2>2. CASE Connect(c) \/ Wake(c) \/ Abandon(c)
    BY <2>2, ConnectStep, WakeStep, AbandonStep
  <2>3. ASSUME NEW e \in {"retryable", "permanent"}, AttemptError(c, e)
        PROVE  AdvanceStep(c)
    BY <2>3, AttemptFailsStep DEF AttemptError
  <2>4. ASSUME NEW e \in {"retryable", "permanent"}, SleepFails(c, e)
        PROVE  AdvanceStep(c)
    BY <2>4, FailureStep DEF SleepFails
  <2>5. CASE \E res \in {"done", "budget"} : WholeAnswer(c, res)
    BY <2>5, WholeAnswerStep
  <2> QED
    BY <1>4, <2>1, <2>2, <2>3, <2>4, <2>5
<1>5. ASSUME NEW c \in Streams,
             \/ \E f \in FramesOf(req[c].kind) : ReceiveFrame(c, f) \/ RefuseFrame(c, f)
             \/ EndOfStream(c) \/ ReleaseResponse(c) \/ ReleaseFails(c)
      PROVE  AdvanceStep(c)
  <2>0. c \in ProviderRequests
    BY DEF ProviderRequests
  <2>1. ASSUME NEW f \in FramesOf(req[c].kind), ReceiveFrame(c, f)
        PROVE  AdvanceStep(c)
    BY <2>1, ReceiveFrameStep
  <2>2. ASSUME NEW f \in FramesOf(req[c].kind), RefuseFrame(c, f)
        PROVE  AdvanceStep(c)
    BY <2>0, <2>2, AttemptFailsStep DEF RefuseFrame
  <2>3. CASE EndOfStream(c) \/ ReleaseResponse(c)
    BY <2>3, EndOfStreamStep, ReleaseResponseStep
  <2>4. CASE ReleaseFails(c)
    BY <2>0, <2>4, FailureStep DEF ReleaseFails
  <2>5. CASE \E f \in FramesOf(req[c].kind) : ReceiveFrame(c, f) \/ RefuseFrame(c, f)
    BY <2>1, <2>2, <2>5
  <2> QED
    BY <1>5, <2>3, <2>4, <2>5
<1>6. Streams \subseteq ProviderRequests
  BY DEF ProviderRequests
<1> QED
  BY <1>1, <1>2, <1>3, <1>4, <1>5, <1>6 DEF ProviderNext

-----------------------------------------------------------------------------
(* Providers: the theorems *)

(* What a decoder, a consumer and the breaker know of the requests.        *)
THEOREM ProviderInvariant == ProviderSpec => [](ProviderInv /\ CircuitInv)
<1>1. ProviderInit => ProviderInv
  <2> SUFFICES ASSUME ProviderInit
               PROVE  ProviderInv
    OBVIOUS
  <2>1. PICK made \in Workloads :
          req = [c \in ProviderRequests |-> IF c \in made THEN Unsent ELSE Unmade]
    BY DEF ProviderInit
  <2>2. /\ Unsent \in ProviderRequest /\ Unsent.stage = "idle" /\ Unsent.res = "none"
        /\ Unsent.dec = NewDecoder /\ Unsent.emitted = FALSE /\ Unsent.kind = "none"
    BY NewDecoderType, ProviderAssumption DEF Unsent, ProviderRequest, Results
  <2>3. /\ Unmade \in ProviderRequest /\ Unmade.stage = "over" /\ Unmade.res = "none"
    BY <2>2, StageTurns DEF Unmade, Turned, ProviderStages
  <2>4. \A c \in ProviderRequests : req[c] \in {Unsent, Unmade}
    BY <2>1
  <2>5. RequestOK(Unsent) /\ RequestOK(Unmade)
    BY <2>2, <2>3 DEF RequestOK
  <2>6. StreamOK(Unsent, << >>, {}) /\ StreamOK(Unmade, << >>, {})
    BY <2>2, <2>3, FramesBound DEF StreamOK
  <2>7. \A c \in Streams : c \in ProviderRequests /\ sent[c] = << >> /\ got[c] = {}
    BY DEF ProviderInit, ProviderRequests
  <2>8. \A c \in Streams : StreamOK(req[c], sent[c], got[c])
    BY <2>4, <2>6, <2>7
  <2>9. \A c \in ProviderRequests : RequestOK(req[c])
    BY <2>4, <2>5
  <2>10. circuit \in [failures : 0..FailureThreshold, state : {"closed", "open", "cooled"}]
    BY ProviderAssumption DEF ProviderInit
  <2>11. req = [c \in ProviderRequests |-> req[c]]
    BY <2>1
  <2> QED
    BY <2>8, <2>9, <2>10, <2>11 DEF ProviderInit, ProviderInv
<1>2. ProviderInit => CircuitInv
  <2> SUFFICES ASSUME ProviderInit
               PROVE  CircuitInv
    OBVIOUS
  <2>1. \A c \in ProviderRequests : req[c].res = "none"
    BY DEF ProviderInit, Unsent, Unmade
  <2>2. Failed = {}
    BY <2>1 DEF Failed
  <2>3. IsFiniteSet(Failed) /\ Cardinality(Failed) = 0
    BY <2>2, FS_EmptySet
  <2> QED
    BY <2>3 DEF CircuitInv, CircuitCountsFailures, Failed, ProviderInit
<1>3. ASSUME ProviderInv /\ CircuitInv, [ProviderNext]_providerVars
      PROVE  (ProviderInv /\ CircuitInv)'
  <2>1. CASE UNCHANGED providerVars
    <3>1. ProviderInv'
      BY <1>3, <2>1 DEF providerVars, ProviderInv
    <3>2. Failed' = Failed /\ circuit' = circuit
      BY <2>1 DEF providerVars, Failed
    <3>3. CircuitInv'
      BY <1>3, <3>2 DEF CircuitInv, CircuitCountsFailures, Failed
    <3> QED
      BY <3>1, <3>3
  <2>2. ASSUME NEW c \in ProviderRequests, AdvanceStep(c)
        PROVE  (ProviderInv /\ CircuitInv)'
    BY <1>3, <2>2, AdvanceKeepsInv, AdvanceCounts
  <2>3. CASE /\ UNCHANGED <<req, sent, got>>
             /\ circuit' \in Breaker /\ circuit'.failures <= circuit.failures
             /\ clientClosing' \in BOOLEAN
    <3>1. ProviderInv'
      BY <1>3, <2>3 DEF ProviderInv, Breaker
    <3>2. Failed' = Failed
      BY <2>3 DEF Failed
    <3>3. /\ IsFiniteSet(Failed) /\ Cardinality(Failed) \in Nat
          /\ circuit.failures <= Cardinality(Failed)
          /\ circuit.failures \in Nat /\ circuit'.failures \in Nat
      BY <1>3, <2>3, FS_CardinalityType, ProviderAssumption
         DEF CircuitInv, CircuitCountsFailures, Failed, ProviderInv, Breaker
    <3>4. circuit'.failures <= Cardinality(Failed')
      BY <2>3, <3>2, <3>3
    <3> QED
      BY <3>1, <3>2, <3>3, <3>4 DEF CircuitInv, CircuitCountsFailures, Failed
  <2> QED
    BY <1>3, <2>1, <2>2, <2>3, ProviderNextCases
<1> QED
  BY <1>1, <1>2, <1>3, PTL DEF ProviderSpec

(* A consumer that is told that its completion ended has all of one whole  *)
(* response of the provider, for streams of any length and any number of   *)
(* attempts: the decoders of _chat_completion_stream and _messages_stream  *)
(* accept no sequence of frames that is not whole, and no part of an       *)
(* abandoned attempt was given.                                            *)
THEOREM ResponsesAreWhole == ProviderSpec => []OneWholeResponse
<1>1. ProviderInv => OneWholeResponse
  <2> SUFFICES ASSUME ProviderInv, NEW c \in Streams
               PROVE  /\ \A g, h \in got[c] : g[1] = h[1]
                      /\ req[c].res = "done" =>
                           /\ Whole(req[c].kind, sent[c])
                           /\ \A i \in Payload(req[c].kind, sent[c]) : <<req[c].try, i>> \in got[c]
    BY DEF OneWholeResponse
  <2>1. StreamOK(req[c], sent[c], got[c])
    BY DEF ProviderInv
  <2>2. \A g, h \in got[c] : g[1] = h[1]
    BY <2>1 DEF StreamOK
  <2> QED
    BY <2>1, <2>2 DEF StreamOK, AllGiven
<1> QED
  BY <1>1, ProviderInvariant, PTL

(* The circuit breaker never counts more failures than requests ended with *)
(* a retryable error of the provider, whatever is cancelled, refused or    *)
(* out of budget, however many requests there are.                         *)
THEOREM BreakerCountsFailures == ProviderSpec => []CircuitCountsFailures
<1>1. CircuitInv => CircuitCountsFailures
  BY DEF CircuitInv
<1> QED
  BY <1>1, ProviderInvariant, PTL
==============================================================================
