----------------------------- MODULE LeaseProofs -----------------------------
(***************************************************************************)
(* Proofs about ConversationLease for any number of turns and any times    *)
(* with OpTimeout < Interval.                                              *)
(*                                                                         *)
(* The heart is an accounting of time: what is left of the lease in Redis  *)
(* always exceeds what is left until its turn must have renewed it or      *)
(* stopped.  A grant that is learnt late has aged by at most one operation *)
(* timeout, and a renewal starts with one operation timeout to spare.      *)
(***************************************************************************)
EXTENDS ConversationLease, FiniteSetTheorems, TLAPS

(* What holds of a turn t in state x, with the commands w on the wire and  *)
(* the key k.                                                              *)
TurnFits(x, t, w, k) ==
    /\ x.stage \in {"idle", "done"} => x.call = "none"
    /\ x.stage = "acquire" => x.call # "none"
    /\ x.call # "none" => x.timer <= OpTimeout
    /\ x.call = "backoff" => x.tries < MaxTries
    /\ x.stage = "idle" => k.owner # t /\ \A c \in Commands : <<c, t>> \notin w
    /\ <<"release", t>> \in w => x.stage \in {"release", "done"}
    /\ x.stage = "acquire" /\ k.owner = t => k.left + OpTimeout >= Ttl + x.timer
    /\ x.stage = "acquire" /\ x.call = "answered" /\ x.res => k.owner = t
    /\ x.stage = "work" =>
          /\ k.owner = t
          /\ x.call = "none" => k.left > x.timer + OpTimeout
          /\ x.call # "none" => k.left > x.timer
          /\ x.call = "answered" => x.res /\ k.left + OpTimeout >= Ttl + x.timer

TurnInv(t) == TurnFits(turn[t], t, wire, key)

Probing(t) == InFlight(t) /\ turn[t].fresh

(* The probe of the breaker and the calls of the present generation.       *)
ProbeInv ==
    /\ breaker.state = "closed" => breaker.failures < Threshold
    /\ breaker.state = "open" => ~breaker.probe
    /\ breaker.state # "closed" =>
          /\ breaker.probe => \E t \in Turns : Probing(t)
          /\ \A t \in Turns : Probing(t) => breaker.probe
          /\ \A t, u \in Turns : Probing(t) /\ Probing(u) => t = u

LeaseInv == LeaseTypeOK /\ (\A t \in Turns : TurnInv(t)) /\ ProbeInv

-----------------------------------------------------------------------------
(* The values that turns and the breaker take *)

LEMMA TurnRecords ==
    ASSUME NEW stage \in {"idle", "acquire", "work", "release", "done"},
           NEW call \in {"none", "sent", "answered", "backoff"}, NEW res \in BOOLEAN,
           NEW timer \in 0..Interval, NEW tries \in 0..MaxTries, NEW fresh \in BOOLEAN
    PROVE  [stage |-> stage, call |-> call, res |-> res, timer |-> timer,
            tries |-> tries, fresh |-> fresh] \in Turn
BY Zenon DEF Turn

LEMMA TurnFields ==
    ASSUME NEW x \in Turn
    PROVE  /\ x.stage \in {"idle", "acquire", "work", "release", "done"}
           /\ x.call \in {"none", "sent", "answered", "backoff"}
           /\ x.res \in BOOLEAN /\ x.timer \in 0..Interval /\ x.tries \in 0..MaxTries
           /\ x.fresh \in BOOLEAN
           /\ x = [stage |-> x.stage, call |-> x.call, res |-> x.res, timer |-> x.timer,
                   tries |-> x.tries, fresh |-> x.fresh]
BY Zenon DEF Turn

(* The forms in which a turn changes.                                      *)
LEMMA TurnChanges ==
    ASSUME NEW x \in Turn, NEW v \in 0..Interval, NEW n \in 0..MaxTries, NEW res \in BOOLEAN,
           NEW s \in {"idle", "acquire", "work", "release", "done"}
    PROVE  /\ [x EXCEPT !.fresh = FALSE] \in Turn
           /\ [x EXCEPT !.timer = v] \in Turn
           /\ [x EXCEPT !.call = "answered", !.res = res] \in Turn
           /\ [x EXCEPT !.call = "backoff", !.res = FALSE] \in Turn
           /\ [x EXCEPT !.call = "sent", !.tries = n] \in Turn
           /\ [x EXCEPT !.stage = s] \in Turn
           /\ [x EXCEPT !.stage = s, !.timer = v] \in Turn
           /\ [x EXCEPT !.stage = s, !.call = "sent", !.timer = v, !.tries = n, !.fresh = TRUE] \in Turn
BY Zenon DEF Turn

(* The fields of a turn that changed.                                      *)
LEMMA TurnChanged ==
    ASSUME NEW x \in Turn, NEW v, NEW n, NEW res, NEW s
    PROVE  /\ LET y == [x EXCEPT !.fresh = FALSE]
              IN  /\ y.stage = x.stage /\ y.call = x.call /\ y.res = x.res
                  /\ y.timer = x.timer /\ y.tries = x.tries /\ y.fresh = FALSE
           /\ LET y == [x EXCEPT !.timer = v]
              IN  /\ y.stage = x.stage /\ y.call = x.call /\ y.res = x.res
                  /\ y.timer = v /\ y.tries = x.tries /\ y.fresh = x.fresh
           /\ LET y == [x EXCEPT !.call = "answered", !.res = res]
              IN  /\ y.stage = x.stage /\ y.call = "answered" /\ y.res = res
                  /\ y.timer = x.timer /\ y.tries = x.tries /\ y.fresh = x.fresh
           /\ LET y == [x EXCEPT !.call = "backoff", !.res = FALSE]
              IN  /\ y.stage = x.stage /\ y.call = "backoff" /\ y.res = FALSE
                  /\ y.timer = x.timer /\ y.tries = x.tries /\ y.fresh = x.fresh
           /\ LET y == [x EXCEPT !.call = "sent", !.tries = n]
              IN  /\ y.stage = x.stage /\ y.call = "sent" /\ y.res = x.res
                  /\ y.timer = x.timer /\ y.tries = n /\ y.fresh = x.fresh
           /\ LET y == [x EXCEPT !.stage = s, !.call = "sent", !.timer = v, !.tries = n, !.fresh = TRUE]
              IN  /\ y.stage = s /\ y.call = "sent" /\ y.res = x.res
                  /\ y.timer = v /\ y.tries = n /\ y.fresh = TRUE
BY Zenon DEF Turn

LEMMA Constants ==
    /\ Interval \in Nat /\ OpTimeout \in Nat /\ MaxTries \in Nat /\ Threshold \in Nat /\ Cooldown \in Nat
    /\ Ttl \in Nat /\ Ttl = 3 * Interval
    /\ 0 < OpTimeout /\ OpTimeout < Interval /\ 0 < MaxTries /\ 0 < Threshold
    /\ 0 \in 0..Interval /\ Interval \in 0..Interval /\ OpTimeout \in 0..Interval
    /\ 0 \in 0..MaxTries /\ 1 \in 0..MaxTries
    /\ 0 \in 0..Threshold /\ 0 \in 0..Cooldown /\ Cooldown \in 0..Cooldown
    /\ Ttl \in 1..Ttl
BY LeaseAssumption DEF Ttl

LEMMA TurnValues ==
    ASSUME LeaseTypeOK, NEW t \in Turns
    PROVE  /\ turn[t] \in Turn /\ NoTurn \in Turn /\ Over \in Turn /\ Raised(t) \in Turn
           /\ Generating(t) \in Turn
           /\ \A s \in {"acquire", "work", "release"} : Sent(t, s) \in Turn
<1>1. turn[t] \in Turn
  BY DEF LeaseTypeOK
<1>2. NoTurn \in Turn
  BY Constants, TurnRecords DEF NoTurn
<1>3. Over \in Turn /\ [NoTurn EXCEPT !.stage = "release"] \in Turn /\ Generating(t) \in Turn
  BY <1>2, Constants, TurnChanges DEF Over, Generating
<1>4. \A s \in {"acquire", "work", "release"} : Sent(t, s) \in Turn
  BY <1>1, Constants, TurnChanges DEF Sent
<1> QED
  BY <1>1, <1>2, <1>3, <1>4 DEF Raised

-----------------------------------------------------------------------------
(* Time left *)

LEMMA KeyFields ==
    ASSUME LeaseTypeOK
    PROVE  /\ key = NoLease \/ (key.owner \in Turns /\ key.left \in 1..Ttl)
           /\ key.left \in Nat /\ key.left <= Ttl
           /\ \A t \in Turns : key.owner = t => key # NoLease
BY Constants, LeaseAssumption DEF LeaseTypeOK, NoLease

(* Whoever stops, or never began, fits.                                    *)
LEMMA RaisedFits ==
    ASSUME NEW t \in Turns, NEW w, NEW k
    PROVE  TurnFits(Raised(t), t, w, k) /\ TurnFits(Over, t, w, k)
BY DEF TurnFits, Raised, Over, NoTurn

(* A grant that has aged by less than an operation timeout is enough to    *)
(* generate until the next heartbeat, and for its call.                    *)
LEMMA GeneratingFits ==
    ASSUME NEW t \in Turns, NEW w, NEW k, <<"release", t>> \notin w,
           NEW timer \in Nat, k.left \in Nat, k.owner = t, k.left + OpTimeout >= Ttl + timer
    PROVE  TurnFits(Generating(t), t, w, k)
<1>1. Generating(t).stage = "work" /\ Generating(t).call = "none" /\ Generating(t).timer = Interval
  BY DEF Generating, NoTurn
<1>2. k.left > Interval + OpTimeout
  BY Constants
<1> QED
  BY <1>1, <1>2 DEF TurnFits

(* A turn that does not move is not disturbed by what others put on the    *)
(* wire.                                                                   *)
LEMMA OtherFits ==
    ASSUME NEW u \in Turns, NEW t, t # u, NEW x, NEW c, NEW w, NEW v, NEW k,
           TurnFits(x, u, w, k), v \subseteq w \cup {<<c, t>>}
    PROVE  TurnFits(x, u, v, k)
BY DEF TurnFits

(* The generation of a call plays no part.                                 *)
LEMMA AgedFits ==
    ASSUME NEW x \in Turn, NEW t, NEW w, NEW k, TurnFits(x, t, w, k)
    PROVE  TurnFits([x EXCEPT !.fresh = FALSE], t, w, k)
<1> DEFINE y == [x EXCEPT !.fresh = FALSE]
<1>1. y.stage = x.stage /\ y.call = x.call /\ y.res = x.res /\ y.timer = x.timer /\ y.tries = x.tries
  BY TurnChanged
<1> HIDE DEF y
<1> QED
  BY <1>1 DEF TurnFits

LEMMA CommandOnWire ==
    ASSUME LeaseTypeOK, NEW t \in Turns, TurnInv(t), InFlight(t)
    PROVE  /\ turn[t].stage \in {"acquire", "work", "release"}
           /\ Command(t) \in Commands
           /\ Command(t) = "release" <=> turn[t].stage = "release"
           /\ Command(t) = "acquire" <=> turn[t].stage = "acquire"
<1>1. turn[t].stage \in {"idle", "acquire", "work", "release", "done"}
  BY TurnFields DEF LeaseTypeOK
<1>2. turn[t].stage \in {"acquire", "work", "release"}
  BY <1>1 DEF TurnInv, TurnFits, InFlight
<1> QED
  BY <1>2 DEF Command, Commands

(* A step of one turn that leaves the key alone.                           *)
LEMMA TurnMoves ==
    ASSUME LeaseTypeOK, \A u \in Turns : TurnInv(u), NEW t \in Turns, NEW X \in Turn,
           \/ turn' = [turn EXCEPT ![t] = X]
           \/ turn' = Aged([turn EXCEPT ![t] = X]),
           UNCHANGED key, wire' = wire \/ (InFlight(t) /\ wire' = wire \cup {<<Command(t), t>>}),
           TurnFits(X, t, wire', key)
    PROVE  /\ turn' \in [Turns -> Turn] /\ wire' \subseteq Commands \X Turns
           /\ \A u \in Turns : TurnInv(u)'
<1> DEFINE T == [turn EXCEPT ![t] = X]
<1>1. T \in [Turns -> Turn] /\ T[t] = X /\ \A u \in Turns : u # t => T[u] = turn[u]
  BY DEF LeaseTypeOK
<1>2. wire' \subseteq Commands \X Turns
  BY CommandOnWire DEF LeaseTypeOK
<1>3. ASSUME NEW u \in Turns
      PROVE  TurnFits(T[u], u, wire', key')
  <2>1. CASE u = t
    BY <1>1, <2>1
  <2>2. CASE u # t
    <3>1. T[u] = turn[u] /\ wire' \subseteq wire \cup {<<Command(t), t>>} /\ TurnInv(u)
      BY <1>1, <2>2
    <3> QED
      BY <2>2, <3>1, OtherFits DEF TurnInv
  <2> QED
    BY <2>1, <2>2
<1> HIDE DEF T
<1>4. CASE turn' = T
  BY <1>1, <1>2, <1>3, <1>4 DEF TurnInv
<1>5. CASE turn' = Aged(T)
  <2>1. ASSUME NEW u \in Turns
        PROVE  turn'[u] = [T[u] EXCEPT !.fresh = FALSE] /\ turn'[u] \in Turn
    <3>1. turn'[u] = [T[u] EXCEPT !.fresh = FALSE] /\ T[u] \in Turn
      BY <1>1, <1>5 DEF Aged
    <3> QED
      BY <3>1, Constants, TurnChanges
  <2>2. turn' \in [Turns -> Turn]
    BY <1>5, <2>1 DEF Aged
  <2>3. ASSUME NEW u \in Turns PROVE TurnInv(u)'
    <3>1. TurnFits([T[u] EXCEPT !.fresh = FALSE], u, wire', key')
      BY <1>1, <1>3, AgedFits
    <3> QED
      BY <2>1, <3>1 DEF TurnInv
  <2> QED
    BY <1>2, <2>2, <2>3
<1> QED
  BY <1>4, <1>5 DEF T

(* What a command does to the key suits every turn.                        *)
LEMMA AppliedFits ==
    ASSUME LeaseTypeOK, \A u \in Turns : TurnInv(u), NEW c \in Commands, NEW o \in Turns,
           turn[o].stage # "idle",
           c = "release" => turn[o].stage \in {"release", "done"}
    PROVE  /\ Applied(c, o) \in [owner : Turns, left : 1..Ttl] \cup {NoLease}
           /\ \A u \in Turns : TurnFits(turn[u], u, wire, Applied(c, o))
<1>1. \A u \in Turns : TurnFits(turn[u], u, wire, key) /\ turn[u].timer \in Nat
  BY TurnFields, Constants DEF TurnInv, LeaseTypeOK
<1>2. CASE Applied(c, o) = key
  BY <1>1, <1>2 DEF LeaseTypeOK
<1>3. CASE c = "acquire" /\ key = NoLease
  <2> DEFINE k == [owner |-> o, left |-> Ttl]
  <2>1. Applied(c, o) = k /\ k.owner = o /\ k.left = Ttl
    BY <1>3 DEF Applied
  <2>2. k \in [owner : Turns, left : 1..Ttl]
    BY Constants
  <2>3. \A u \in Turns : key.owner # u
    BY <1>3, LeaseAssumption DEF NoLease
  <2> HIDE DEF k
  <2>4. ASSUME NEW u \in Turns PROVE TurnFits(turn[u], u, wire, k)
    <3>1. TurnFits(turn[u], u, wire, key) /\ turn[u].timer \in Nat /\ key.owner # u
      BY <1>1, <2>3
    <3> QED
      BY <2>1, <3>1, Constants DEF TurnFits
  <2> QED
    BY <2>1, <2>2, <2>4
<1>4. CASE c = "renew" /\ key.owner = o
  <2> DEFINE k == [key EXCEPT !.left = Ttl]
  <2>1. key \in [owner : Turns, left : 1..Ttl] /\ key.left \in Nat /\ key.left <= Ttl
    BY <1>4, KeyFields DEF LeaseTypeOK
  <2>2. Applied(c, o) = k
    BY <1>4 DEF Applied
  <2>3. k.owner = o /\ k.left = Ttl /\ k \in [owner : Turns, left : 1..Ttl]
    BY <1>4, <2>1, Constants
  <2> HIDE DEF k
  <2>4. ASSUME NEW u \in Turns PROVE TurnFits(turn[u], u, wire, k)
    <3>1. TurnFits(turn[u], u, wire, key) /\ turn[u].timer \in Nat
      BY <1>1
    <3> QED
      BY <1>4, <2>1, <2>3, <3>1, Constants DEF TurnFits
  <2> QED
    BY <2>2, <2>3, <2>4
<1>5. CASE c = "release" /\ key.owner = o
  <2>1. Applied(c, o) = NoLease
    BY <1>5 DEF Applied
  <2>2. ASSUME NEW u \in Turns PROVE TurnFits(turn[u], u, wire, NoLease)
    <3>1. TurnFits(turn[u], u, wire, key) /\ NoLease.owner # u
      BY <1>1, LeaseAssumption DEF NoLease
    <3> QED
      BY <1>5, <3>1 DEF TurnFits
  <2> QED
    BY <2>1, <2>2
<1> QED
  BY <1>2, <1>3, <1>4, <1>5 DEF Applied, Commands

(* Redis runs a command, in time or late.                                  *)
LEMMA ExecuteKeeps ==
    ASSUME LeaseTypeOK, \A u \in Turns : TurnInv(u), NEW t \in Turns, Execute(t)
    PROVE  /\ key' \in [owner : Turns, left : 1..Ttl] \cup {NoLease}
           /\ turn' \in [Turns -> Turn]
           /\ \A u \in Turns : TurnInv(u)'
<1> DEFINE x == [turn[t] EXCEPT !.call = "answered", !.res = Answer(Command(t), t)]
<1>1. InFlight(t) /\ turn[t] \in Turn /\ turn[t].call = "sent"
  BY DEF Execute, InFlight, LeaseTypeOK
<1>2. /\ turn[t].stage \in {"acquire", "work", "release"} /\ Command(t) \in Commands
      /\ Command(t) = "release" <=> turn[t].stage = "release"
      /\ Command(t) = "acquire" <=> turn[t].stage = "acquire"
  BY <1>1, CommandOnWire
<1>3. turn' = [turn EXCEPT ![t] = x]
  BY DEF Execute
<1>4. key' = Applied(Command(t), t) /\ wire' = wire
  BY DEF Execute
<1>5. Answer(Command(t), t) \in BOOLEAN
  BY DEF Answer
<1>6. x \in Turn
  BY <1>1, <1>5, Constants, TurnChanges
<1>7. /\ x.stage = turn[t].stage /\ x.call = "answered" /\ x.res = Answer(Command(t), t)
      /\ x.timer = turn[t].timer /\ x.tries = turn[t].tries
  BY <1>1, TurnChanged
<1> HIDE DEF x
<1>8. turn' \in [Turns -> Turn] /\ turn'[t] = x /\ \A u \in Turns : u # t => turn'[u] = turn[u]
  BY <1>3, <1>6 DEF LeaseTypeOK
<1>9. /\ key' \in [owner : Turns, left : 1..Ttl] \cup {NoLease}
      /\ \A u \in Turns : TurnFits(turn[u], u, wire, key')
  BY <1>2, <1>4, AppliedFits
<1>10. TurnFits(x, t, wire, key')
  <2>1. TurnFits(turn[t], t, wire, key') /\ turn[t].timer \in Nat /\ turn[t].timer <= OpTimeout
    BY <1>1, <1>9, TurnFields, Constants DEF TurnFits
  <2>2. CASE turn[t].stage = "acquire"
    <3>1. Answer(Command(t), t) => key'.owner = t
      BY <1>2, <1>4, <2>2 DEF Answer, Applied
    <3> QED
      BY <1>7, <2>1, <2>2, <3>1 DEF TurnFits
  <2>3. CASE turn[t].stage = "work"
    <3>1. key.owner = t /\ key # NoLease
      BY <2>3, KeyFields DEF TurnInv, TurnFits
    <3>2. Command(t) = "renew"
      BY <2>3 DEF Command
    <3>3. Answer(Command(t), t) /\ key' = [key EXCEPT !.left = Ttl]
      BY <1>4, <3>1, <3>2 DEF Answer, Applied
    <3>4. key'.left = Ttl
      BY <3>1, <3>3 DEF LeaseTypeOK
    <3> QED
      BY <1>1, <1>7, <2>1, <2>3, <3>3, <3>4, Constants DEF TurnFits
  <2>4. CASE turn[t].stage = "release"
    BY <1>7, <2>1, <2>4 DEF TurnFits
  <2> QED
    BY <1>2, <2>2, <2>3, <2>4
<1> QED
  BY <1>4, <1>8, <1>9, <1>10 DEF TurnInv

LEMMA LateCommandKeeps ==
    ASSUME LeaseTypeOK, \A u \in Turns : TurnInv(u), NEW c \in wire, LateCommand(c)
    PROVE  /\ key' \in [owner : Turns, left : 1..Ttl] \cup {NoLease}
           /\ wire' \subseteq Commands \X Turns
           /\ \A u \in Turns : TurnInv(u)'
<1>1. c \in Commands \X Turns /\ c = <<c[1], c[2]>> /\ c[1] \in Commands /\ c[2] \in Turns
  BY DEF LeaseTypeOK
<1>2. turn[c[2]].stage # "idle" /\ (c[1] = "release" => turn[c[2]].stage \in {"release", "done"})
  BY <1>1 DEF TurnInv, TurnFits
<1>3. wire' \subseteq wire /\ turn' = turn
  BY DEF LateCommand
<1>4. /\ key' \in [owner : Turns, left : 1..Ttl] \cup {NoLease}
      /\ \A u \in Turns : TurnFits(turn[u], u, wire, key')
  <2>1. CASE key' = key
    BY <2>1 DEF TurnInv, LeaseTypeOK
  <2>2. CASE key' = Applied(c[1], c[2])
    BY <1>1, <1>2, <2>2, AppliedFits
  <2> QED
    BY <2>1, <2>2 DEF LateCommand
<1>5. ASSUME NEW u \in Turns PROVE TurnInv(u)'
  BY <1>3, <1>4 DEF TurnInv, TurnFits
<1> QED
  BY <1>3, <1>4, <1>5 DEF LeaseTypeOK

(* Time passes for the lease and for the turns alike, and no deadline is   *)
(* passed.                                                                 *)
LEMMA TickKeeps ==
    ASSUME LeaseTypeOK, \A u \in Turns : TurnInv(u), Tick
    PROVE  /\ key' \in [owner : Turns, left : 1..Ttl] \cup {NoLease}
           /\ turn' \in [Turns -> Turn]
           /\ \A u \in Turns : TurnInv(u)'
<1>1. ASSUME key # NoLease, key.left > 1
      PROVE  /\ key' \in [owner : Turns, left : 1..Ttl]
             /\ key'.owner = key.owner /\ key'.left = key.left - 1
  BY <1>1, Constants DEF LeaseTypeOK, Tick
<1>2. key' = NoLease \/ (key # NoLease /\ key.left > 1)
  BY DEF Tick, NoLease
<1>3. ASSUME NEW u \in Turns
      PROVE  /\ turn'[u] \in Turn
             /\ turn'[u].stage = turn[u].stage /\ turn'[u].call = turn[u].call
             /\ turn'[u].res = turn[u].res /\ turn'[u].tries = turn[u].tries
             /\ turn'[u].timer = IF turn[u].timer > 0 THEN turn[u].timer - 1 ELSE turn[u].timer
  <2>1. turn[u] \in Turn /\ turn[u].timer \in 0..Interval
    BY TurnFields DEF LeaseTypeOK
  <2>2. CASE turn[u].timer > 0
    <3>1. turn'[u] = [turn[u] EXCEPT !.timer = turn[u].timer - 1]
      BY <2>2 DEF Tick
    <3>2. turn[u].timer - 1 \in 0..Interval
      BY <2>1, <2>2, Constants
    <3>3. turn'[u] \in Turn
      BY <2>1, <3>1, <3>2, Constants, TurnChanges
    <3> QED
      BY <2>1, <2>2, <3>1, <3>3, TurnChanged
  <2>3. CASE ~(turn[u].timer > 0)
    BY <2>1, <2>3 DEF Tick
  <2> QED
    BY <2>2, <2>3
<1>4. ASSUME NEW u \in Turns PROVE TurnInv(u)'
  <2>1. TurnFits(turn[u], u, wire, key) /\ turn[u].timer \in Nat /\ wire' = wire
    BY TurnFields, Constants DEF TurnInv, LeaseTypeOK, Tick
  <2>2. turn[u].call # "none" \/ turn[u].stage = "work" => turn[u].timer > 0
    BY DEF Tick, Timely, InFlight
  <2>3. key.left \in Nat
    BY KeyFields
  <2>4. CASE key' = NoLease /\ (key = NoLease \/ ~(key.left > 1))
    <3>1. NoLease.owner # u
      BY LeaseAssumption DEF NoLease
    <3>2. turn[u].stage # "work"
      BY <2>1, <2>2, <2>3, <2>4, KeyFields, Constants DEF TurnFits
    <3>3. ~(turn[u].stage = "acquire" /\ key.owner = u)
      BY <2>1, <2>2, <2>3, <2>4, KeyFields, Constants DEF TurnFits
    <3> QED
      BY <1>3, <2>1, <2>2, <2>4, <3>1, <3>2, <3>3, Constants DEF TurnFits, TurnInv
  <2>5. CASE key # NoLease /\ key.left > 1
    <3>1. key'.owner = key.owner /\ key'.left = key.left - 1
      BY <1>1, <2>5
    <3> QED
      BY <1>3, <2>1, <2>2, <2>3, <3>1, Constants DEF TurnFits, TurnInv
  <2> QED
    BY <1>2, <2>4, <2>5 DEF Tick
<1>5. turn' \in [Turns -> Turn]
  BY <1>3 DEF Tick
<1> QED
  BY <1>1, <1>2, <1>4, <1>5

(* The steps of a turn other than an execution by Redis.                   *)
Moves(t) ==
    \/ BeginCall(t) \/ StartRenew(t) \/ Receive(t) \/ FailAttempt(t) \/ RetryCall(t)
    \/ ReconcileAcquire(t) \/ RaiseInternal(t) \/ EndTurn(t)

LEMMA MovesKeep ==
    ASSUME LeaseTypeOK, \A u \in Turns : TurnInv(u), NEW t \in Turns, Moves(t)
    PROVE  /\ UNCHANGED key
           /\ turn' \in [Turns -> Turn] /\ wire' \subseteq Commands \X Turns
           /\ \A u \in Turns : TurnInv(u)'
<1> DEFINE Kept == /\ turn' \in [Turns -> Turn] /\ wire' \subseteq Commands \X Turns
                   /\ \A u \in Turns : TurnInv(u)'
<1>1. UNCHANGED key
  BY DEF Moves, BeginCall, StartRenew, Receive, FailAttempt, RetryCall, ReconcileAcquire, RaiseInternal, EndTurn
<1>2. /\ TurnFits(turn[t], t, wire, key) /\ turn[t] \in Turn /\ turn[t].timer \in Nat
      /\ turn[t].tries \in Nat /\ key.left \in Nat
      /\ turn[t].stage \in {"idle", "acquire", "work", "release", "done"}
  BY TurnFields, KeyFields, Constants DEF TurnInv, LeaseTypeOK
<1>3. ASSUME NEW w, w \in Abandoned(t)
      PROVE  w = wire \/ (InFlight(t) /\ w = wire \cup {<<Command(t), t>>})
  BY <1>3 DEF Abandoned, InFlight
<1>4. ASSUME \/ turn' = [turn EXCEPT ![t] = Raised(t)] \/ turn' = Aged([turn EXCEPT ![t] = Raised(t)])
             \/ turn' = [turn EXCEPT ![t] = Over],
             wire' = wire \/ wire' \in Abandoned(t)
      PROVE  Kept
  <2>1. wire' = wire \/ (InFlight(t) /\ wire' = wire \cup {<<Command(t), t>>})
    BY <1>3, <1>4
  <2> QED
    BY <1>1, <1>4, <2>1, RaisedFits, TurnValues, TurnMoves
<1>5. ASSUME NEW res, turn' = [turn EXCEPT ![t] = AfterAnswer(t, res)]
                      \/ turn' = Aged([turn EXCEPT ![t] = AfterAnswer(t, res)]),
             wire' = wire, InFlight(t),
             res => turn[t].stage = "release" \/ (key.owner = t /\ key.left + OpTimeout >= Ttl + turn[t].timer)
      PROVE  Kept
  <2>1. CASE res /\ turn[t].stage # "release"
    <3>1. AfterAnswer(t, res) = Generating(t)
      BY <2>1 DEF AfterAnswer
    <3>2. <<"release", t>> \notin wire
      BY <1>2, <1>5, <2>1 DEF TurnFits, InFlight
    <3>3. TurnFits(Generating(t), t, wire, key)
      BY <1>2, <1>5, <2>1, <3>2, GeneratingFits
    <3> QED
      BY <1>1, <1>5, <3>1, <3>3, TurnValues, TurnMoves
  <2>2. CASE ~(res /\ turn[t].stage # "release")
    <3>1. AfterAnswer(t, res) = Raised(t)
      BY <2>2 DEF AfterAnswer
    <3> QED
      BY <1>4, <1>5, <3>1
  <2> QED
    BY <2>1, <2>2
<1>6. ASSUME NEW s \in {"acquire", "work", "release"}, turn' = [turn EXCEPT ![t] = Sent(t, s)], wire' = wire,
             s = "acquire" => turn[t].stage = "idle",
             s = "release" => turn[t].stage = "release",
             s = "work" => turn[t].stage = "work" /\ turn[t].call = "none"
      PROVE  Kept
  <2>1. /\ Sent(t, s).stage = s /\ Sent(t, s).call = "sent"
        /\ Sent(t, s).timer = OpTimeout /\ Sent(t, s).tries = 1
    BY <1>2, TurnChanged DEF Sent
  <2>2. TurnFits(Sent(t, s), t, wire, key)
    BY <1>2, <1>6, <2>1, Constants DEF TurnFits, Commands
  <2> QED
    BY <1>1, <1>6, <2>2, TurnValues, TurnMoves
<1>7. CASE BeginCall(t)
  <2>1. wire' = wire
    BY <1>7 DEF BeginCall
  <2>2. CASE turn' = [turn EXCEPT ![t] = Over]
    BY <1>1, <1>4, <2>1, <2>2
  <2>3. CASE turn' # [turn EXCEPT ![t] = Over]
    <3>1. \/ turn[t].stage = "idle" /\ turn' = [turn EXCEPT ![t] = Sent(t, "acquire")]
          \/ turn[t].stage = "release" /\ turn' = [turn EXCEPT ![t] = Sent(t, "release")]
      BY <1>7, <2>3 DEF BeginCall
    <3> QED
      BY <1>1, <1>6, <2>1, <3>1
  <2> QED
    BY <2>2, <2>3
<1>8. CASE StartRenew(t)
  BY <1>1, <1>4, <1>6, <1>8 DEF StartRenew, InFlight
<1>9. CASE Receive(t)
  <2>1. InFlight(t) /\ turn[t].call = "answered" /\ wire' = wire
    BY <1>9 DEF Receive, InFlight
  <2>2. \/ turn' = [turn EXCEPT ![t] = AfterAnswer(t, turn[t].res)]
        \/ turn' = Aged([turn EXCEPT ![t] = AfterAnswer(t, turn[t].res)])
    BY <1>9 DEF Receive, Succeeds
  <2>3. turn[t].res => turn[t].stage = "release" \/ (key.owner = t /\ key.left + OpTimeout >= Ttl + turn[t].timer)
    BY <1>2, <2>1 DEF TurnFits
  <2> QED
    BY <1>1, <1>5, <2>1, <2>2, <2>3
<1>10. CASE FailAttempt(t)
  <2>1. wire' \in Abandoned(t) /\ turn[t].call # "none"
    BY <1>10 DEF FailAttempt
  <2>2. CASE turn' = [turn EXCEPT ![t] = Raised(t)] \/ turn' = Aged([turn EXCEPT ![t] = Raised(t)])
    BY <1>1, <1>4, <2>1, <2>2
  <2>3. CASE turn' = [turn EXCEPT ![t].call = "backoff", ![t].res = FALSE]
             /\ turn[t].tries < MaxTries /\ turn[t].stage # "release"
    <3> DEFINE X == [turn[t] EXCEPT !.call = "backoff", !.res = FALSE]
    <3>1. turn' = [turn EXCEPT ![t] = X]
      BY <2>3
    <3>2. X \in Turn
      BY <1>2, Constants, TurnChanges
    <3>3. /\ X.stage = turn[t].stage /\ X.call = "backoff" /\ X.res = FALSE
          /\ X.timer = turn[t].timer /\ X.tries = turn[t].tries
      BY <1>2, TurnChanged
    <3> HIDE DEF X
    <3>4. wire' = wire \/ (InFlight(t) /\ wire' = wire \cup {<<Command(t), t>>})
      BY <1>3, <2>1
    <3>5. <<"release", t>> \notin wire'
      BY <1>2, <2>1, <2>3, <3>4, CommandOnWire DEF TurnFits
    <3>6. TurnFits(X, t, wire', key)
      BY <1>2, <2>1, <2>3, <3>3, <3>5, Constants DEF TurnFits
    <3> QED
      BY <1>1, <3>1, <3>2, <3>4, <3>6, TurnMoves
  <2> QED
    BY <1>10, <2>2, <2>3 DEF FailAttempt, Fails
<1>11. CASE RetryCall(t)
  <2>1. wire' = wire /\ turn[t].call = "backoff"
    BY <1>11 DEF RetryCall
  <2>2. CASE turn' = [turn EXCEPT ![t] = Raised(t)] \/ turn' = Aged([turn EXCEPT ![t] = Raised(t)])
    BY <1>1, <1>4, <2>1, <2>2
  <2>3. CASE turn' = [turn EXCEPT ![t].call = "sent", ![t].tries = @ + 1]
    <3> DEFINE X == [turn[t] EXCEPT !.call = "sent", !.tries = turn[t].tries + 1]
    <3>1. turn' = [turn EXCEPT ![t] = X]
      BY <2>3
    <3>2. turn[t].tries + 1 \in 0..MaxTries
      BY <1>2, <2>1, Constants DEF TurnFits
    <3>3. X \in Turn
      BY <1>2, <3>2, Constants, TurnChanges
    <3>4. X.stage = turn[t].stage /\ X.call = "sent" /\ X.res = turn[t].res /\ X.timer = turn[t].timer
      BY <1>2, TurnChanged
    <3> HIDE DEF X
    <3>5. TurnFits(X, t, wire, key)
      BY <1>2, <2>1, <3>4 DEF TurnFits
    <3> QED
      BY <1>1, <2>1, <3>1, <3>3, <3>5, TurnMoves
  <2> QED
    BY <1>11, <2>2, <2>3 DEF RetryCall, Fails
<1>12. CASE ReconcileAcquire(t)
  <2>1. InFlight(t) /\ turn[t].stage = "acquire" /\ wire' = wire
    BY <1>12 DEF ReconcileAcquire, InFlight
  <2>2. \/ turn' = [turn EXCEPT ![t] = AfterAnswer(t, key.owner = t)]
        \/ turn' = Aged([turn EXCEPT ![t] = AfterAnswer(t, key.owner = t)])
    BY <1>12 DEF ReconcileAcquire, Succeeds
  <2>3. key.owner = t => key.left + OpTimeout >= Ttl + turn[t].timer
    BY <1>2, <2>1 DEF TurnFits
  <2>4. CASE key.owner = t
    BY <1>1, <1>5, <2>1, <2>2, <2>3, <2>4
  <2>5. CASE key.owner # t
    <3>1. AfterAnswer(t, key.owner = t) = Raised(t)
      BY <2>5 DEF AfterAnswer
    <3> QED
      BY <1>1, <1>4, <2>1, <2>2, <3>1
  <2> QED
    BY <2>4, <2>5
<1>13. CASE RaiseInternal(t)
  BY <1>1, <1>4, <1>13 DEF RaiseInternal
<1>14. CASE EndTurn(t)
  BY <1>1, <1>4, <1>14 DEF EndTurn
<1> QED
  BY <1>7, <1>8, <1>9, <1>10, <1>11, <1>12, <1>13, <1>14, <1>1 DEF Moves

-----------------------------------------------------------------------------
(* The circuit breaker *)

Breaker == [state : {"closed", "open", "half_open"}, failures : 0..Threshold,
            cool : 0..Cooldown, probe : BOOLEAN]

LEMMA BreakerFields ==
    ASSUME NEW b \in Breaker
    PROVE  /\ b.state \in {"closed", "open", "half_open"} /\ b.failures \in 0..Threshold
           /\ b.cool \in 0..Cooldown /\ b.probe \in BOOLEAN
BY Zenon DEF Breaker

(* The forms in which the breaker changes.                                 *)
LEMMA BreakerChanges ==
    ASSUME NEW b \in Breaker, NEW f \in 0..Threshold, NEW c \in 0..Cooldown
    PROVE  /\ [b EXCEPT !.state = "half_open", !.probe = TRUE] \in Breaker
           /\ [b EXCEPT !.state = "open", !.cool = c, !.probe = FALSE] \in Breaker
           /\ [[b EXCEPT !.state = "open", !.cool = c, !.probe = FALSE] EXCEPT !.failures = f] \in Breaker
           /\ [b EXCEPT !.failures = f, !.probe = FALSE] \in Breaker
           /\ [b EXCEPT !.probe = FALSE] \in Breaker
           /\ [b EXCEPT !.cool = c] \in Breaker
BY Zenon DEF Breaker

LEMMA BreakerChanged ==
    ASSUME NEW b \in Breaker, NEW f, NEW c
    PROVE  /\ LET d == [b EXCEPT !.state = "half_open", !.probe = TRUE]
              IN  d.state = "half_open" /\ d.probe = TRUE
           /\ LET d == [b EXCEPT !.state = "open", !.cool = c, !.probe = FALSE]
              IN  d.state = "open" /\ d.probe = FALSE
           /\ LET d == [[b EXCEPT !.state = "open", !.cool = c, !.probe = FALSE] EXCEPT !.failures = f]
              IN  d.state = "open" /\ d.probe = FALSE
           /\ LET d == [b EXCEPT !.failures = f, !.probe = FALSE]
              IN  d.state = b.state /\ d.failures = f /\ d.probe = FALSE
           /\ LET d == [b EXCEPT !.probe = FALSE]
              IN  d.state = b.state /\ d.failures = b.failures /\ d.probe = FALSE
           /\ LET d == [b EXCEPT !.cool = c]
              IN  d.state = b.state /\ d.failures = b.failures /\ d.probe = b.probe
BY Zenon DEF Breaker

(* Who probes afterwards, when turn t moves.                               *)
LEMMA ProbingAfter ==
    ASSUME LeaseTypeOK, NEW t \in Turns, NEW X, turn' = [turn EXCEPT ![t] = X]
    PROVE  /\ \A u \in Turns : u # t => (Probing(u)' <=> Probing(u))
           /\ Probing(t)' <=> (X.call # "none" /\ X.fresh)
<1>1. turn'[t] = X /\ \A u \in Turns : u # t => turn'[u] = turn[u]
  BY DEF LeaseTypeOK
<1> QED
  BY <1>1, Zenon DEF Probing, InFlight

LEMMA NoneProbing ==
    ASSUME NEW T \in [Turns -> Turn], turn' = Aged(T), NEW u \in Turns
    PROVE  ~Probing(u)'
<1>1. turn'[u] = [T[u] EXCEPT !.fresh = FALSE] /\ T[u] \in Turn
  BY DEF Aged
<1>2. turn'[u].fresh = FALSE
  BY <1>1, TurnChanged
<1> QED
  BY <1>2 DEF Probing

(* The breaker stays as it is and so does the probe.                       *)
LEMMA ProbeStays ==
    ASSUME ProbeInv, breaker' = breaker,
           breaker.state = "closed" \/ \A u \in Turns : Probing(u)' <=> Probing(u)
    PROVE  ProbeInv'
BY Zenon DEF ProbeInv

(* record_failure and record_success start a new generation, or count.     *)
LEMMA FailsKeeps ==
    ASSUME LeaseTypeOK, ProbeInv, NEW t \in Turns, InFlight(t), NEW X \in Turn, X.call = "none",
           Fails(t, [turn EXCEPT ![t] = X])
    PROVE  breaker' \in Breaker /\ ProbeInv'
<1> DEFINE T == [turn EXCEPT ![t] = X]
<1>1. T \in [Turns -> Turn] /\ breaker \in Breaker /\ breaker.failures \in 0..Threshold
  BY BreakerFields DEF LeaseTypeOK, Breaker
<1>2. CASE ~turn[t].fresh
  <2>1. breaker' = breaker /\ turn' = T
    BY <1>2 DEF Fails
  <2>2. ~Probing(t) /\ ~Probing(t)' /\ \A u \in Turns : u # t => (Probing(u)' <=> Probing(u))
    BY <1>2, <2>1, ProbingAfter DEF Probing
  <2> QED
    BY <1>1, <2>1, <2>2, ProbeStays
<1>3. CASE turn[t].fresh
  <2>1. Probing(t)
    BY <1>3 DEF Probing
  <2>2. breaker.state # "open"
    BY <2>1 DEF ProbeInv
  <2>3. ASSUME turn' = Aged(T), breaker' \in Breaker, breaker'.state = "open", breaker'.probe = FALSE
        PROVE  ProbeInv'
    <3>1. \A u \in Turns : ~Probing(u)'
      BY <1>1, <2>3, NoneProbing
    <3> QED
      BY <2>3, <3>1 DEF ProbeInv
  <2>4. CASE breaker.state = "half_open"
    <3>1. turn' = Aged(T) /\ breaker' = Opened
      BY <1>3, <2>4 DEF Fails
    <3>2. breaker' \in Breaker /\ breaker'.state = "open" /\ breaker'.probe = FALSE
      <4>1. breaker' \in Breaker
        BY <1>1, <3>1, Constants, BreakerChanges, Zenon DEF Opened
      <4>2. breaker'.state = "open" /\ breaker'.probe = FALSE
        BY <1>1, <3>1, Zenon DEF Opened, Breaker
      <4> QED
        BY <4>1, <4>2
    <3> QED
      BY <2>3, <3>1, <3>2
  <2>5. CASE breaker.state = "closed" /\ breaker.failures + 1 >= Threshold
    <3>1. turn' = Aged(T) /\ breaker' = [Opened EXCEPT !.failures = breaker.failures + 1]
      BY <1>3, <2>5 DEF Fails
    <3>2. breaker.failures + 1 \in 0..Threshold
      BY <1>1, <2>5, Constants DEF ProbeInv
    <3>3. /\ breaker' \in Breaker
          /\ breaker'.state = "open" /\ breaker'.probe = FALSE
      <4> DEFINE n == breaker.failures + 1
      <4>1. n \in 0..Threshold /\ breaker' = [Opened EXCEPT !.failures = n]
        BY <3>1, <3>2
      <4> HIDE DEF n
      <4>2. breaker' \in Breaker
        BY <1>1, <4>1, Constants, BreakerChanges, Zenon DEF Opened
      <4>3. breaker'.state = "open" /\ breaker'.probe = FALSE
        BY <1>1, <4>1, Zenon DEF Opened, Breaker
      <4> QED
        BY <4>2, <4>3
    <3> QED
      BY <2>3, <3>1, <3>3
  <2>6. CASE breaker.state = "closed" /\ ~(breaker.failures + 1 >= Threshold)
    <3> DEFINE n == breaker.failures + 1
    <3>1. breaker' = [breaker EXCEPT !.failures = n, !.probe = FALSE]
      BY <1>3, <2>6 DEF Fails
    <3>2. n \in 0..Threshold /\ n < Threshold
      BY <1>1, <2>6, Constants
    <3> HIDE DEF n
    <3>3. breaker' \in Breaker /\ breaker'.state = breaker.state /\ breaker'.failures = n
      <4>1. breaker' \in Breaker
        BY <1>1, <3>1, <3>2, Constants, BreakerChanges, Zenon
      <4>2. breaker'.state = breaker.state /\ breaker'.failures = n
        BY <1>1, <3>1, Zenon DEF Breaker
      <4> QED
        BY <4>1, <4>2
    <3> QED
      BY <2>6, <3>2, <3>3 DEF ProbeInv
  <2> QED
    BY <1>1, <2>2, <2>4, <2>5, <2>6, BreakerFields
<1> QED
  BY <1>2, <1>3

LEMMA SucceedsKeeps ==
    ASSUME LeaseTypeOK, ProbeInv, NEW t \in Turns, InFlight(t), NEW X \in Turn, X.call = "none",
           Succeeds(t, [turn EXCEPT ![t] = X])
    PROVE  breaker' \in Breaker /\ ProbeInv'
<1> DEFINE T == [turn EXCEPT ![t] = X]
<1>1. T \in [Turns -> Turn] /\ breaker \in Breaker
  BY DEF LeaseTypeOK, Breaker
<1>2. CASE ~turn[t].fresh
  <2>1. breaker' = breaker /\ turn' = T
    BY <1>2 DEF Succeeds
  <2>2. ~Probing(t) /\ ~Probing(t)' /\ \A u \in Turns : u # t => (Probing(u)' <=> Probing(u))
    BY <1>2, <2>1, ProbingAfter DEF Probing
  <2> QED
    BY <1>1, <2>1, <2>2, ProbeStays
<1>3. CASE turn[t].fresh
  <2>1. breaker' = [state |-> "closed", failures |-> 0, cool |-> 0, probe |-> FALSE]
    BY <1>3 DEF Succeeds
  <2>2. breaker' \in Breaker
    BY <2>1, Constants, Zenon DEF Breaker
  <2>3. breaker'.state = "closed" /\ breaker'.failures = 0
    BY <2>1
  <2> QED
    BY <2>2, <2>3, Constants DEF ProbeInv
<1> QED
  BY <1>2, <1>3

(* begin_call reserves the probe for the call that it admits.              *)
LEMMA AdmittedKeeps ==
    ASSUME LeaseTypeOK, ProbeInv, NEW t \in Turns, ~InFlight(t), Admits, NEW s,
           turn' = [turn EXCEPT ![t] = Sent(t, s)], breaker' = Admitted
    PROVE  breaker' \in Breaker /\ ProbeInv'
<1>1. breaker \in Breaker /\ breaker.state \in {"closed", "open", "half_open"} /\ turn[t] \in Turn
  BY BreakerFields DEF LeaseTypeOK, Breaker
<1>2. Sent(t, s).call = "sent" /\ Sent(t, s).fresh = TRUE
  BY <1>1, TurnChanged DEF Sent
<1>3. /\ ~Probing(t) /\ Probing(t)'
      /\ \A u \in Turns : u # t => (Probing(u)' <=> Probing(u))
  BY <1>2, ProbingAfter DEF Probing
<1>4. CASE breaker.state = "closed"
  BY <1>1, <1>4, ProbeStays DEF Admitted
<1>5. CASE breaker.state # "closed"
  <2>1. ~breaker.probe
    BY <1>1, <1>5 DEF Admits
  <2>2. \A u \in Turns : ~Probing(u)
    BY <1>5, <2>1 DEF ProbeInv
  <2>3. breaker' \in Breaker /\ breaker'.state = "half_open" /\ breaker'.probe = TRUE
    BY <1>1, <1>5, Constants, BreakerChanges, BreakerChanged DEF Admitted
  <2> QED
    BY <1>3, <2>2, <2>3 DEF ProbeInv
<1> QED
  BY <1>4, <1>5

(* release_call gives the probe back.                                      *)
LEMMA ReleaseKeeps ==
    ASSUME LeaseTypeOK, ProbeInv, NEW t \in Turns, InFlight(t), NEW X \in Turn, X.call = "none",
           turn' = [turn EXCEPT ![t] = X], breaker' = ReleaseCall(t)
    PROVE  breaker' \in Breaker /\ ProbeInv'
<1>1. breaker \in Breaker /\ breaker.state \in {"closed", "open", "half_open"}
  BY BreakerFields DEF LeaseTypeOK, Breaker
<1>2. ~Probing(t)' /\ \A u \in Turns : u # t => (Probing(u)' <=> Probing(u))
  BY ProbingAfter
<1>3. CASE turn[t].fresh /\ breaker.state = "half_open"
  <2>1. Probing(t)
    BY <1>3 DEF Probing
  <2>2. \A u \in Turns : ~Probing(u)'
    BY <1>2, <1>3, <2>1 DEF ProbeInv
  <2>3. breaker' \in Breaker /\ breaker'.state = "half_open" /\ breaker'.probe = FALSE
    BY <1>1, <1>3, Constants, BreakerChanges, BreakerChanged DEF ReleaseCall
  <2> QED
    BY <2>2, <2>3 DEF ProbeInv
<1>4. CASE ~(turn[t].fresh /\ breaker.state = "half_open")
  <2>1. breaker' = breaker
    BY <1>4 DEF ReleaseCall
  <2>2. breaker.state = "closed" \/ ~Probing(t)
    <3>1. ~turn[t].fresh \/ breaker.state # "half_open"
      BY <1>4
    <3> QED
      BY <1>1, <3>1 DEF Probing, ProbeInv
  <2> QED
    BY <1>1, <1>2, <2>1, <2>2, ProbeStays
<1> QED
  BY <1>3, <1>4

LEMMA MovesProbe ==
    ASSUME LeaseInv, NEW t \in Turns, Moves(t) \/ Execute(t)
    PROVE  breaker' \in Breaker /\ ProbeInv'
<1>1. /\ LeaseTypeOK /\ ProbeInv /\ TurnInv(t) /\ turn[t] \in Turn /\ breaker \in Breaker
      /\ turn[t].stage \in {"idle", "acquire", "work", "release", "done"}
  BY TurnFields DEF LeaseInv, LeaseTypeOK, Breaker
<1>2. /\ Raised(t) \in Turn /\ Raised(t).call = "none" /\ Over \in Turn /\ Over.call = "none"
      /\ Generating(t) \in Turn /\ Generating(t).call = "none"
      /\ \A res : AfterAnswer(t, res) \in Turn /\ AfterAnswer(t, res).call = "none"
  <2>1. Raised(t) \in Turn /\ Over \in Turn /\ Generating(t) \in Turn
    BY <1>1, TurnValues
  <2>2. Raised(t).call = "none" /\ Over.call = "none" /\ Generating(t).call = "none"
    BY DEF Raised, Over, Generating, NoTurn
  <2> QED
    BY <2>1, <2>2 DEF AfterAnswer
<1>3. ASSUME NEW X \in Turn, X.call = "none", ~InFlight(t), turn' = [turn EXCEPT ![t] = X], breaker' = breaker
      PROVE  breaker' \in Breaker /\ ProbeInv'
  <2>1. ~Probing(t) /\ ~Probing(t)' /\ \A u \in Turns : u # t => (Probing(u)' <=> Probing(u))
    BY <1>1, <1>3, ProbingAfter DEF Probing
  <2> QED
    BY <1>1, <1>3, <2>1, ProbeStays
<1>4. ASSUME NEW X, X.call # "none", X.fresh = turn[t].fresh, InFlight(t),
             turn' = [turn EXCEPT ![t] = X], breaker' = breaker
      PROVE  breaker' \in Breaker /\ ProbeInv'
  <2>1. /\ Probing(t)' <=> Probing(t)
        /\ \A u \in Turns : u # t => (Probing(u)' <=> Probing(u))
    BY <1>1, <1>4, ProbingAfter DEF Probing
  <2> QED
    BY <1>1, <1>4, <2>1, ProbeStays
<1>5. CASE BeginCall(t)
  <2>1. ~InFlight(t)
    BY <1>1, <1>5 DEF BeginCall, TurnInv, TurnFits, InFlight
  <2>2. \/ \E s : Admits /\ turn' = [turn EXCEPT ![t] = Sent(t, s)] /\ breaker' = Admitted
        \/ turn' = [turn EXCEPT ![t] = Over] /\ breaker' = breaker
    BY <1>5 DEF BeginCall
  <2> QED
    BY <1>1, <1>2, <1>3, <2>1, <2>2, AdmittedKeeps
<1>6. CASE StartRenew(t)
  <2>1. ~InFlight(t)
    BY <1>6 DEF StartRenew
  <2>2. \/ Admits /\ turn' = [turn EXCEPT ![t] = Sent(t, "work")] /\ breaker' = Admitted
        \/ turn' = [turn EXCEPT ![t] = Raised(t)] /\ breaker' = breaker
    BY <1>6 DEF StartRenew
  <2> QED
    BY <1>1, <1>2, <1>3, <2>1, <2>2, AdmittedKeeps
<1>7. CASE Execute(t)
  <2> DEFINE X == [turn[t] EXCEPT !.call = "answered", !.res = Answer(Command(t), t)]
  <2>1. turn' = [turn EXCEPT ![t] = X] /\ breaker' = breaker /\ InFlight(t)
    BY <1>7 DEF Execute, InFlight
  <2>2. X.call = "answered" /\ X.fresh = turn[t].fresh
    BY <1>1, TurnChanged
  <2> HIDE DEF X
  <2> QED
    BY <1>4, <2>1, <2>2
<1>8. CASE Receive(t)
  BY <1>1, <1>2, <1>8, SucceedsKeeps DEF Receive, InFlight
<1>9. CASE FailAttempt(t)
  <2>1. InFlight(t)
    BY <1>9 DEF FailAttempt, InFlight
  <2>2. CASE Fails(t, [turn EXCEPT ![t] = Raised(t)])
    BY <1>1, <1>2, <2>1, <2>2, FailsKeeps
  <2>3. CASE turn' = [turn EXCEPT ![t].call = "backoff", ![t].res = FALSE] /\ breaker' = breaker
    <3> DEFINE X == [turn[t] EXCEPT !.call = "backoff", !.res = FALSE]
    <3>1. turn' = [turn EXCEPT ![t] = X]
      BY <2>3
    <3>2. X.call = "backoff" /\ X.fresh = turn[t].fresh
      BY <1>1, TurnChanged
    <3> HIDE DEF X
    <3> QED
      BY <1>4, <2>1, <2>3, <3>1, <3>2
  <2> QED
    BY <1>9, <2>2, <2>3 DEF FailAttempt
<1>10. CASE RetryCall(t)
  <2>1. InFlight(t)
    BY <1>10 DEF RetryCall, InFlight
  <2>2. CASE Fails(t, [turn EXCEPT ![t] = Raised(t)])
    BY <1>1, <1>2, <2>1, <2>2, FailsKeeps
  <2>3. CASE turn' = [turn EXCEPT ![t].call = "sent", ![t].tries = @ + 1] /\ breaker' = breaker
    <3> DEFINE X == [turn[t] EXCEPT !.call = "sent", !.tries = turn[t].tries + 1]
    <3>1. turn' = [turn EXCEPT ![t] = X]
      BY <2>3
    <3>2. X.call = "sent" /\ X.fresh = turn[t].fresh
      BY <1>1, TurnChanged
    <3> HIDE DEF X
    <3> QED
      BY <1>4, <2>1, <2>3, <3>1, <3>2
  <2> QED
    BY <1>10, <2>2, <2>3 DEF RetryCall
<1>11. CASE ReconcileAcquire(t)
  BY <1>1, <1>2, <1>11, SucceedsKeeps DEF ReconcileAcquire, InFlight
<1>12. CASE RaiseInternal(t)
  BY <1>1, <1>2, <1>12, ReleaseKeeps DEF RaiseInternal, InFlight
<1>13. CASE EndTurn(t)
  BY <1>1, <1>2, <1>3, <1>13, ReleaseKeeps DEF EndTurn
<1> QED
  BY <1>5, <1>6, <1>7, <1>8, <1>9, <1>10, <1>11, <1>12, <1>13 DEF Moves

LEMMA TickProbe ==
    ASSUME LeaseInv, Tick
    PROVE  breaker' \in Breaker /\ ProbeInv'
<1>1. breaker \in Breaker /\ breaker.cool \in 0..Cooldown
  BY BreakerFields DEF LeaseInv, LeaseTypeOK, Breaker
<1>2. ASSUME NEW u \in Turns PROVE Probing(u)' <=> Probing(u)
  <2>1. turn[u] \in Turn
    BY DEF LeaseInv, LeaseTypeOK
  <2>2. turn'[u] = turn[u] \/ turn'[u] = [turn[u] EXCEPT !.timer = turn[u].timer - 1]
    BY DEF Tick
  <2>3. turn'[u].call = turn[u].call /\ turn'[u].fresh = turn[u].fresh
    <3>1. CASE turn'[u] = turn[u]
      BY <3>1
    <3>2. CASE turn'[u] = [turn[u] EXCEPT !.timer = turn[u].timer - 1]
      BY <2>1, <3>2, Zenon DEF Turn
    <3> QED
      BY <2>2, <3>1, <3>2
  <2> QED
    BY <2>3 DEF Probing, InFlight
<1>3. /\ breaker' \in Breaker
      /\ breaker'.state = breaker.state /\ breaker'.failures = breaker.failures /\ breaker'.probe = breaker.probe
  <2>1. CASE breaker.cool > 0
    <3> DEFINE n == breaker.cool - 1
    <3>1. n \in 0..Cooldown
      BY <1>1, <2>1, Constants
    <3>2. breaker' = [breaker EXCEPT !.cool = n]
      BY <2>1 DEF Tick
    <3> HIDE DEF n
    <3> QED
      BY <1>1, <3>1, <3>2, Zenon DEF Breaker
  <2>2. CASE ~(breaker.cool > 0)
    BY <1>1, <2>2 DEF Tick
  <2> QED
    BY <2>1, <2>2
<1> QED
  BY <1>2, <1>3 DEF LeaseInv, ProbeInv

-----------------------------------------------------------------------------
(* The theorems *)

LEMMA LeaseStarts == LeaseInit => LeaseInv
<1> SUFFICES ASSUME LeaseInit PROVE LeaseInv
  OBVIOUS
<1>1. NoTurn \in Turn
  BY Constants, TurnRecords DEF NoTurn
<1>2. breaker \in Breaker
  BY Constants, Zenon DEF LeaseInit, Breaker
<1>3. LeaseTypeOK
  BY <1>1, <1>2 DEF LeaseTypeOK, LeaseInit, Breaker
<1>4. ASSUME NEW t \in Turns PROVE TurnInv(t)
  <2>1. turn[t] = NoTurn /\ wire = {} /\ key.owner # t
    BY LeaseAssumption DEF LeaseInit, NoLease
  <2> QED
    BY <2>1 DEF TurnInv, TurnFits, NoTurn
<1>5. ProbeInv
  BY Constants DEF LeaseInit, ProbeInv
<1> QED
  BY <1>3, <1>4, <1>5 DEF LeaseInv

LEMMA LeaseStep == LeaseInv /\ [LeaseNext]_leaseVars => LeaseInv'
<1> SUFFICES ASSUME LeaseInv, [LeaseNext]_leaseVars PROVE LeaseInv'
  OBVIOUS
<1>1. LeaseTypeOK /\ \A u \in Turns : TurnInv(u)
  BY DEF LeaseInv
<1>2. ASSUME NEW t \in Turns, Moves(t) PROVE LeaseInv'
  BY <1>1, <1>2, MovesKeep, MovesProbe DEF LeaseInv, LeaseTypeOK, Breaker
<1>3. ASSUME NEW t \in Turns, Execute(t) PROVE LeaseInv'
  <2>1. wire' = wire
    BY <1>3 DEF Execute
  <2> QED
    BY <1>1, <1>3, <2>1, ExecuteKeeps, MovesProbe DEF LeaseInv, LeaseTypeOK, Breaker
<1>4. ASSUME NEW c \in wire, LateCommand(c) PROVE LeaseInv'
  <2>1. turn' = turn /\ breaker' = breaker
    BY <1>4 DEF LateCommand
  <2>2. ProbeInv'
    BY <2>1 DEF LeaseInv, ProbeInv, Probing, InFlight
  <2> QED
    BY <1>1, <1>4, <2>1, <2>2, LateCommandKeeps DEF LeaseInv, LeaseTypeOK
<1>5. CASE Tick
  <2>1. wire' = wire
    BY <1>5 DEF Tick
  <2> QED
    BY <1>1, <1>5, <2>1, TickKeeps, TickProbe DEF LeaseInv, LeaseTypeOK, Breaker
<1>6. CASE UNCHANGED leaseVars
  BY <1>6 DEF leaseVars, LeaseInv, LeaseTypeOK, TurnInv, ProbeInv, Probing, InFlight
<1> QED
  BY <1>2, <1>3, <1>4, <1>5, <1>6 DEF LeaseNext, Moves

(* The lease, the turns, the commands on the wire and the breaker keep     *)
(* their types: the attempts of a call stay within max_attempts, its time  *)
(* within the operation timeout, and the failures within the threshold.    *)
THEOREM LeaseTyping == LeaseSpec => []LeaseTypeOK
<1>1. LeaseInv => LeaseTypeOK
  BY DEF LeaseInv
<1> QED
  BY <1>1, LeaseStarts, LeaseStep, PTL DEF LeaseSpec

(* Two turns of a conversation never generate at the same time, for every  *)
(* number of turns and all times for which the operation timeout is below  *)
(* the heartbeat interval (_lease_heartbeat and the lease client): a turn  *)
(* that generates owns the key.                                            *)
THEOREM TurnsAreExclusive == LeaseSpec => []TurnsExclude
<1>1. LeaseInv => TurnsExclude
  BY DEF LeaseInv, TurnInv, TurnFits, TurnsExclude
<1> QED
  BY <1>1, LeaseStarts, LeaseStep, PTL DEF LeaseSpec

(* RedisCircuitBreaker admits one recovery probe at a time and gives back  *)
(* the reservation of every probe that ends, however it ends.              *)
THEOREM OneRecoveryProbe == LeaseSpec => []ProbeIsHeld
<1>1. ASSUME LeaseInv PROVE ProbeIsHeld
  <2> DEFINE probes == {t \in Turns : Probing(t)}
  <2>1. breaker.state # "closed" /\ breaker.probe => \E t \in Turns : probes = {t}
    BY <1>1 DEF LeaseInv, ProbeInv
  <2>2. breaker.state # "closed" /\ ~breaker.probe => probes = {}
    BY <1>1 DEF LeaseInv, ProbeInv
  <2>3. Cardinality({}) = 0 /\ \A t \in Turns : Cardinality({t}) = 1
    BY FS_EmptySet, FS_Singleton
  <2>4. breaker.state # "closed" => Cardinality(probes) = (IF breaker.probe THEN 1 ELSE 0)
    <3> HIDE DEF probes
    <3> QED
      BY <2>1, <2>2, <2>3
  <2> QED
    BY <2>4 DEF ProbeIsHeld, Probing
<1> QED
  BY <1>1, LeaseStarts, LeaseStep, PTL DEF LeaseSpec
=============================================================================
