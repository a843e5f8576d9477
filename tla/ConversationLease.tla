-------------------------- MODULE ConversationLease --------------------------
(***************************************************************************)
(* The lease that keeps the turns of a conversation apart: the professor   *)
(* (packages/professor/src/rick_professor/orchestration.py) acquires it    *)
(* for a turn, renews it while it generates and releases it, through the   *)
(* lease client, the Redis store and the circuit breaker of                *)
(* packages/locking/src/rick_locking.                                      *)
(*                                                                         *)
(* Redis runs a command when it runs it: the answer may be lost, and a     *)
(* command that its sender gave up may still run later.  Time is relative: *)
(* what is left of the lease, of a call, of a sleep and of the cooldown.   *)
(* The event loop is timely: a call ends at its deadline and a heartbeat   *)
(* starts when it is due.  A call belongs to a generation of the circuit   *)
(* breaker; only whether it is the present one is kept (`fresh`).          *)
(***************************************************************************)
EXTENDS Integers, FiniteSets

CONSTANTS
    Turns,         \* turns of one conversation, each the owner of a lease
    Interval,      \* lease_ttl_ms / 3: time between heartbeats
    OpTimeout,     \* operation_timeout of the Redis store
    MaxTries,      \* max_attempts of RedisRetryPolicy
    Threshold,     \* failure_threshold
    Cooldown       \* cooldown_seconds

Ttl == 3 * Interval

(* The timeout of an operation (5 s) is below the interval (40 s).         *)
ASSUME LeaseAssumption ==
    /\ Interval \in Nat \ {0} /\ OpTimeout \in Nat \ {0} /\ OpTimeout < Interval
    /\ MaxTries \in Nat \ {0} /\ Threshold \in Nat \ {0} /\ Cooldown \in Nat \ {0}
    /\ "none" \notin Turns

VARIABLES
    key,           \* the lease in Redis
    turn,          \* the turns
    wire,          \* commands given up by their sender that may still run
    breaker        \* the RedisCircuitBreaker of the process

leaseVars == <<key, turn, wire, breaker>>

-----------------------------------------------------------------------------
(* State *)

NoLease == [owner |-> "none", left |-> 0]
Commands == {"acquire", "renew", "release"}

(* `call` is the state of the turn's call to Redis, `timer` what is left   *)
(* of it, or of the sleep of the heartbeat.                                *)
Turn == [stage : {"idle", "acquire", "work", "release", "done"},
         call : {"none", "sent", "answered", "backoff"},
         res : BOOLEAN, timer : 0..Interval, tries : 0..MaxTries, fresh : BOOLEAN]
NoTurn == [stage |-> "idle", call |-> "none", res |-> FALSE, timer |-> 0, tries |-> 0, fresh |-> FALSE]
Over == [NoTurn EXCEPT !.stage = "done"]

LeaseTypeOK ==
    /\ key \in [owner : Turns, left : 1..Ttl] \cup {NoLease}
    /\ turn \in [Turns -> Turn]
    /\ wire \subseteq Commands \X Turns
    /\ breaker \in [state : {"closed", "open", "half_open"}, failures : 0..Threshold,
                    cool : 0..Cooldown, probe : BOOLEAN]

LeaseInit ==
    /\ key = NoLease
    /\ turn = [t \in Turns |-> NoTurn]
    /\ wire = {}
    /\ breaker = [state |-> "closed", failures |-> 0, cool |-> 0, probe |-> FALSE]

InFlight(t) == turn[t].call # "none"

(* The command of the call of turn t.                                      *)
Command(t) == IF turn[t].stage = "work" THEN "renew" ELSE turn[t].stage

-----------------------------------------------------------------------------
(* RedisCircuitBreaker *)

(* A new generation: no call in flight belongs to it.                      *)
Aged(T) == [t \in Turns |-> [T[t] EXCEPT !.fresh = FALSE]]

Admits ==
    CASE breaker.state = "open"      -> breaker.cool = 0 /\ ~breaker.probe
      [] breaker.state = "half_open" -> ~breaker.probe
      [] OTHER                       -> TRUE

Admitted == IF breaker.state = "closed" THEN breaker
            ELSE [breaker EXCEPT !.state = "half_open", !.probe = TRUE]

(* record_success, record_failure and release_call for a call of turn t,   *)
(* after which the turns are T.                                            *)
Succeeds(t, T) ==
    IF turn[t].fresh
    THEN /\ breaker' = [state |-> "closed", failures |-> 0, cool |-> 0, probe |-> FALSE]
         /\ turn' = Aged(T)
    ELSE UNCHANGED breaker /\ turn' = T

Opened == [breaker EXCEPT !.state = "open", !.cool = Cooldown, !.probe = FALSE]

Fails(t, T) ==
    LET failures == breaker.failures + 1 IN
    IF ~turn[t].fresh THEN UNCHANGED breaker /\ turn' = T
    ELSE IF breaker.state = "half_open" THEN breaker' = Opened /\ turn' = Aged(T)
    ELSE IF failures >= Threshold THEN breaker' = [Opened EXCEPT !.failures = failures] /\ turn' = Aged(T)
    ELSE breaker' = [breaker EXCEPT !.failures = failures, !.probe = FALSE] /\ turn' = T

(* The mutant leaves a half-open probe reserved.                           *)
ReleaseCallNever(t) == breaker

ReleaseCall(t) ==
    IF turn[t].fresh /\ breaker.state = "half_open" THEN [breaker EXCEPT !.probe = FALSE] ELSE breaker

-----------------------------------------------------------------------------
(* Redis *)

(* SET NX PX, RENEW_SCRIPT and RELEASE_SCRIPT: the key afterwards.         *)
Applied(command, owner) ==
    CASE command = "acquire" /\ key = NoLease      -> [owner |-> owner, left |-> Ttl]
      [] command = "renew" /\ key.owner = owner    -> [key EXCEPT !.left = Ttl]
      [] command = "release" /\ key.owner = owner  -> NoLease
      [] OTHER                                     -> key

Answer(command, owner) == IF command = "acquire" THEN key = NoLease ELSE key.owner = owner

Execute(t) ==
    /\ turn[t].call = "sent"
    /\ key' = Applied(Command(t), t)
    /\ turn' = [turn EXCEPT ![t].call = "answered", ![t].res = Answer(Command(t), t)]
    /\ UNCHANGED <<wire, breaker>>

(* A command whose sender no longer waits runs, or is lost.                *)
LateCommand(c) ==
    /\ wire' = wire \ {c}
    /\ key' \in {key, Applied(c[1], c[2])}
    /\ UNCHANGED <<turn, breaker>>

(* What stays on the wire when turn t gives up its command.                *)
Abandoned(t) == IF turn[t].call = "sent" THEN {wire, wire \cup {<<Command(t), t>>}} ELSE {wire}

-----------------------------------------------------------------------------
(* _run_request *)

Sent(t, stage) == [turn[t] EXCEPT !.stage = stage, !.call = "sent", !.timer = OpTimeout,
                                  !.tries = 1, !.fresh = TRUE]
Generating(t) == [NoTurn EXCEPT !.stage = "work", !.timer = Interval]

(* The turn after its call raised: the lease was not granted, or is lost   *)
(* and the work is cancelled before the release, or is given up.  The      *)
(* mutant works on after a heartbeat that failed.                          *)
RaisedKeepsWorking(t) == IF turn[t].stage = "work" THEN Generating(t) ELSE Over

Raised(t) == IF turn[t].stage = "work" THEN [NoTurn EXCEPT !.stage = "release"] ELSE Over

(* The turn after an answer.                                               *)
AfterAnswer(t, res) == IF res /\ turn[t].stage # "release" THEN Generating(t) ELSE Raised(t)

(* begin_call for the acquisition, or for the release in the finally.      *)
BeginCall(t) ==
    /\ \/ turn[t].stage = "idle"
       \/ turn[t].stage = "release" /\ ~InFlight(t)
    /\ LET stage == IF turn[t].stage = "idle" THEN "acquire" ELSE "release" IN
       IF Admits
       THEN turn' = [turn EXCEPT ![t] = Sent(t, stage)] /\ breaker' = Admitted
       ELSE turn' = [turn EXCEPT ![t] = Over] /\ UNCHANGED breaker
    /\ UNCHANGED <<key, wire>>

(* _lease_heartbeat wakes up.                                              *)
StartRenew(t) ==
    /\ turn[t].stage = "work" /\ ~InFlight(t) /\ turn[t].timer = 0
    /\ IF Admits
       THEN turn' = [turn EXCEPT ![t] = Sent(t, "work")] /\ breaker' = Admitted
       ELSE turn' = [turn EXCEPT ![t] = Raised(t)] /\ UNCHANGED breaker
    /\ UNCHANGED <<key, wire>>

Receive(t) ==
    /\ turn[t].call = "answered"
    /\ Succeeds(t, [turn EXCEPT ![t] = AfterAnswer(t, turn[t].res)])
    /\ UNCHANGED <<key, wire>>

(* A timeout or a transient error.  A release is never tried again.        *)
FailAttempt(t) ==
    /\ turn[t].call \in {"sent", "answered"}
    /\ wire' \in Abandoned(t)
    /\ IF turn[t].tries < MaxTries /\ turn[t].stage # "release"
       THEN turn' = [turn EXCEPT ![t].call = "backoff", ![t].res = FALSE] /\ UNCHANGED breaker
       ELSE Fails(t, [turn EXCEPT ![t] = Raised(t)])
    /\ UNCHANGED key

(* The delay does not fit into the deadline, or the command is sent again. *)
RetryCall(t) ==
    /\ turn[t].call = "backoff"
    /\ \/ /\ turn[t].timer > 0
          /\ turn' = [turn EXCEPT ![t].call = "sent", ![t].tries = @ + 1]
          /\ UNCHANGED breaker
       \/ Fails(t, [turn EXCEPT ![t] = Raised(t)])
    /\ UNCHANGED <<key, wire>>

(* _reconcile_acquire: the key tells what became of a SET without answer.  *)
ReconcileAcquire(t) ==
    /\ turn[t].call = "backoff" /\ turn[t].stage = "acquire"
    /\ key # NoLease
    /\ Succeeds(t, [turn EXCEPT ![t] = AfterAnswer(t, key.owner = t)])
    /\ UNCHANGED <<key, wire>>

(* An error that is not transient says nothing about the circuit.          *)
RaiseInternal(t) ==
    /\ turn[t].call = "sent"
    /\ wire' \in Abandoned(t)
    /\ breaker' = ReleaseCall(t)
    /\ turn' = [turn EXCEPT ![t] = Raised(t)]
    /\ UNCHANGED key

(* The generation ends, fails, or times out, or the caller goes away: the  *)
(* heartbeat is cancelled, then the lease is released.  A call in flight   *)
(* is cancelled.                                                           *)
EndTurn(t) ==
    /\ turn[t].stage \in {"acquire", "work", "release"}
    /\ turn[t].stage # "work" => InFlight(t)
    /\ wire' \in Abandoned(t)
    /\ breaker' = IF InFlight(t) THEN ReleaseCall(t) ELSE breaker
    /\ turn' = [turn EXCEPT ![t] = Raised(t)]
    /\ UNCHANGED key

Timely(t) == InFlight(t) \/ turn[t].stage = "work" => turn[t].timer > 0

Tick ==
    /\ \A t \in Turns : Timely(t)
    /\ key' = IF key.left > 1 THEN [key EXCEPT !.left = @ - 1] ELSE NoLease
    /\ turn' = [t \in Turns |-> IF turn[t].timer > 0 THEN [turn[t] EXCEPT !.timer = @ - 1] ELSE turn[t]]
    /\ breaker' = IF breaker.cool > 0 THEN [breaker EXCEPT !.cool = @ - 1] ELSE breaker
    /\ UNCHANGED wire

-----------------------------------------------------------------------------
(* The specification *)

LeaseNext ==
    \/ \E t \in Turns :
          \/ BeginCall(t)
          \/ StartRenew(t)
          \/ Execute(t)
          \/ Receive(t)
          \/ FailAttempt(t)
          \/ RetryCall(t)
          \/ ReconcileAcquire(t)
          \/ RaiseInternal(t)
          \/ EndTurn(t)
    \/ \E c \in wire : LateCommand(c)
    \/ Tick

LeaseSpec == LeaseInit /\ [][LeaseNext]_leaseVars

-----------------------------------------------------------------------------
(* Properties *)

(* Two turns of a conversation never generate at the same time, although   *)
(* answers are lost, commands run late and a lease expires: a turn that    *)
(* cannot renew its lease stops before the lease ends.                     *)
TurnsExclude ==
    \A t, u \in Turns : turn[t].stage = "work" /\ turn[u].stage = "work" => t = u

(* "One recovery probe": while the circuit is not closed at most one call  *)
(* of the present generation is under way, and the probe is reserved just  *)
(* when there is one, so that no cancelled or failed call keeps the        *)
(* circuit shut for ever (RedisCircuitBreaker).                            *)
ProbeIsHeld ==
    LET probes == {t \in Turns : InFlight(t) /\ turn[t].fresh} IN
    breaker.state # "closed" => Cardinality(probes) = (IF breaker.probe THEN 1 ELSE 0)
=============================================================================
