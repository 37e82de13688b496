--------------------------- MODULE CircuitBreaker ---------------------------
(***************************************************************************)
(* The circuit breaker of one remote shard endpoint                        *)
(* (dv-shard-remote/src/circuit.rs) and the callers that go through it:    *)
(* the shard targets of a fan-out, each running query_with_failover and,   *)
(* in it, post_json with its retries, on a thread of its own (client.rs,   *)
(* coordinator.rs).  The registry's mutex makes allow, on_success and      *)
(* on_failure atomic, and nothing longer.                                  *)
(***************************************************************************)
EXTENDS Naturals, FiniteSets

CONSTANTS
    Caller,         \* shard targets of a fan-out that share the endpoint
    Threshold,      \* failure_threshold
    RetryLimit,     \* max_retries
    MaxCount        \* bound: failures are counted up to this

ASSUME BreakerAssumption ==
    /\ Threshold \in Nat \ {0}
    /\ RetryLimit \in Nat
    /\ MaxCount \in Nat /\ MaxCount >= Threshold

VARIABLES
    state,      \* Breaker.state
    failures,   \* Breaker.failures
    cooled,     \* open_ms have passed since opened_at, that is, since on_failure
    pc,         \* what each caller does next
    tries,      \* retries each caller has made
    called,     \* callers that are through with this fan-out
    up,         \* the endpoint answers
    bad         \* history: requests failed since the registry's last success

breaker == <<state, failures, cooled>>
breakerVars == <<breaker, pc, tries, called, up, bad>>

BreakerInit ==
    /\ state = "Closed"
    /\ failures = 0
    /\ cooled = TRUE
    /\ pc = [c \in Caller |-> "idle"]
    /\ tries = [c \in Caller |-> 0]
    /\ called = {}
    /\ up = TRUE
    /\ bad = 0

-----------------------------------------------------------------------------
(* CircuitBreakerRegistry *)

Counted(n) == IF n < MaxCount THEN n + 1 ELSE n

(* A mutant: the cool-down is not waited for. *)
CooledDownAtOnce == state = "Open"
CooledDown == state = "Open" /\ cooled

(* allow: half-opens a circuit that has cooled down. *)
Allow ==
    /\ state # "Open" \/ CooledDown
    /\ state' = IF state = "Open" THEN "HalfOpen" ELSE state
    /\ UNCHANGED <<failures, cooled>>

Deny ==
    /\ state = "Open"
    /\ ~ CooledDown
    /\ UNCHANGED breaker

(* A mutant: a success does not close the circuit. *)
OnSuccessKeepsState ==
    /\ failures' = 0
    /\ UNCHANGED <<state, cooled>>

OnSuccess ==
    /\ state' = "Closed"
    /\ failures' = 0
    /\ UNCHANGED cooled

(* A mutant: one failure too early. *)
ReachesEarly(n) == n + 1 >= Threshold
Reaches(n) == n >= Threshold

OnFailure ==
    /\ failures' = Counted(failures)
    /\ state' = IF Reaches(failures') \/ state = "HalfOpen" THEN "Open" ELSE state
    /\ cooled' = FALSE

-----------------------------------------------------------------------------
(* The callers *)

Goto(c, step) == pc' = [pc EXCEPT ![c] = step]

Start(c) ==
    /\ pc[c] = "idle"
    /\ c \notin called
    /\ Goto(c, "failover_allow")
    /\ called' = called \cup {c}
    /\ tries' = [tries EXCEPT ![c] = 0]
    /\ UNCHANGED <<breaker, up, bad>>

(* query_with_failover passes over an endpoint it may not call. *)
FailoverAllow(c) ==
    /\ pc[c] = "failover_allow"
    /\ \/ Allow /\ Goto(c, "post_allow")
       \/ Deny /\ Goto(c, "idle")
    /\ UNCHANGED <<tries, called, up, bad>>

(* post_json asks again; being refused is an error of the query. *)
PostAllow(c) ==
    /\ pc[c] = "post_allow"
    /\ \/ Allow /\ Goto(c, "post")
       \/ Deny /\ Goto(c, "failover_failure")
    /\ UNCHANGED <<tries, called, up, bad>>

(* post_once *)
Answered(c) ==
    /\ pc[c] = "post"
    /\ up
    /\ Goto(c, "post_success")
    /\ UNCHANGED <<breaker, tries, called, up, bad>>

(* A transport error is retried, RetryLimit times; an answer that makes no  *)
(* sense is not.                                                            *)
Retry(c) ==
    /\ pc[c] = "post"
    /\ ~ up
    /\ tries[c] < RetryLimit
    /\ tries' = [tries EXCEPT ![c] = @ + 1]
    /\ UNCHANGED <<breaker, pc, called, up, bad>>

PostGivesUp(c) ==
    /\ pc[c] = "post"
    /\ ~ up
    /\ Goto(c, "post_failure")
    /\ UNCHANGED <<breaker, tries, called, up, bad>>

(* Both post_json and query_with_failover report the outcome. *)
PostSuccess(c) ==
    /\ pc[c] = "post_success"
    /\ OnSuccess
    /\ Goto(c, "failover_success")
    /\ bad' = 0
    /\ UNCHANGED <<tries, called, up>>

FailoverSuccess(c) ==
    /\ pc[c] = "failover_success"
    /\ OnSuccess
    /\ Goto(c, "idle")
    /\ bad' = 0
    /\ UNCHANGED <<tries, called, up>>

PostFailure(c) ==
    /\ pc[c] = "post_failure"
    /\ OnFailure
    /\ Goto(c, "failover_failure")
    /\ bad' = Counted(bad)
    /\ UNCHANGED <<tries, called, up>>

FailoverFailure(c) ==
    /\ pc[c] = "failover_failure"
    /\ OnFailure
    /\ Goto(c, "idle")
    /\ UNCHANGED <<tries, called, up, bad>>

Step(c) ==
    \/ FailoverAllow(c) \/ PostAllow(c)
    \/ Answered(c) \/ Retry(c) \/ PostGivesUp(c)
    \/ PostSuccess(c) \/ FailoverSuccess(c) \/ PostFailure(c) \/ FailoverFailure(c)

(* The next fan-out: fan_out_shard_queries makes a new registry, and the    *)
(* variant _with_breaker goes on with the one it is given.                  *)
FanOut ==
    /\ called # {}
    /\ \A c \in Caller : pc[c] = "idle"
    /\ called' = {}
    /\ \/ UNCHANGED <<state, failures, bad>>
       \/ /\ state' = "Closed"
          /\ failures' = 0
          /\ bad' = 0
    /\ UNCHANGED <<cooled, pc, tries, up>>

(* Time passes; the endpoint goes down or comes back. *)
Elapse ==
    /\ ~ cooled
    /\ cooled' = TRUE
    /\ UNCHANGED <<state, failures, pc, tries, called, up, bad>>

Flip ==
    /\ up' = ~ up
    /\ UNCHANGED <<breaker, pc, tries, called, bad>>

BreakerNext ==
    \/ \E c \in Caller : Start(c) \/ Step(c)
    \/ FanOut \/ Elapse \/ Flip

BreakerSpec == BreakerInit /\ [][BreakerNext]_breakerVars

(* Threads run, time passes, and queries keep being made. *)
BreakerFairSpec ==
    /\ BreakerSpec
    /\ WF_breakerVars(Elapse)
    /\ WF_breakerVars(FanOut)
    /\ WF_breakerVars(\E c \in Caller : Start(c))
    /\ \A c \in Caller : WF_breakerVars(Step(c))

-----------------------------------------------------------------------------
(* Properties *)

CallerStep == {"idle", "failover_allow", "post_allow", "post", "post_success",
               "failover_success", "post_failure", "failover_failure"}

TypeOK ==
    /\ state \in {"Closed", "Open", "HalfOpen"}
    /\ failures \in 0 .. MaxCount
    /\ cooled \in BOOLEAN
    /\ pc \in [Caller -> CallerStep]
    /\ tries \in [Caller -> 0 .. RetryLimit]
    /\ called \subseteq Caller
    /\ up \in BOOLEAN
    /\ bad \in 0 .. MaxCount

(* The circuit is not closed only after Threshold failures were reported    *)
(* with no success after them, however the callers' reports interleave.     *)
(* (allow, on_success, on_failure)                                          *)
OpenNeedsFailures == state # "Closed" => failures >= Threshold

(* After Threshold failed requests in a row on one registry, no request is *)
(* sent through it until the endpoint has been left alone for the cool-down *)
(* since the last of them.  (allow, post_json)                              *)
Spared ==
    [][\A c \in Caller :
          pc[c] = "post_allow" /\ pc'[c] = "post" => bad < Threshold \/ cooled]_breakerVars

(* Once the endpoint is back for good, its circuit closes for good, where   *)
(* it serves one shard.  (With two, they can keep each other out for ever:  *)
(* the query that is let through is refused by post_json, which counts as   *)
(* a failure and opens the circuit again.)  (allow, on_success)             *)
Recovers ==
    \A c \in Caller : <>[](up /\ called \subseteq {c}) => <>[](state = "Closed")
=============================================================================
