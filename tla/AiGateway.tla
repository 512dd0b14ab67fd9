----------------------------- MODULE AiGateway -----------------------------
(***************************************************************************)
(* AI calls of an organisation.  A story request goes through a failover   *)
(* client with a circuit breaker, over a tracked primary and, if there is  *)
(* one, a tracked fallback: each checks limit and balance, calls, records  *)
(* the usage, deducts the cost and marks the idempotency key, one await    *)
(* after another, beside the other requests of the user, the admin's       *)
(* top-ups and limits, and the taggers behind their token limiter.         *)
(*                                                                         *)
(* src/services/ai-resilience.ts      FailoverAIClient, circuit breaker    *)
(* src/services/tracked-ai-client.ts  TrackedAIClient                      *)
(* src/services/ai-usage-tracker.ts   AIUsageTracker                       *)
(* src/services/ai-usage-logic.ts     evaluateLimitStatus                  *)
(***************************************************************************)
EXTENDS TokenLimiter, Integers

CONSTANTS
    Caller,         \* story requests of one user
    Key,            \* idempotency keys
    Threshold,      \* failureThreshold of the circuit
    MaxAttempts,    \* maxAttempts, without a fallback
    MaxCost,        \* bound: cents of one call
    TopUps,         \* cents an admin may add at once
    Limit,          \* limits an admin may set, in requests per window
    MaxBegun        \* bound: requests, admin changes, windows, restarts

ASSUME GatewayAssumption ==
    /\ IsFiniteSet(Caller)
    /\ Key # {}
    /\ Threshold \in Nat \ {0}
    /\ MaxAttempts \in Nat \ {0}
    /\ MaxCost \in Nat
    /\ TopUps \subseteq Nat \ {0}
    /\ Limit \subseteq Nat
    /\ MaxBegun \in Nat

VARIABLES
    caller,     \* what each request is doing
    circuit,    \* the breaker's hash in Redis: failures, and open or not
    row,        \* a UserAIBalance row exists
    balance,    \* balanceCents
    usage,      \* usage records of the limit's window
    userLimit,  \* the user's own limit, or None
    defaults,   \* limits in the organisation's default rows
    marked,     \* usageChargeDedup: keys charged, in memory
    charged,    \* history: charges per key
    exposed,    \* history: keys a charge of which may be repeated
    capped,     \* history: the highest limit enforced in this window, or None
    begun

gatewayVars == <<caller, circuit, row, balance, usage,
                 userLimit, defaults, marked, charged, exposed, capped>>

vars == <<gatewayVars, limiterVars, begun>>

None == -1
N == Cardinality(Caller)

CallerTypes ==
    [pc : {"idle", "limit", "balance", "call", "record", "deduct",
           "mark", "succeed", "fail", "open"},
     key : Key, primary : BOOLEAN, fallback : BOOLEAN,
     left : 0..MaxAttempts, billed : BOOLEAN, transient : BOOLEAN]

GatewayTypeOK ==
    /\ caller \in [Caller -> CallerTypes]
    /\ circuit \in [failures : Nat, open : BOOLEAN]
    /\ row \in BOOLEAN
    /\ balance \in Int
    /\ usage \in Nat
    /\ userLimit \in Limit \cup {None}
    /\ defaults \subseteq Limit
    /\ marked \subseteq Key
    /\ charged \in [Key -> Nat]
    /\ exposed \subseteq Key
    /\ capped \in Limit \cup {None, 0}

(***************************************************************************)
(* Types of the rows, of the breaker, of the requests and of the limiter.  *)
(***************************************************************************)
TypeOK == LimiterTypeOK /\ GatewayTypeOK /\ begun \in 0..MaxBegun

Idle ==
    [pc |-> "idle", key |-> CHOOSE k \in Key : TRUE, primary |-> TRUE,
     fallback |-> FALSE, left |-> 0, billed |-> FALSE, transient |-> FALSE]

Init ==
    /\ LimiterInit
    /\ caller = [c \in Caller |-> Idle]
    /\ circuit = [failures |-> 0, open |-> FALSE]
    /\ row = FALSE /\ balance = 0
    /\ usage = 0
    /\ userLimit = None
    /\ \E l \in SUBSET Limit : Cardinality(l) <= 1 /\ defaults = l
    /\ marked = {}
    /\ charged = [k \in Key |-> 0]
    /\ exposed = {}
    /\ capped = 0
    /\ begun = 0

Count == begun < MaxBegun /\ begun' = begun + 1
Goto(c, pc) == caller' = [caller EXCEPT ![c].pc = pc]
Finish(c) == caller' = [caller EXCEPT ![c] = Idle]

-----------------------------------------------------------------------------
(***************************************************************************)
(* The failover client.                                                    *)
(***************************************************************************)
\* A request of its own key, with or without a fallback; an open circuit
\* sends it to the fallback at once, and without one to the primary still.
Request(c, k, fb) ==
    /\ caller[c].pc = "idle" /\ Count
    /\ caller' = [caller EXCEPT ![c] =
         [Idle EXCEPT !.pc = "limit", !.key = k, !.fallback = fb,
                      !.primary = ~(circuit.open /\ fb),
                      !.left = IF fb THEN 0 ELSE MaxAttempts - 1]]
    /\ exposed' = IF \E d \in Caller : caller[d].pc # "idle"
                                       /\ caller[d].key = k
                  THEN exposed \cup {k} ELSE exposed
    /\ UNCHANGED <<limiterVars, circuit, row, balance, usage,
                   userLimit, defaults, marked, charged, capped>>

\* Fault: the fallback's error is answered by the fallback again.
ThrownAgain(c, transient) ==
    IF caller[c].primary
    THEN [caller EXCEPT ![c].pc = "fail", ![c].transient = transient,
                        ![c].billed = FALSE]
    ELSE [caller EXCEPT ![c].pc = "limit", ![c].billed = FALSE]

\* An error of the tracked client, the provider's or its own: the primary's
\* is counted by the breaker, the fallback's ends the request.
Thrown(c, transient) ==
    IF caller[c].primary
    THEN [caller EXCEPT ![c].pc = "fail", ![c].transient = transient,
                        ![c].billed = FALSE]
    ELSE [caller EXCEPT ![c] = Idle]

\* After a failure of the primary: the fallback if the error is transient,
\* or another attempt, or the error goes to the caller.
AfterFailure(c) ==
    CASE caller[c].transient /\ caller[c].fallback ->
           [caller EXCEPT ![c].pc = "limit", ![c].primary = FALSE,
                          ![c].transient = FALSE]
      [] caller[c].transient /\ ~caller[c].fallback /\ caller[c].left > 0 ->
           [caller EXCEPT ![c].pc = "limit", ![c].left = @ - 1,
                          ![c].transient = FALSE]
      [] OTHER -> [caller EXCEPT ![c] = Idle]

\* recordFailure: HINCRBY, then HSET openUntil at the threshold.
CountFailure(c) ==
    /\ caller[c].pc = "fail"
    /\ circuit' = [circuit EXCEPT !.failures = @ + 1]
    /\ caller' = IF circuit.failures + 1 >= Threshold
                 THEN [caller EXCEPT ![c].pc = "open"] ELSE AfterFailure(c)
    /\ UNCHANGED <<limiterVars, row, balance, usage,
                   userLimit, defaults, marked, charged, exposed, capped,
                   begun>>

OpenCircuit(c) ==
    /\ caller[c].pc = "open"
    /\ circuit' = [circuit EXCEPT !.open = TRUE]
    /\ caller' = AfterFailure(c)
    /\ UNCHANGED <<limiterVars, row, balance, usage,
                   userLimit, defaults, marked, charged, exposed, capped,
                   begun>>

\* recordSuccess, for the primary only.
Succeed(c) ==
    /\ caller[c].pc = "succeed"
    /\ circuit' = IF caller[c].primary
                  THEN [failures |-> 0, open |-> FALSE] ELSE circuit
    /\ Finish(c)
    /\ UNCHANGED <<limiterVars, row, balance, usage,
                   userLimit, defaults, marked, charged, exposed, capped,
                   begun>>

\* The cooldown passes, or the hash expires.
CircuitCools ==
    /\ circuit # [failures |-> 0, open |-> FALSE] /\ Count
    /\ \/ circuit' = [circuit EXCEPT !.open = FALSE]
       \/ circuit' = [failures |-> 0, open |-> FALSE]
    /\ UNCHANGED <<limiterVars, caller, row, balance, usage,
                   userLimit, defaults, marked, charged, exposed, capped>>

-----------------------------------------------------------------------------
(***************************************************************************)
(* The tracked client.                                                     *)
(***************************************************************************)
\* getEffectiveLimit: the user's, else some default row, else none.
Effective ==
    IF userLimit # None THEN {userLimit}
    ELSE IF defaults # {} THEN defaults ELSE {None}

\* Fault: the limit itself is still allowed.
ExceededStrictly(limit) == limit # None /\ usage > limit

Exceeded(limit) == limit # None /\ usage >= limit

\* enforceLimit; whether the call is platform-billed is the key's matter.
CheckLimit(c) ==
    /\ caller[c].pc = "limit"
    /\ \E limit \in Effective, billed \in BOOLEAN, transient \in BOOLEAN :
         IF Exceeded(limit)
         THEN caller' = Thrown(c, transient) /\ UNCHANGED capped
         ELSE /\ caller' = [caller EXCEPT
                   ![c].pc = IF billed THEN "balance" ELSE "call",
                   ![c].billed = billed]
              /\ capped' = IF capped = None \/ limit = None THEN None
                           ELSE IF limit > capped THEN limit ELSE capped
    /\ UNCHANGED <<limiterVars, circuit, row, balance, usage,
                   userLimit, defaults, marked, charged, exposed, begun>>

\* Fault: an empty balance is still enough.
OverdrawnStrictly == row /\ balance < 0

Overdrawn == row /\ balance <= 0

\* enforceBalance: no row, no prepaid balance, no check.
CheckBalance(c) ==
    /\ caller[c].pc = "balance"
    /\ caller' = IF Overdrawn THEN Thrown(c, FALSE)
                 ELSE [caller EXCEPT ![c].pc = "call"]
    /\ UNCHANGED <<limiterVars, circuit, row, balance, usage,
                   userLimit, defaults, marked, charged, exposed, capped,
                   begun>>

\* Fault: the key is not looked up.
ChargeAnyway(c) == "record"

\* hasRecordedUsageCharge: a key that was charged is not charged again.
AfterCall(c) == IF caller[c].key \in marked THEN "succeed" ELSE "record"

CallProvider(c) ==
    /\ caller[c].pc = "call"
    /\ \/ caller' = [caller EXCEPT ![c].pc = AfterCall(c),
            ![c].billed = @ /\ AfterCall(c) = "record"]
       \/ \E transient \in BOOLEAN : caller' = Thrown(c, transient)
    /\ UNCHANGED <<limiterVars, circuit, row, balance, usage,
                   userLimit, defaults, marked, charged, exposed, capped,
                   begun>>

\* recordUsage; an error of the database is one of the client.
RecordUsage(c) ==
    /\ caller[c].pc = "record"
    /\ \/ /\ usage' = usage + 1
          /\ Goto(c, IF caller[c].billed THEN "deduct" ELSE "mark")
       \/ /\ caller' = Thrown(c, TRUE)
          /\ UNCHANGED usage
    /\ UNCHANGED <<limiterVars, circuit, row, balance,
                   userLimit, defaults, marked, charged, exposed, capped,
                   begun>>

Charged(c) == caller' = [caller EXCEPT ![c].pc = "mark", ![c].billed = FALSE]

\* deductBalance: one transaction, or none without a row or a cost; the
\* error may be that of a commit that was done.
Deduct(c) ==
    /\ caller[c].pc = "deduct"
    /\ \/ \E cost \in 1..MaxCost :
            /\ row
            /\ balance' = balance - cost
            /\ charged' = [charged EXCEPT ![caller[c].key] = @ + 1]
            /\ \/ Charged(c) /\ UNCHANGED exposed
               \/ /\ caller' = Thrown(c, TRUE)
                  /\ exposed' = exposed \cup {caller[c].key}
       \/ /\ Charged(c) \/ caller' = Thrown(c, TRUE)
          /\ UNCHANGED <<balance, charged, exposed>>
    /\ UNCHANGED <<limiterVars, circuit, row, usage, userLimit,
                   defaults, marked, capped, begun>>

MarkKey(c) ==
    /\ caller[c].pc = "mark"
    /\ marked' = marked \cup {caller[c].key}
    /\ Goto(c, "succeed")
    /\ UNCHANGED <<limiterVars, circuit, row, balance, usage,
                   userLimit, defaults, charged, exposed, capped, begun>>

-----------------------------------------------------------------------------
(***************************************************************************)
(* The admin, the clock and the process.                                   *)
(***************************************************************************)
AddBalance(cents) ==
    /\ Count
    /\ row' = TRUE
    /\ balance' = balance + cents
    /\ UNCHANGED <<limiterVars, caller, circuit, usage, userLimit,
                   defaults, marked, charged, exposed, capped>>

\* The user's limit is upserted; the default's row is looked up by a user id
\* that no row has, so each new default is one more row.
SetLimit(limit) ==
    /\ Count
    /\ \/ userLimit' = limit /\ UNCHANGED defaults
       \/ defaults' = defaults \cup {limit} /\ UNCHANGED userLimit
    /\ UNCHANGED <<limiterVars, caller, circuit, row, balance, usage,
                   marked, charged, exposed, capped>>

RemoveLimit ==
    /\ Count
    /\ \/ userLimit # None /\ userLimit' = None /\ UNCHANGED defaults
       \/ defaults # {} /\ defaults' = {} /\ UNCHANGED userLimit
    /\ UNCHANGED <<limiterVars, caller, circuit, row, balance, usage,
                   marked, charged, exposed, capped>>

\* A new day, week or month.  Calls in progress passed the old limit.
NewWindow ==
    /\ usage > 0 /\ Count
    /\ usage' = 0
    /\ capped' = IF \E c \in Caller : caller[c].pc # "idle" THEN capped ELSE 0
    /\ UNCHANGED <<limiterVars, caller, circuit, row, balance,
                   userLimit, defaults, marked, charged, exposed>>

\* The process restarts, or a key's 24 hours pass: the keys are forgotten.
Restart ==
    /\ Count
    /\ caller' = [c \in Caller |-> Idle]
    /\ marked' = {}
    /\ exposed' = {k \in Key : k \in exposed \/ charged[k] > 0}
    /\ UNCHANGED <<limiterVars, circuit, row, balance, usage,
                   userLimit, defaults, charged, capped>>

TagAcquire(t, est) == Acquire(t, est) /\ Count /\ UNCHANGED gatewayVars
LimiterStep ==
    /\ Drain \/ WindowEnds \/ \E t \in Tagger : Return(t)
    /\ UNCHANGED <<gatewayVars, begun>>

CallerStep(c) ==
    \/ CountFailure(c) \/ OpenCircuit(c) \/ Succeed(c)
    \/ CheckLimit(c) \/ CheckBalance(c) \/ CallProvider(c)
    \/ RecordUsage(c) \/ Deduct(c) \/ MarkKey(c)

Next ==
    \/ \E c \in Caller, k \in Key, fb \in BOOLEAN : Request(c, k, fb)
    \/ \E c \in Caller : CallerStep(c)
    \/ CircuitCools
    \/ \E cents \in TopUps : AddBalance(cents)
    \/ \E limit \in Limit : SetLimit(limit)
    \/ RemoveLimit \/ NewWindow \/ Restart
    \/ \E t \in Tagger, est \in Estimates : TagAcquire(t, est)
    \/ LimiterStep

Spec == Init /\ [][Next]_vars

\* Promises settle and timers fire; nobody has to start anything.
Fairness ==
    /\ LimiterFairness
    /\ \A c \in Caller : WF_vars(CallerStep(c))

FairSpec == Spec /\ Fairness

-----------------------------------------------------------------------------
(***************************************************************************)
(* Concurrent calls that all saw a positive balance overdraw it by at most *)
(* one call's cost each: enforceBalance and deductBalance are awaits       *)
(* apart, failover may charge again, and still the loss is bounded.        *)
(***************************************************************************)
OverdraftBounded == row => balance > 0 - MaxCost * N

(***************************************************************************)
(* The usage of a window passes the highest limit it was checked against   *)
(* by less than the number of concurrent requests.                         *)
(***************************************************************************)
LimitOvershoot == capped # None /\ usage > 0 => usage < capped + N

(***************************************************************************)
(* A key is charged once, however often its request is retried or failed   *)
(* over, unless its requests overlapped, the outcome of a commit was lost, *)
(* or the process forgot the key.                                          *)
(***************************************************************************)
KeyChargedOnce == \A k \in Key \ exposed : charged[k] <= 1

(***************************************************************************)
(* Every request comes to an end, through retries and failover.            *)
(***************************************************************************)
RequestsEnd == \A c \in Caller : caller[c].pc # "idle" ~> caller[c].pc = "idle"
=============================================================================
