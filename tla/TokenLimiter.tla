---------------------------- MODULE TokenLimiter ----------------------------
(***************************************************************************)
(* The limiter in front of the tagger's AI calls: requests and tokens per  *)
(* window, a queue for the callers that find no capacity, and the timer    *)
(* that drains it.                                                         *)
(*                                                                         *)
(* src/services/rate-limiter.ts   RateLimiter                              *)
(* src/services/ai-tagger.ts      its callers: tagChunk, the chunk workers *)
(***************************************************************************)
EXTENDS Naturals, Sequences, FiniteSets, FiniteSetsExt

CONSTANTS
    Tagger,     \* chunk workers
    MaxRPM,     \* requests per window
    MaxTPM,     \* tokens per window
    Estimates,  \* estimated tokens of a request
    MaxExtra    \* how far the actual usage can exceed the estimate

\* A chunk is far smaller than a window's budget: a request that is larger
\* would never be admitted, nor anyone queued behind it.
ASSUME LimiterAssumption ==
    /\ MaxRPM \in Nat \ {0}
    /\ MaxTPM \in Nat \ {0}
    /\ Estimates \subseteq 1..MaxTPM
    /\ MaxExtra \in Nat

VARIABLES
    requests,   \* requestsThisWindow
    tokens,     \* tokensThisWindow
    elapsed,    \* the window's minute is over
    queue,      \* taggers waiting for capacity, in order
    tagger,     \* what each tagger is doing, and its estimate
    admitted    \* history: tokens admitted in this window, as estimated

limiterVars == <<requests, tokens, elapsed, queue, tagger, admitted>>

LimiterTypeOK ==
    /\ requests \in 0..MaxRPM
    /\ tokens \in Nat
    /\ elapsed \in BOOLEAN
    /\ queue \in Seq(Tagger)
    /\ tagger \in [Tagger -> [pc : {"idle", "queued", "calling"},
                              est : Estimates \cup {0}]]
    /\ admitted \in Nat

LimiterInit ==
    /\ requests = 0
    /\ tokens = 0
    /\ elapsed = FALSE
    /\ queue = <<>>
    /\ tagger = [t \in Tagger |-> [pc |-> "idle", est |-> 0]]
    /\ admitted = 0

\* maybeResetWindow, before anything is decided.
Current(counter) == IF elapsed THEN 0 ELSE counter

\* Fault: a request that takes the window's last token does not fit.
CanProceedStrictly(n, est) ==
    /\ Current(requests) + n <= MaxRPM
    /\ Current(tokens) + est < MaxTPM

CanProceed(n, est) ==
    /\ Current(requests) + n <= MaxRPM
    /\ Current(tokens) + est <= MaxTPM

Consume(n, est) ==
    /\ requests' = Current(requests) + n
    /\ tokens' = Current(tokens) + est
    /\ admitted' = Current(admitted) + est
    /\ elapsed' = FALSE

\* acquire: the fast path does not look at the queue.
Acquire(t, est) ==
    /\ tagger[t].pc = "idle"
    /\ IF CanProceed(1, est)
       THEN /\ Consume(1, est)
            /\ tagger' = [tagger EXCEPT ![t] = [pc |-> "calling", est |-> est]]
            /\ UNCHANGED queue
       ELSE /\ Consume(0, 0)
            /\ tagger' = [tagger EXCEPT ![t] = [pc |-> "queued", est |-> est]]
            /\ queue' = Append(queue, t)

\* What the first n waiting taggers ask for.
Demand(n) ==
    LET sum[i \in 0..n] ==
          IF i = 0 THEN 0 ELSE sum[i - 1] + tagger[queue[i]].est
    IN  sum[n]

\* Fault: everyone who fits is released, whatever the requests.
ReleasableByTokens == Max({n \in 0..Len(queue) :
                             Current(tokens) + Demand(n) <= MaxTPM})

\* drain releases from the head of the queue while the head fits.
Releasable == Max({n \in 0..Len(queue) : CanProceed(n, Demand(n)) \/ n = 0})

Rest(n) == SubSeq(queue, n + 1, Len(queue))

Drain ==
    LET n == Releasable
        out == {queue[i] : i \in 1..n}
    IN  /\ queue # <<>>
        /\ elapsed \/ n > 0
        /\ Consume(n, Demand(n))
        /\ queue' = Rest(n)
        /\ tagger' = [t \in Tagger |->
             IF t \in out THEN [tagger[t] EXCEPT !.pc = "calling"]
             ELSE tagger[t]]

\* The call returns; reportUsage adds what it used beyond the estimate, to
\* the window of that moment, and reports nothing after an error.
Return(t) ==
    /\ tagger[t].pc = "calling"
    /\ \E extra \in 0..MaxExtra : tokens' = tokens + extra
    /\ tagger' = [tagger EXCEPT ![t] = [pc |-> "idle", est |-> 0]]
    /\ UNCHANGED <<requests, elapsed, queue, admitted>>

\* A minute that ends with all counters at zero resets nothing.
WindowEnds ==
    /\ ~elapsed
    /\ requests + tokens > 0
    /\ elapsed' = TRUE
    /\ UNCHANGED <<requests, tokens, queue, tagger, admitted>>

LimiterFairness ==
    /\ WF_limiterVars(Drain)
    /\ WF_limiterVars(WindowEnds)
    /\ \A t \in Tagger : WF_limiterVars(Return(t))

(***************************************************************************)
(* What is admitted within one window, by the fast path and by the timer   *)
(* together, stays within both budgets.                                    *)
(***************************************************************************)
WindowBudget == admitted <= MaxTPM /\ requests <= MaxRPM

(***************************************************************************)
(* A tagger that waits is released, once newcomers stop passing it.        *)
(***************************************************************************)
QueuedIsReleased ==
    \A t \in Tagger : tagger[t].pc = "queued" ~> tagger[t].pc = "calling"
=============================================================================
