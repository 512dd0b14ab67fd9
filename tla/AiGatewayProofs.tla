--------------------------- MODULE AiGatewayProofs ---------------------------
(***************************************************************************)
(* Proofs about the AI gateway, for every finite set of concurrent         *)
(* requests, every set of keys and every limit, cost and threshold.        *)
(***************************************************************************)
EXTENDS AiGateway, FiniteSetTheorems, TLAPS

-----------------------------------------------------------------------------
(***************************************************************************)
(* What the steps do to the requests.                                      *)
(***************************************************************************)
\* new differs from caller at most in c, which goes on with its key to one of
\* pcs, or ends.
Moves(c, new, pcs) ==
    /\ new \in [Caller -> CallerTypes]
    /\ \A d \in Caller \ {c} : new[d] = caller[d]
    /\ new[c].pc \in pcs
    /\ new[c].pc = "idle" \/ new[c].key = caller[c].key

LEMMA IdleType == Idle \in CallerTypes /\ Idle.pc = "idle"
<1>1. (CHOOSE k \in Key : TRUE) \in Key
  BY GatewayAssumption
<1>2. 0 \in 0..MaxAttempts
  BY GatewayAssumption
<1>. QED  BY <1>1, <1>2 DEF Idle, CallerTypes

\* Replacing one record of the requests by another with the same key.
LEMMA MoveTo ==
    ASSUME GatewayTypeOK, NEW c \in Caller, NEW rec \in CallerTypes,
           rec.pc = "idle" \/ rec.key = caller[c].key
    PROVE  Moves(c, [caller EXCEPT ![c] = rec], {rec.pc})
BY DEF Moves, GatewayTypeOK

LEMMA ThrownFacts ==
    ASSUME GatewayTypeOK, NEW c \in Caller, NEW t \in BOOLEAN
    PROVE  Moves(c, Thrown(c, t), {"fail", "idle"})
<1>. DEFINE rec == [caller[c] EXCEPT !.pc = "fail", !.transient = t,
                                     !.billed = FALSE]
<1>1. caller[c] \in CallerTypes
  BY DEF GatewayTypeOK
<1>2. rec \in CallerTypes /\ rec.pc = "fail" /\ rec.key = caller[c].key
  BY <1>1 DEF CallerTypes
<1>3. Thrown(c, t) = [caller EXCEPT ![c] = rec]
      \/ Thrown(c, t) = [caller EXCEPT ![c] = Idle]
  BY DEF Thrown, GatewayTypeOK
<1>. HIDE DEF rec
<1>4. Moves(c, [caller EXCEPT ![c] = rec], {"fail", "idle"})
  BY <1>2, MoveTo DEF Moves
<1>5. Moves(c, [caller EXCEPT ![c] = Idle], {"fail", "idle"})
  BY IdleType, MoveTo DEF Moves
<1>. QED  BY <1>3, <1>4, <1>5

LEMMA AfterFailureFacts ==
    ASSUME GatewayTypeOK, NEW c \in Caller
    PROVE  Moves(c, AfterFailure(c), {"limit", "idle"})
<1>. DEFINE r1 == [caller[c] EXCEPT !.pc = "limit", !.primary = FALSE,
                                    !.transient = FALSE]
            r2 == [caller[c] EXCEPT !.pc = "limit", !.left = @ - 1,
                                    !.transient = FALSE]
<1>1. caller[c] \in CallerTypes
  BY DEF GatewayTypeOK
<1>2. r1 \in CallerTypes /\ r1.pc = "limit" /\ r1.key = caller[c].key
  BY <1>1 DEF CallerTypes
<1>3. ASSUME caller[c].left > 0
      PROVE  r2 \in CallerTypes /\ r2.pc = "limit" /\ r2.key = caller[c].key
  <2>1. caller[c].left - 1 \in 0..MaxAttempts
    BY <1>1, <1>3, GatewayAssumption DEF CallerTypes
  <2>. QED  BY <1>1, <2>1 DEF CallerTypes
<1>4. \/ AfterFailure(c) = [caller EXCEPT ![c] = r1]
      \/ AfterFailure(c) = [caller EXCEPT ![c] = r2] /\ caller[c].left > 0
      \/ AfterFailure(c) = [caller EXCEPT ![c] = Idle]
  <2>1. CASE caller[c].transient /\ caller[c].fallback
    BY <2>1 DEF AfterFailure, GatewayTypeOK
  <2>2. CASE caller[c].transient /\ ~caller[c].fallback /\ caller[c].left > 0
    BY <2>2 DEF AfterFailure, GatewayTypeOK
  <2>3. CASE ~(caller[c].transient /\ caller[c].fallback)
             /\ ~(caller[c].transient /\ ~caller[c].fallback /\ caller[c].left > 0)
    BY <2>3 DEF AfterFailure, GatewayTypeOK
  <2>. QED  BY <2>1, <2>2, <2>3
<1>. HIDE DEF r1, r2
<1>5. Moves(c, [caller EXCEPT ![c] = r1], {"limit", "idle"})
  BY <1>2, MoveTo DEF Moves
<1>6. caller[c].left > 0 => Moves(c, [caller EXCEPT ![c] = r2], {"limit", "idle"})
  BY <1>3, MoveTo DEF Moves
<1>7. Moves(c, [caller EXCEPT ![c] = Idle], {"limit", "idle"})
  BY IdleType, MoveTo DEF Moves
<1>. QED  BY <1>4, <1>5, <1>6, <1>7

\* A change of place alone.
LEMMA GotoFacts ==
    ASSUME GatewayTypeOK, NEW c \in Caller,
           NEW pc \in {"idle", "limit", "balance", "call", "record", "deduct",
                       "mark", "succeed", "fail", "open"}
    PROVE  Moves(c, [caller EXCEPT ![c].pc = pc], {pc})
<1>. DEFINE rec == [caller[c] EXCEPT !.pc = pc]
<1>1. caller[c] \in CallerTypes
  BY DEF GatewayTypeOK
<1>2. rec \in CallerTypes /\ rec.pc = pc /\ rec.key = caller[c].key
  BY <1>1 DEF CallerTypes
<1>3. [caller EXCEPT ![c].pc = pc] = [caller EXCEPT ![c] = rec]
  BY DEF GatewayTypeOK
<1>. HIDE DEF rec
<1>. QED  BY <1>2, <1>3, MoveTo

\* A change of place and of who pays.
Placed(c, pc, b) == [caller EXCEPT ![c].pc = pc, ![c].billed = b]

LEMMA BilledFacts ==
    ASSUME GatewayTypeOK, NEW c \in Caller, NEW b \in BOOLEAN,
           NEW pc \in {"balance", "call", "record", "mark", "succeed"}
    PROVE  /\ Moves(c, Placed(c, pc, b), {pc})
           /\ Placed(c, pc, b)[c].billed = b
<1>. DEFINE rec == [caller[c] EXCEPT !.pc = pc, !.billed = b]
<1>1. caller[c] \in CallerTypes
  BY DEF GatewayTypeOK
<1>2. /\ rec \in CallerTypes /\ rec.pc = pc /\ rec.key = caller[c].key
      /\ rec.billed = b
  BY <1>1 DEF CallerTypes
<1>3. Placed(c, pc, b) = [caller EXCEPT ![c] = rec]
  BY DEF GatewayTypeOK, Placed
<1>. HIDE DEF rec
<1>4. [caller EXCEPT ![c] = rec][c] = rec
  BY DEF GatewayTypeOK
<1>. QED  BY <1>2, <1>3, <1>4, MoveTo

LEMMA FailureSteps ==
    ASSUME GatewayTypeOK, NEW c \in Caller, CountFailure(c) \/ OpenCircuit(c)
    PROVE  Moves(c, caller', {"open", "limit", "idle"})
<1>1. Moves(c, AfterFailure(c), {"open", "limit", "idle"})
  BY AfterFailureFacts DEF Moves
<1>2. Moves(c, [caller EXCEPT ![c].pc = "open"], {"open", "limit", "idle"})
  BY GotoFacts DEF Moves
<1>. QED  BY <1>1, <1>2 DEF CountFailure, OpenCircuit

LEMMA SucceedStep ==
    ASSUME GatewayTypeOK, NEW c \in Caller, Succeed(c)
    PROVE  Moves(c, caller', {"idle"})
BY IdleType, MoveTo DEF Succeed, Finish, Moves

\* A request that passes the limit is put down against the limit it passed.
LEMMA CheckLimitStep ==
    ASSUME GatewayTypeOK, NEW c \in Caller, CheckLimit(c)
    PROVE  \/ Moves(c, caller', {"fail", "idle"}) /\ capped' = capped
           \/ /\ Moves(c, caller', {"balance", "call"})
              /\ caller'[c].pc = "call" => ~caller'[c].billed
              /\ \E limit \in Effective :
                   /\ ~Exceeded(limit)
                   /\ capped' = IF capped = None \/ limit = None THEN None
                                ELSE IF limit > capped THEN limit ELSE capped
<1>1. PICK limit \in Effective, billed \in BOOLEAN, transient \in BOOLEAN :
        IF Exceeded(limit)
        THEN caller' = Thrown(c, transient) /\ UNCHANGED capped
        ELSE /\ caller' = [caller EXCEPT
                  ![c].pc = IF billed THEN "balance" ELSE "call",
                  ![c].billed = billed]
             /\ capped' = IF capped = None \/ limit = None THEN None
                          ELSE IF limit > capped THEN limit ELSE capped
  BY DEF CheckLimit
<1>2. CASE Exceeded(limit)
  BY <1>1, <1>2, ThrownFacts
<1>3. CASE ~Exceeded(limit)
  <2>1. CASE billed = TRUE
    <3>1. caller' = Placed(c, "balance", TRUE)
      BY <1>1, <1>3, <2>1 DEF Placed
    <3>2. Moves(c, caller', {"balance", "call"}) /\ caller'[c].pc # "call"
      <4>1. Moves(c, caller', {"balance"})
        BY <3>1, BilledFacts
      <4>. QED  BY <4>1 DEF Moves
    <3>. QED  BY <1>1, <1>3, <3>2
  <2>2. CASE billed = FALSE
    <3>1. caller' = Placed(c, "call", FALSE)
      BY <1>1, <1>3, <2>2 DEF Placed
    <3>2. Moves(c, caller', {"balance", "call"}) /\ ~caller'[c].billed
      <4>1. Moves(c, caller', {"call"}) /\ ~caller'[c].billed
        BY <3>1, BilledFacts
      <4>. QED  BY <4>1 DEF Moves
    <3>. QED  BY <1>1, <1>3, <3>2
  <2>. QED  BY <2>1, <2>2
<1>. QED  BY <1>2, <1>3

LEMMA CheckBalanceStep ==
    ASSUME GatewayTypeOK, NEW c \in Caller, CheckBalance(c)
    PROVE  \/ Moves(c, caller', {"fail", "idle"})
           \/ Moves(c, caller', {"call"}) /\ ~Overdrawn
<1>1. Moves(c, Thrown(c, FALSE), {"fail", "idle"})
  BY ThrownFacts
<1>2. Moves(c, [caller EXCEPT ![c].pc = "call"], {"call"})
  BY GotoFacts
<1>. QED  BY <1>1, <1>2 DEF CheckBalance

LEMMA CallProviderStep ==
    ASSUME GatewayTypeOK, NEW c \in Caller, CallProvider(c)
    PROVE  \/ Moves(c, caller', {"succeed", "fail", "idle"})
           \/ /\ Moves(c, caller', {"record"})
              /\ caller[c].key \notin marked
              /\ caller'[c].billed = caller[c].billed
<1>1. CASE \E transient \in BOOLEAN : caller' = Thrown(c, transient)
  BY <1>1, ThrownFacts DEF Moves
<1>2. CASE caller' = [caller EXCEPT ![c].pc = AfterCall(c),
                        ![c].billed = @ /\ AfterCall(c) = "record"]
  <2>1. caller[c].billed \in BOOLEAN
    BY DEF GatewayTypeOK, CallerTypes
  <2>2. CASE caller[c].key \in marked
    <3>1. AfterCall(c) = "succeed"
      BY <2>2 DEF AfterCall
    <3>2. caller' = Placed(c, "succeed", FALSE)
      BY <1>2, <3>1 DEF GatewayTypeOK, Placed
    <3>. QED  BY <3>2, BilledFacts DEF Moves
  <2>3. CASE caller[c].key \notin marked /\ caller[c].billed = TRUE
    <3>1. AfterCall(c) = "record"
      BY <2>3 DEF AfterCall
    <3>2. caller' = Placed(c, "record", TRUE)
      BY <1>2, <2>3, <3>1 DEF GatewayTypeOK, Placed
    <3>. QED  BY <2>3, <3>2, BilledFacts
  <2>4. CASE caller[c].key \notin marked /\ caller[c].billed = FALSE
    <3>1. AfterCall(c) = "record"
      BY <2>4 DEF AfterCall
    <3>2. caller' = Placed(c, "record", FALSE)
      BY <1>2, <2>4, <3>1 DEF GatewayTypeOK, Placed
    <3>3. Moves(c, caller', {"record"}) /\ ~caller'[c].billed
      BY <3>2, BilledFacts
    <3>4. caller'[c].billed \in BOOLEAN
      BY <3>3 DEF Moves, CallerTypes
    <3>. QED  BY <2>4, <3>3, <3>4
  <2>. QED  BY <2>1, <2>2, <2>3, <2>4
<1>. QED  BY <1>1, <1>2 DEF CallProvider

LEMMA RecordUsageStep ==
    ASSUME GatewayTypeOK, NEW c \in Caller, RecordUsage(c)
    PROVE  \/ Moves(c, caller', {"fail", "idle"}) /\ usage' = usage
           \/ /\ Moves(c, caller', {"deduct", "mark"})
              /\ caller'[c].pc = "deduct" => caller[c].billed
              /\ usage' = usage + 1
<1>1. Moves(c, Thrown(c, TRUE), {"fail", "idle"})
  BY ThrownFacts
<1>2. caller[c].billed \in BOOLEAN
  BY DEF GatewayTypeOK, CallerTypes
<1>3. CASE caller[c].billed
  <2>1. Moves(c, [caller EXCEPT ![c].pc = "deduct"], {"deduct", "mark"})
    BY GotoFacts DEF Moves
  <2>. QED  BY <1>1, <1>3, <2>1 DEF RecordUsage, Goto
<1>4. CASE ~caller[c].billed
  <2>1. Moves(c, [caller EXCEPT ![c].pc = "mark"], {"mark"})
    BY GotoFacts
  <2>2. Moves(c, [caller EXCEPT ![c].pc = "mark"], {"deduct", "mark"})
        /\ [caller EXCEPT ![c].pc = "mark"][c].pc # "deduct"
    BY <2>1 DEF Moves
  <2>. QED  BY <1>1, <1>4, <2>2 DEF RecordUsage, Goto
<1>. QED  BY <1>2, <1>3, <1>4

\* A deduction of at most MaxCost, put down for the key,
\* or none.
Deducted(c) ==
    \E cost \in 1..MaxCost :
        /\ row
        /\ balance' = balance - cost
        /\ charged' = [charged EXCEPT ![caller[c].key] = @ + 1]
        /\ exposed' \in {exposed, exposed \cup {caller[c].key}}
        /\ caller'[c].pc = "mark" \/ caller[c].key \in exposed'

LEMMA DeductStep ==
    ASSUME GatewayTypeOK, NEW c \in Caller, Deduct(c)
    PROVE  /\ Moves(c, caller', {"mark", "fail", "idle"})
           /\ \/ Deducted(c)
              \/ UNCHANGED <<balance, charged, exposed>>
<1>1. Moves(c, Thrown(c, TRUE), {"mark", "fail", "idle"})
  BY ThrownFacts DEF Moves
<1>2. /\ Moves(c, Placed(c, "mark", FALSE), {"mark", "fail", "idle"})
      /\ Placed(c, "mark", FALSE)[c].pc = "mark"
  BY BilledFacts DEF Moves
<1>3. CASE \E cost \in 1..MaxCost :
            /\ row
            /\ balance' = balance - cost
                /\ charged' = [charged EXCEPT ![caller[c].key] = @ + 1]
            /\ \/ Charged(c) /\ UNCHANGED exposed
               \/ /\ caller' = Thrown(c, TRUE)
                  /\ exposed' = exposed \cup {caller[c].key}
  BY <1>1, <1>2, <1>3 DEF Deducted, Charged, Placed
<1>4. CASE /\ Charged(c) \/ caller' = Thrown(c, TRUE)
           /\ UNCHANGED <<balance, charged, exposed>>
  BY <1>1, <1>2, <1>4 DEF Charged, Placed
<1>. QED  BY <1>3, <1>4 DEF Deduct

LEMMA MarkKeyStep ==
    ASSUME GatewayTypeOK, NEW c \in Caller, MarkKey(c)
    PROVE  Moves(c, caller', {"succeed"})
BY GotoFacts DEF MarkKey, Goto

\* A new request.
LEMMA RequestStep ==
    ASSUME GatewayTypeOK, NEW c \in Caller, NEW k \in Key, NEW fb \in BOOLEAN,
           Request(c, k, fb)
    PROVE  /\ caller' \in [Caller -> CallerTypes]
           /\ \A d \in Caller \ {c} : caller'[d] = caller[d]
           /\ caller'[c].pc = "limit" /\ caller'[c].key = k
<1>. DEFINE p == ~(circuit.open /\ fb)
            l == IF fb THEN 0 ELSE MaxAttempts - 1
            rec == [Idle EXCEPT !.pc = "limit", !.key = k, !.fallback = fb,
                                !.primary = p, !.left = l]
<1>1. l \in 0..MaxAttempts
  BY GatewayAssumption
<1>2. p \in BOOLEAN
  OBVIOUS
<1>3. caller' = [caller EXCEPT ![c] = rec]
  BY DEF Request
<1>4. rec \in CallerTypes /\ rec.pc = "limit" /\ rec.key = k
  <2>. HIDE DEF p, l
  <2>. QED  BY <1>1, <1>2, IdleType DEF CallerTypes
<1>. HIDE DEF rec
<1>. QED  BY <1>3, <1>4 DEF GatewayTypeOK

-----------------------------------------------------------------------------
(***************************************************************************)
(* Types.                                                                  *)
(***************************************************************************)
\* Every step of a request moves that request alone.
LEMMA CallerStepMoves ==
    ASSUME GatewayTypeOK, NEW c \in Caller, CallerStep(c)
    PROVE  /\ caller' \in [Caller -> CallerTypes]
           /\ \A d \in Caller \ {c} : caller'[d] = caller[d]
           /\ caller'[c].pc = "idle" \/ caller'[c].key = caller[c].key
<1>1. CASE CountFailure(c) \/ OpenCircuit(c)
  BY <1>1, FailureSteps DEF Moves
<1>2. CASE Succeed(c)
  BY <1>2, SucceedStep DEF Moves
<1>3. CASE CheckLimit(c)
  BY <1>3, CheckLimitStep DEF Moves
<1>4. CASE CheckBalance(c)
  BY <1>4, CheckBalanceStep DEF Moves
<1>5. CASE CallProvider(c)
  BY <1>5, CallProviderStep DEF Moves
<1>6. CASE RecordUsage(c)
  BY <1>6, RecordUsageStep DEF Moves
<1>7. CASE Deduct(c)
  BY <1>7, DeductStep DEF Moves
<1>8. CASE MarkKey(c)
  BY <1>8, MarkKeyStep DEF Moves
<1>. QED  BY <1>1, <1>2, <1>3, <1>4, <1>5, <1>6, <1>7, <1>8 DEF CallerStep

LEMMA InitTypes == Init => GatewayTypeOK
<1>1. None \in Limit \cup {None} /\ 0 \in Limit \cup {None, 0}
  OBVIOUS
<1>2. Init => caller \in [Caller -> CallerTypes]
  BY IdleType DEF Init
<1>3. Init => circuit \in [failures : Nat, open : BOOLEAN]
  BY DEF Init
<1>4. Init => row \in BOOLEAN
  BY DEF Init
<1>5. Init => defaults \subseteq Limit
  BY DEF Init
<1>6. Init => charged \in [Key -> Nat]
  BY DEF Init
<1>. QED  BY <1>1, <1>2, <1>3, <1>4, <1>5, <1>6 DEF Init, GatewayTypeOK

LEMMA CallerStepTypes ==
    ASSUME GatewayTypeOK, NEW c \in Caller, CallerStep(c)
    PROVE  GatewayTypeOK'
<1>0. caller' \in [Caller -> CallerTypes]
  BY CallerStepMoves
<1>1. CASE CountFailure(c)
  <2>1. circuit' \in [failures : Nat, open : BOOLEAN]
    BY <1>1 DEF GatewayTypeOK, CountFailure
  <2>. QED  BY <1>0, <1>1, <2>1 DEF GatewayTypeOK, CountFailure
<1>9. CASE OpenCircuit(c)
  <2>1. circuit' \in [failures : Nat, open : BOOLEAN]
    BY <1>9 DEF GatewayTypeOK, OpenCircuit
  <2>. QED  BY <1>0, <1>9, <2>1 DEF GatewayTypeOK, OpenCircuit
<1>2. CASE Succeed(c)
  <2>1. circuit' \in [failures : Nat, open : BOOLEAN]
    BY <1>2 DEF GatewayTypeOK, Succeed
  <2>. QED  BY <1>0, <1>2, <2>1 DEF GatewayTypeOK, Succeed
<1>3. CASE CheckLimit(c)
  <2>1. Effective \subseteq Limit \cup {None}
    BY DEF Effective, GatewayTypeOK
  <2>2. capped' \in Limit \cup {None, 0}
    BY <1>3, <2>1, CheckLimitStep DEF GatewayTypeOK
  <2>. QED  BY <1>0, <1>3, <2>2 DEF GatewayTypeOK, CheckLimit
<1>4. CASE CheckBalance(c)
  BY <1>0, <1>4 DEF GatewayTypeOK, CheckBalance
<1>5. CASE CallProvider(c)
  BY <1>0, <1>5 DEF GatewayTypeOK, CallProvider
<1>6. CASE RecordUsage(c)
  <2>1. usage' \in Nat
    BY <1>6, RecordUsageStep DEF GatewayTypeOK
  <2>. QED  BY <1>0, <1>6, <2>1 DEF GatewayTypeOK, RecordUsage
<1>7. CASE Deduct(c)
  <2>1. caller[c].key \in Key
    BY DEF GatewayTypeOK, CallerTypes
  <2>2. /\ balance' \in Int
        /\ charged' \in [Key -> Nat] /\ exposed' \subseteq Key
    <3>1. CASE Deducted(c)
      BY <2>1, <3>1, GatewayAssumption DEF GatewayTypeOK, Deducted
    <3>2. CASE UNCHANGED <<balance, charged, exposed>>
      BY <3>2 DEF GatewayTypeOK
    <3>. QED  BY <1>7, <3>1, <3>2, DeductStep
  <2>. QED  BY <1>0, <1>7, <2>2 DEF GatewayTypeOK, Deduct
<1>8. CASE MarkKey(c)
  <2>1. caller[c].key \in Key
    BY DEF GatewayTypeOK, CallerTypes
  <2>. QED  BY <1>0, <1>8, <2>1 DEF GatewayTypeOK, MarkKey
<1>. QED  BY <1>1, <1>2, <1>3, <1>4, <1>5, <1>6, <1>7, <1>8, <1>9 DEF CallerStep

LEMMA NextTypes == GatewayTypeOK /\ [Next]_vars => GatewayTypeOK'
<1>. SUFFICES ASSUME GatewayTypeOK, [Next]_vars PROVE GatewayTypeOK'
  OBVIOUS
<1>1. ASSUME NEW c \in Caller, NEW k \in Key, NEW fb \in BOOLEAN, Request(c, k, fb)
      PROVE  GatewayTypeOK'
  <2>1. caller' \in [Caller -> CallerTypes]
    BY <1>1, RequestStep
  <2>. QED  BY <1>1, <2>1 DEF GatewayTypeOK, Request
<1>2. ASSUME NEW c \in Caller, CallerStep(c) PROVE GatewayTypeOK'
  BY <1>2, CallerStepTypes
<1>3. CASE CircuitCools
  <2>1. circuit' \in [failures : Nat, open : BOOLEAN]
    <3>1. CASE circuit' = [circuit EXCEPT !.open = FALSE]
      BY <3>1 DEF GatewayTypeOK
    <3>2. CASE circuit' = [failures |-> 0, open |-> FALSE]
      BY <3>2
    <3>. QED  BY <1>3, <3>1, <3>2 DEF CircuitCools
  <2>. QED  BY <1>3, <2>1 DEF GatewayTypeOK, CircuitCools
<1>4. ASSUME NEW cents \in TopUps, AddBalance(cents) PROVE GatewayTypeOK'
  <2>1. cents \in Nat
    BY GatewayAssumption
  <2>. QED  BY <1>4, <2>1 DEF GatewayTypeOK, AddBalance
<1>5. ASSUME NEW limit \in Limit, SetLimit(limit) PROVE GatewayTypeOK'
  BY <1>5 DEF GatewayTypeOK, SetLimit
<1>6. CASE RemoveLimit
  BY <1>6 DEF GatewayTypeOK, RemoveLimit
<1>7. CASE NewWindow
  BY <1>7 DEF GatewayTypeOK, NewWindow
<1>8. CASE Restart
  BY <1>8, IdleType DEF GatewayTypeOK, Restart
<1>9. CASE UNCHANGED gatewayVars
  BY <1>9 DEF GatewayTypeOK, gatewayVars
<1>. QED  BY <1>1, <1>2, <1>3, <1>4, <1>5, <1>6, <1>7, <1>8, <1>9
          DEF Next, vars, TagAcquire, LimiterStep

(***************************************************************************)
(* The rows, the breaker and the requests keep their types.                *)
(***************************************************************************)
THEOREM GatewayTypes == Spec => []GatewayTypeOK
BY InitTypes, NextTypes, PTL DEF Spec

-----------------------------------------------------------------------------
(***************************************************************************)
(* Money.  A request holds a pass from the check of the balance to the     *)
(* deduction; every request without one may have spent MaxCost that was    *)
(* not there when it was checked.                                          *)
(***************************************************************************)
HasPass(rec) == rec.pc = "deduct" \/ (rec.pc \in {"call", "record"} /\ rec.billed)
Spent == {c \in Caller : ~HasPass(caller[c])}

MoneyInv ==
    /\ ~row => balance = 0
    /\ row => balance > 0 - MaxCost * Cardinality(Spent)

LEMMA Product ==
    ASSUME NEW m \in Nat, NEW n \in Nat, NEW k \in Nat
    PROVE  /\ k * n >= 0
           /\ m <= n => k * m <= k * n
           /\ k * (n + 1) = k * n + k
OBVIOUS

LEMMA SpentCounts ==
    /\ IsFiniteSet(Spent) /\ Cardinality(Spent) \in Nat
    /\ Cardinality(Spent) <= N
    /\ N \in Nat
<1>1. Spent \subseteq Caller
  BY DEF Spent
<1>. QED  BY <1>1, GatewayAssumption, FS_Subset, FS_CardinalityType DEF N

LEMMA SpentCountsNext ==
    /\ IsFiniteSet(Spent') /\ Cardinality(Spent') \in Nat
<1>1. Spent' \subseteq Caller
  BY DEF Spent
<1>. QED  BY <1>1, GatewayAssumption, FS_Subset, FS_CardinalityType

\* A step after which no request has a pass it did not have before.
LEMMA NoNewPass ==
    ASSUME MoneyInv, GatewayTypeOK, UNCHANGED <<row, balance>>,
           Spent \subseteq Spent'
    PROVE  MoneyInv'
<1>1. Cardinality(Spent) <= Cardinality(Spent')
  BY SpentCountsNext, FS_Subset
<1>2. MaxCost * Cardinality(Spent) <= MaxCost * Cardinality(Spent')
  BY <1>1, SpentCounts, SpentCountsNext, Product, GatewayAssumption
<1>3. /\ MaxCost * Cardinality(Spent) \in Int
      /\ MaxCost * Cardinality(Spent') \in Int
  BY SpentCounts, SpentCountsNext, GatewayAssumption
<1>4. (MaxCost * Cardinality(Spent))' = MaxCost * Cardinality(Spent')
  OBVIOUS
<1>. QED  BY <1>2, <1>3, <1>4 DEF MoneyInv, GatewayTypeOK

\* A request that goes on to a place without a pass.
LEMMA MovesToSpent ==
    ASSUME GatewayTypeOK, NEW c \in Caller,
           Moves(c, caller', {"idle", "limit", "balance", "mark", "succeed",
                              "fail", "open"})
    PROVE  Spent' = Spent \cup {c}
BY DEF Moves, Spent, HasPass

\* The pass is taken with money in the balance, or without a row.
LEMMA PassTaken ==
    ASSUME MoneyInv, GatewayTypeOK, ~Overdrawn,
           UNCHANGED <<row, balance>>
    PROVE  MoneyInv'
<1>1. MaxCost * Cardinality(Spent') >= 0 /\ MaxCost * Cardinality(Spent') \in Int
  BY SpentCountsNext, Product, GatewayAssumption
<1>. QED  BY <1>1 DEF MoneyInv, GatewayTypeOK, Overdrawn

\* The deduction spends the pass.
LEMMA DeductMoney ==
    ASSUME MoneyInv, GatewayTypeOK, NEW c \in Caller, Deduct(c)
    PROVE  MoneyInv'
<1>1. Spent' = Spent \cup {c}
  BY DeductStep, MovesToSpent DEF Moves
<1>2. c \notin Spent
  BY DEF Spent, HasPass, Deduct
<1>3. UNCHANGED row
  BY DEF Deduct
<1>4. CASE UNCHANGED <<balance, charged, exposed>>
  BY <1>1, <1>3, <1>4, NoNewPass
<1>5. CASE Deducted(c)
  <2>1. Cardinality(Spent') = Cardinality(Spent) + 1
    BY <1>1, <1>2, SpentCounts, FS_AddElement
  <2>2. MaxCost * Cardinality(Spent') = MaxCost * Cardinality(Spent) + MaxCost
    BY <2>1, SpentCounts, Product, GatewayAssumption
  <2>3. MaxCost * Cardinality(Spent) \in Int /\ MaxCost \in Int
    BY SpentCounts, GatewayAssumption
  <2>4. PICK cost \in 1..MaxCost :
          row /\ balance' = balance - cost
    BY <1>5 DEF Deducted
  <2>. QED  BY <1>3, <2>2, <2>3, <2>4 DEF MoneyInv, GatewayTypeOK
<1>. QED  BY <1>4, <1>5, DeductStep

LEMMA CallerStepMoney ==
    ASSUME MoneyInv, GatewayTypeOK, NEW c \in Caller, CallerStep(c)
    PROVE  MoneyInv'
<1>. DEFINE Free == {"idle", "limit", "balance", "mark", "succeed", "fail", "open"}
<1>1. ASSUME UNCHANGED <<row, balance>>,
             Moves(c, caller', Free)
      PROVE  MoneyInv'
  BY <1>1, MovesToSpent, NoNewPass
<1>2. CASE CountFailure(c) \/ OpenCircuit(c)
  <2>1. Moves(c, caller', Free)
    BY <1>2, FailureSteps DEF Moves
  <2>. QED  BY <1>1, <1>2, <2>1 DEF CountFailure, OpenCircuit
<1>3. CASE Succeed(c)
  <2>1. Moves(c, caller', Free)
    BY <1>3, SucceedStep DEF Moves
  <2>. QED  BY <1>1, <1>3, <2>1 DEF Succeed
<1>4. CASE CheckLimit(c)
  <2>1. UNCHANGED <<row, balance>>
    BY <1>4 DEF CheckLimit
  <2>2. CASE Moves(c, caller', {"fail", "idle"})
    BY <1>1, <2>1, <2>2 DEF Moves
  <2>3. CASE /\ Moves(c, caller', {"balance", "call"})
             /\ caller'[c].pc = "call" => ~caller'[c].billed
    <3>1. Spent' = Spent \cup {c}
      BY <2>3 DEF Moves, Spent, HasPass
    <3>. QED  BY <2>1, <3>1, NoNewPass
  <2>. QED  BY <1>4, <2>2, <2>3, CheckLimitStep
<1>5. CASE CheckBalance(c)
  <2>1. UNCHANGED <<row, balance>>
    BY <1>5 DEF CheckBalance
  <2>2. CASE Moves(c, caller', {"fail", "idle"})
    BY <1>1, <2>1, <2>2 DEF Moves
  <2>3. CASE ~Overdrawn
    BY <2>1, <2>3, PassTaken
  <2>. QED  BY <1>5, <2>2, <2>3, CheckBalanceStep
<1>6. CASE CallProvider(c)
  <2>1. UNCHANGED <<row, balance>>
    BY <1>6 DEF CallProvider
  <2>2. CASE Moves(c, caller', {"succeed", "fail", "idle"})
    BY <1>1, <2>1, <2>2 DEF Moves
  <2>3. CASE /\ Moves(c, caller', {"record"})
             /\ caller'[c].billed = caller[c].billed
    <3>1. Spent \subseteq Spent'
      BY <1>6, <2>3 DEF Moves, Spent, HasPass, CallProvider
    <3>. QED  BY <2>1, <3>1, NoNewPass
  <2>. QED  BY <1>6, <2>2, <2>3, CallProviderStep
<1>7. CASE RecordUsage(c)
  <2>1. UNCHANGED <<row, balance>>
    BY <1>7 DEF RecordUsage
  <2>2. CASE Moves(c, caller', {"fail", "idle"})
    BY <1>1, <2>1, <2>2 DEF Moves
  <2>3. CASE /\ Moves(c, caller', {"deduct", "mark"})
             /\ caller'[c].pc = "deduct" => caller[c].billed
    <3>1. Spent \subseteq Spent'
      BY <1>7, <2>3 DEF Moves, Spent, HasPass, RecordUsage
    <3>. QED  BY <2>1, <3>1, NoNewPass
  <2>. QED  BY <1>7, <2>2, <2>3, RecordUsageStep
<1>8. CASE Deduct(c)
  BY <1>8, DeductMoney
<1>9. CASE MarkKey(c)
  <2>1. Moves(c, caller', Free)
    BY <1>9, MarkKeyStep DEF Moves
  <2>. QED  BY <1>1, <1>9, <2>1 DEF MarkKey
<1>. QED  BY <1>2, <1>3, <1>4, <1>5, <1>6, <1>7, <1>8, <1>9 DEF CallerStep

LEMMA InitMoney == Init => MoneyInv
BY DEF Init, MoneyInv

LEMMA NextMoney == MoneyInv /\ GatewayTypeOK /\ [Next]_vars => MoneyInv'
<1>. SUFFICES ASSUME MoneyInv, GatewayTypeOK, [Next]_vars PROVE MoneyInv'
  OBVIOUS
<1>1. ASSUME NEW c \in Caller, NEW k \in Key, NEW fb \in BOOLEAN, Request(c, k, fb)
      PROVE  MoneyInv'
  <2>1. Spent \subseteq Spent'
    BY <1>1, RequestStep DEF Spent, HasPass
  <2>. QED  BY <1>1, <2>1, NoNewPass DEF Request
<1>2. ASSUME NEW c \in Caller, CallerStep(c) PROVE MoneyInv'
  BY <1>2, CallerStepMoney
<1>3. ASSUME UNCHANGED <<caller, row, balance>> PROVE MoneyInv'
  <2>1. Spent' = Spent
    BY <1>3 DEF Spent
  <2>. QED  BY <1>3, <2>1, NoNewPass
<1>4. ASSUME NEW cents \in TopUps, AddBalance(cents) PROVE MoneyInv'
  <2>1. cents \in Nat /\ cents > 0
    BY GatewayAssumption
  <2>2. Spent' = Spent
    BY <1>4 DEF Spent, AddBalance
  <2>3. MaxCost * Cardinality(Spent) >= 0 /\ MaxCost * Cardinality(Spent) \in Int
    BY SpentCounts, Product, GatewayAssumption
  <2>. QED  BY <1>4, <2>1, <2>2, <2>3 DEF MoneyInv, GatewayTypeOK, AddBalance
<1>5. CASE Restart
  <2>1. Spent' = Caller
    BY <1>5, IdleType DEF Restart, Spent, HasPass
  <2>. QED  BY <1>5, <2>1, NoNewPass DEF Restart, Spent
<1>6. CASE CircuitCools
  BY <1>3, <1>6 DEF CircuitCools
<1>7. ASSUME NEW limit \in Limit, SetLimit(limit) PROVE MoneyInv'
  BY <1>3, <1>7 DEF SetLimit
<1>8. CASE RemoveLimit \/ NewWindow
  BY <1>3, <1>8 DEF RemoveLimit, NewWindow
<1>9. CASE UNCHANGED gatewayVars
  BY <1>3, <1>9 DEF gatewayVars
<1>. QED  BY <1>1, <1>2, <1>4, <1>5, <1>6, <1>7, <1>8, <1>9
          DEF Next, vars, TagAcquire, LimiterStep

\* The money invariant holds of every gateway.
LEMMA MoneyAlways == Spec => []MoneyInv
BY InitMoney, NextMoney, GatewayTypes, PTL DEF Spec

(***************************************************************************)
(* enforceBalance and deductBalance are awaits apart, and still any number *)
(* of concurrent requests overdraws the balance by at most one call's cost *)
(* each.                                                                   *)
(***************************************************************************)
THEOREM OverdraftIsBounded == Spec => []OverdraftBounded
<1>1. MoneyInv /\ GatewayTypeOK => OverdraftBounded
  <2>1. MaxCost * Cardinality(Spent) <= MaxCost * N
    BY SpentCounts, Product, GatewayAssumption
  <2>2. MaxCost * Cardinality(Spent) \in Int /\ MaxCost * N \in Int
    BY SpentCounts, GatewayAssumption
  <2>. QED  BY <2>1, <2>2 DEF MoneyInv, GatewayTypeOK, OverdraftBounded
<1>. QED  BY <1>1, MoneyAlways, GatewayTypes, PTL

-----------------------------------------------------------------------------
(***************************************************************************)
(* Limits.  A request that passed its limit is counted when its usage is   *)
(* recorded: until then it is pending, and every other one may have been   *)
(* counted since the check.                                                *)
(***************************************************************************)
Pending == {c \in Caller : caller[c].pc \in {"balance", "call", "record"}}
Counted == Caller \ Pending

LimitInv ==
    capped # None =>
        /\ Pending # {} => capped >= 1
        /\ usage > 0 => usage < capped + Cardinality(Counted)

LEMMA CountedCounts ==
    /\ IsFiniteSet(Counted) /\ Cardinality(Counted) \in Nat
    /\ Cardinality(Counted) <= N
    /\ N \in Nat
<1>1. Counted \subseteq Caller
  BY DEF Counted
<1>. QED  BY <1>1, GatewayAssumption, FS_Subset, FS_CardinalityType DEF N

LEMMA CountedCountsNext ==
    /\ IsFiniteSet(Counted') /\ Cardinality(Counted') \in Nat
<1>1. Counted' \subseteq Caller
  BY DEF Counted
<1>. QED  BY <1>1, GatewayAssumption, FS_Subset, FS_CardinalityType

\* The limits of the rows and the cap are numbers.
LEMMA CapType ==
    ASSUME GatewayTypeOK
    PROVE  capped \in Int /\ (capped # None => capped \in Nat)
BY GatewayAssumption DEF GatewayTypeOK, None

\* A step that lets nobody pass a limit and counts nothing.
LEMMA NobodyPasses ==
    ASSUME LimitInv, GatewayTypeOK, UNCHANGED <<usage, capped>>,
           Pending' \subseteq Pending
    PROVE  LimitInv'
<1>1. Counted \subseteq Counted'
  BY DEF Counted
<1>2. Cardinality(Counted) <= Cardinality(Counted')
  BY <1>1, CountedCountsNext, FS_Subset
<1>. QED  BY <1>2, CapType, CountedCounts, CountedCountsNext
          DEF LimitInv, GatewayTypeOK

LEMMA CheckLimitLimit ==
    ASSUME LimitInv, GatewayTypeOK, NEW c \in Caller, CheckLimit(c)
    PROVE  LimitInv'
<1>1. usage' = usage
  BY DEF CheckLimit
<1>2. CASE Moves(c, caller', {"fail", "idle"}) /\ capped' = capped
  <2>1. Pending' \subseteq Pending
    BY <1>2 DEF Moves, Pending
  <2>. QED  BY <1>1, <1>2, <2>1, NobodyPasses
<1>3. ASSUME NEW limit \in Effective, ~Exceeded(limit),
             capped' = IF capped = None \/ limit = None THEN None
                       ELSE IF limit > capped THEN limit ELSE capped
      PROVE  LimitInv'
  <2>1. limit = None \/ limit \in Nat
    BY GatewayAssumption DEF Effective, GatewayTypeOK
  <2>2. limit # None => usage < limit
    BY <1>3, <2>1 DEF Exceeded, GatewayTypeOK
  <2>3. capped' # None => capped' \in Nat /\ capped' >= 1 /\ usage < capped'
    BY <1>3, <2>1, <2>2, CapType DEF GatewayTypeOK
  <2>. QED  BY <1>1, <2>3, CountedCountsNext DEF LimitInv, GatewayTypeOK
<1>. QED  BY <1>2, <1>3, CheckLimitStep

LEMMA RecordLimit ==
    ASSUME LimitInv, GatewayTypeOK, NEW c \in Caller, RecordUsage(c)
    PROVE  LimitInv'
<1>1. c \in Pending /\ capped' = capped
  BY DEF RecordUsage, Pending
<1>2. CASE Moves(c, caller', {"fail", "idle"}) /\ usage' = usage
  <2>1. Pending' \subseteq Pending
    BY <1>2 DEF Moves, Pending
  <2>. QED  BY <1>1, <1>2, <2>1, NobodyPasses
<1>3. CASE Moves(c, caller', {"deduct", "mark"}) /\ usage' = usage + 1
  <2>1. Pending' = Pending \ {c}
    BY <1>3 DEF Moves, Pending
  <2>2. Counted' = Counted \cup {c} /\ c \notin Counted
    BY <1>1, <2>1 DEF Counted
  <2>3. Cardinality(Counted') = Cardinality(Counted) + 1
    BY <2>2, CountedCounts, FS_AddElement
  <2>4. capped # None => capped >= 1
    BY <1>1 DEF LimitInv
  <2>. QED  BY <1>1, <1>3, <2>3, <2>4, CapType, CountedCounts
            DEF LimitInv, GatewayTypeOK
<1>. QED  BY <1>2, <1>3, RecordUsageStep

LEMMA CallerStepLimit ==
    ASSUME LimitInv, GatewayTypeOK, NEW c \in Caller, CallerStep(c)
    PROVE  LimitInv'
<1>1. CASE CountFailure(c) \/ OpenCircuit(c)
  <2>1. Pending' \subseteq Pending
    BY <1>1, FailureSteps DEF Moves, Pending
  <2>. QED  BY <1>1, <2>1, NobodyPasses DEF CountFailure, OpenCircuit
<1>2. CASE Succeed(c)
  <2>1. Pending' \subseteq Pending
    BY <1>2, SucceedStep DEF Moves, Pending
  <2>. QED  BY <1>2, <2>1, NobodyPasses DEF Succeed
<1>3. CASE CheckLimit(c)
  BY <1>3, CheckLimitLimit
<1>4. CASE CheckBalance(c)
  <2>1. c \in Pending
    BY <1>4 DEF CheckBalance, Pending
  <2>2. Pending' \subseteq Pending
    BY <1>4, <2>1, CheckBalanceStep DEF Moves, Pending
  <2>. QED  BY <1>4, <2>2, NobodyPasses DEF CheckBalance
<1>5. CASE CallProvider(c)
  <2>1. c \in Pending
    BY <1>5 DEF CallProvider, Pending
  <2>2. Pending' \subseteq Pending
    BY <1>5, <2>1, CallProviderStep DEF Moves, Pending
  <2>. QED  BY <1>5, <2>2, NobodyPasses DEF CallProvider
<1>6. CASE RecordUsage(c)
  BY <1>6, RecordLimit
<1>7. CASE Deduct(c)
  <2>1. Pending' \subseteq Pending
    BY <1>7, DeductStep DEF Moves, Pending
  <2>. QED  BY <1>7, <2>1, NobodyPasses DEF Deduct
<1>8. CASE MarkKey(c)
  <2>1. Pending' \subseteq Pending
    BY <1>8, MarkKeyStep DEF Moves, Pending
  <2>. QED  BY <1>8, <2>1, NobodyPasses DEF MarkKey
<1>. QED  BY <1>1, <1>2, <1>3, <1>4, <1>5, <1>6, <1>7, <1>8 DEF CallerStep

LEMMA InitLimit == Init => LimitInv
BY IdleType DEF Init, LimitInv, Pending

LEMMA NextLimit == LimitInv /\ GatewayTypeOK /\ [Next]_vars => LimitInv'
<1>. SUFFICES ASSUME LimitInv, GatewayTypeOK, [Next]_vars PROVE LimitInv'
  OBVIOUS
<1>1. ASSUME NEW c \in Caller, NEW k \in Key, NEW fb \in BOOLEAN, Request(c, k, fb)
      PROVE  LimitInv'
  <2>1. Pending' \subseteq Pending
    BY <1>1, RequestStep DEF Pending
  <2>. QED  BY <1>1, <2>1, NobodyPasses DEF Request
<1>2. ASSUME NEW c \in Caller, CallerStep(c) PROVE LimitInv'
  BY <1>2, CallerStepLimit
<1>3. ASSUME UNCHANGED <<caller, usage, capped>> PROVE LimitInv'
  <2>1. Pending' = Pending
    BY <1>3 DEF Pending
  <2>. QED  BY <1>3, <2>1, NobodyPasses
<1>4. ASSUME NEW cents \in TopUps, AddBalance(cents) PROVE LimitInv'
  BY <1>3, <1>4 DEF AddBalance
<1>5. CASE Restart
  <2>1. Pending' = {}
    BY <1>5, IdleType DEF Restart, Pending
  <2>. QED  BY <1>5, <2>1, NobodyPasses DEF Restart
<1>6. CASE CircuitCools
  BY <1>3, <1>6 DEF CircuitCools
<1>7. ASSUME NEW limit \in Limit, SetLimit(limit) PROVE LimitInv'
  BY <1>3, <1>7 DEF SetLimit
<1>8. CASE RemoveLimit
  BY <1>3, <1>8 DEF RemoveLimit
<1>9. CASE NewWindow
  <2>1. Pending' = Pending /\ usage' = 0
    BY <1>9 DEF NewWindow, Pending
  <2>2. Pending # {} => capped' = capped
    BY <1>9 DEF NewWindow, Pending
  <2>. QED  BY <2>1, <2>2 DEF LimitInv
<1>10. CASE UNCHANGED gatewayVars
  BY <1>3, <1>10 DEF gatewayVars
<1>. QED  BY <1>1, <1>2, <1>4, <1>5, <1>6, <1>7, <1>8, <1>9, <1>10
          DEF Next, vars, TagAcquire, LimiterStep

(***************************************************************************)
(* enforceLimit counts only recorded usage, and still the usage            *)
(* of a window passes the highest limit enforced in it by less than the    *)
(* number of requests that run at the same time.                           *)
(***************************************************************************)
THEOREM OvershootIsBounded == Spec => []LimitOvershoot
<1>1. LimitInv /\ GatewayTypeOK => LimitOvershoot
  BY CapType, CountedCounts DEF LimitInv, GatewayTypeOK, LimitOvershoot
<1>. QED  BY <1>1, InitLimit, NextLimit, GatewayTypes, PTL DEF Spec

-----------------------------------------------------------------------------
(***************************************************************************)
(* Keys.  A key that was never exposed has one request at a time; what it  *)
(* was charged is marked, or about to be, before another request can come  *)
(* as far as recording its usage.                                          *)
(***************************************************************************)
Holds(c, k) == caller[c].pc # "idle" /\ caller[c].key = k

KeyOK(k) ==
    /\ \A c, d \in Caller : Holds(c, k) /\ Holds(d, k) => c = d
    /\ charged[k] <= 1
    /\ charged[k] = 1 =>
         \/ k \in marked
         \/ \E c \in Caller : Holds(c, k) /\ caller[c].pc = "mark"
    /\ k \in marked =>
         \A c \in Caller : Holds(c, k) => caller[c].pc \notin {"record", "deduct"}

KeyInv == \A k \in Key \ exposed : KeyOK(k)

\* A request moves, other than from the mark and to the record of usage.
LEMMA KeyMoves ==
    ASSUME GatewayTypeOK, NEW k \in Key, KeyOK(k), NEW c \in Caller,
           UNCHANGED <<charged, marked>>,
           \A d \in Caller \ {c} : caller'[d] = caller[d],
           caller'[c].pc = "idle" \/ caller'[c].key = caller[c].key,
           caller[c].pc \notin {"idle", "mark"},
           caller'[c].pc \in {"record", "deduct"} =>
               caller[c].key \notin marked
    PROVE  KeyOK(k)'
<1>1. \A d \in Caller : Holds(d, k)' => Holds(d, k)
  BY DEF Holds
<1>2. \A d \in Caller : Holds(d, k) /\ caller[d].pc = "mark"
                        => Holds(d, k)' /\ caller'[d].pc = "mark"
  BY DEF Holds
<1>3. k \in marked => \A d \in Caller : Holds(d, k)' =>
                          caller'[d].pc \notin {"record", "deduct"}
  BY <1>1 DEF Holds, KeyOK
<1>. QED  BY <1>1, <1>2, <1>3 DEF KeyOK

\* The charge.
LEMMA KeyDeduct ==
    ASSUME GatewayTypeOK, NEW k \in Key, KeyOK(k), NEW c \in Caller, Deduct(c),
           k \notin exposed'
    PROVE  KeyOK(k)'
<1>1. /\ Moves(c, caller', {"mark", "fail", "idle"})
      /\ caller[c].pc = "deduct" /\ marked' = marked
  BY DeductStep DEF Deduct
<1>2. CASE UNCHANGED <<balance, charged, exposed>> \/ caller[c].key # k
  <2>1. charged'[k] = charged[k]
    BY <1>2, DeductStep DEF Deducted, GatewayTypeOK
  <2>2. \A d \in Caller : Holds(d, k)' => Holds(d, k)
    BY <1>1 DEF Holds, Moves
  <2>3. \A d \in Caller : Holds(d, k) /\ caller[d].pc = "mark"
                          => Holds(d, k)' /\ caller'[d].pc = "mark"
    BY <1>1 DEF Holds, Moves
  <2>4. k \in marked => \A d \in Caller : Holds(d, k)' =>
                            caller'[d].pc \notin {"record", "deduct"}
    BY <1>1, <2>2 DEF Holds, KeyOK, Moves
  <2>. QED  BY <1>1, <2>1, <2>2, <2>3, <2>4 DEF KeyOK
<1>3. CASE Deducted(c) /\ caller[c].key = k
  <2>1. caller'[c].pc = "mark"
    BY <1>3 DEF Deducted
  <2>2. Holds(c, k) /\ Holds(c, k)'
    BY <1>1, <1>3, <2>1 DEF Holds, Moves
  <2>3. k \notin marked
    BY <1>1, <2>2 DEF KeyOK
  <2>4. charged[k] # 1
    BY <1>1, <2>2, <2>3 DEF KeyOK
  <2>5. charged'[k] = 1
    <3>1. charged'[k] = charged[k] + 1
      BY <1>3 DEF Deducted, GatewayTypeOK
    <3>. QED  BY <2>4, <3>1 DEF KeyOK, GatewayTypeOK
  <2>6. \A d \in Caller : Holds(d, k)' => d = c
    BY <1>1, <2>2 DEF Holds, Moves, KeyOK
  <2>. QED  BY <1>1, <2>1, <2>2, <2>3, <2>5, <2>6 DEF KeyOK
<1>. QED  BY <1>2, <1>3, DeductStep

\* The mark.
LEMMA KeyMark ==
    ASSUME GatewayTypeOK, NEW k \in Key, KeyOK(k), NEW c \in Caller, MarkKey(c)
    PROVE  KeyOK(k)'
<1>1. /\ Moves(c, caller', {"succeed"})
      /\ caller[c].pc = "mark" /\ charged' = charged
      /\ marked' = marked \cup {caller[c].key}
  BY MarkKeyStep DEF MarkKey
<1>2. \A d \in Caller : Holds(d, k)' => Holds(d, k)
  BY <1>1 DEF Holds, Moves
<1>3. CASE caller[c].key = k
  <2>1. Holds(c, k)
    BY <1>1, <1>3 DEF Holds
  <2>2. \A d \in Caller : Holds(d, k)' => d = c
    BY <1>2, <2>1 DEF KeyOK
  <2>. QED  BY <1>1, <1>2, <1>3, <2>2 DEF KeyOK, Moves
<1>4. CASE caller[c].key # k
  <2>1. k \in marked' <=> k \in marked
    BY <1>1, <1>4
  <2>2. \A d \in Caller : Holds(d, k) => d # c /\ caller'[d] = caller[d]
    BY <1>1, <1>4 DEF Holds, Moves
  <2>. QED  BY <1>1, <1>2, <2>1, <2>2 DEF KeyOK, Holds
<1>. QED  BY <1>3, <1>4

LEMMA CallerStepKeys ==
    ASSUME GatewayTypeOK, KeyInv, NEW c \in Caller, CallerStep(c)
    PROVE  KeyInv'
<1>. SUFFICES ASSUME NEW k \in Key, k \notin exposed' PROVE KeyOK(k)'
  BY DEF KeyInv
<1>1. exposed \subseteq exposed'
  BY DeductStep DEF CallerStep, CountFailure, OpenCircuit, Succeed, CheckLimit,
     CheckBalance, CallProvider, RecordUsage, MarkKey, Deducted
<1>2. KeyOK(k)
  BY <1>1 DEF KeyInv
<1>3. /\ \A d \in Caller \ {c} : caller'[d] = caller[d]
      /\ caller'[c].pc = "idle" \/ caller'[c].key = caller[c].key
  BY CallerStepMoves
<1>4. ASSUME UNCHANGED <<charged, marked>>,
             caller[c].pc \notin {"idle", "mark"},
             caller'[c].pc \notin {"record", "deduct"}
      PROVE  KeyOK(k)'
  BY <1>2, <1>3, <1>4, KeyMoves
<1>5. CASE CountFailure(c) \/ OpenCircuit(c)
  <2>1. caller'[c].pc \notin {"record", "deduct"}
    BY <1>5, FailureSteps DEF Moves
  <2>. QED  BY <1>4, <1>5, <2>1 DEF CountFailure, OpenCircuit
<1>6. CASE Succeed(c)
  <2>1. caller'[c].pc \notin {"record", "deduct"}
    BY <1>6, SucceedStep DEF Moves
  <2>. QED  BY <1>4, <1>6, <2>1 DEF Succeed
<1>7. CASE CheckLimit(c)
  <2>1. caller'[c].pc \notin {"record", "deduct"}
    BY <1>7, CheckLimitStep DEF Moves
  <2>. QED  BY <1>4, <1>7, <2>1 DEF CheckLimit
<1>8. CASE CheckBalance(c)
  <2>1. caller'[c].pc \notin {"record", "deduct"}
    BY <1>8, CheckBalanceStep DEF Moves
  <2>. QED  BY <1>4, <1>8, <2>1 DEF CheckBalance
<1>9. CASE CallProvider(c)
  <2>1. UNCHANGED <<charged, marked>> /\ caller[c].pc = "call"
    BY <1>9 DEF CallProvider
  <2>2. caller'[c].pc \in {"record", "deduct"} => caller[c].key \notin marked
    BY <1>9, CallProviderStep DEF Moves
  <2>. QED  BY <1>2, <1>3, <2>1, <2>2, KeyMoves
<1>10. CASE RecordUsage(c)
  <2>1. UNCHANGED <<charged, marked>> /\ caller[c].pc = "record"
    BY <1>10 DEF RecordUsage
  <2>2. CASE caller[c].key = k
    <3>1. k \notin marked
      BY <1>2, <2>1, <2>2 DEF KeyOK, Holds
    <3>. QED  BY <1>2, <1>3, <2>1, <2>2, <3>1, KeyMoves
  <2>3. CASE caller[c].key # k
    <3>1. \A d \in Caller : Holds(d, k) <=> Holds(d, k)'
      BY <1>3, <2>1, <2>3 DEF Holds
    <3>2. \A d \in Caller : Holds(d, k) => caller'[d] = caller[d]
      BY <1>3, <2>3 DEF Holds
    <3>. QED  BY <1>2, <2>1, <3>1, <3>2 DEF KeyOK
  <2>. QED  BY <2>2, <2>3
<1>11. CASE Deduct(c)
  BY <1>2, <1>11, KeyDeduct
<1>12. CASE MarkKey(c)
  BY <1>2, <1>12, KeyMark
<1>. QED  BY <1>5, <1>6, <1>7, <1>8, <1>9, <1>10, <1>11, <1>12 DEF CallerStep

LEMMA InitKeys == Init => KeyInv
BY IdleType DEF Init, KeyInv, KeyOK, Holds

LEMMA NextKeys == KeyInv /\ GatewayTypeOK /\ [Next]_vars => KeyInv'
<1>. SUFFICES ASSUME KeyInv, GatewayTypeOK, [Next]_vars PROVE KeyInv'
  OBVIOUS
<1>1. ASSUME NEW c \in Caller, NEW q \in Key, NEW fb \in BOOLEAN, Request(c, q, fb)
      PROVE  KeyInv'
  <2>. SUFFICES ASSUME NEW k \in Key, k \notin exposed' PROVE KeyOK(k)'
    BY DEF KeyInv
  <2>1. KeyOK(k) /\ UNCHANGED <<charged, marked>> /\ caller[c].pc = "idle"
    BY <1>1 DEF KeyInv, Request
  <2>2. /\ \A d \in Caller \ {c} : caller'[d] = caller[d]
        /\ caller'[c].pc = "limit" /\ caller'[c].key = q
    BY <1>1, RequestStep
  <2>3. q = k => \A d \in Caller : ~Holds(d, k)
    BY <1>1 DEF Request, Holds
  <2>4. \A d \in Caller : Holds(d, k) => Holds(d, k)' /\ caller'[d] = caller[d]
    BY <2>1, <2>2 DEF Holds
  <2>5. \A d \in Caller : Holds(d, k)' => Holds(d, k) \/ (d = c /\ q = k)
    BY <2>2 DEF Holds
  <2>6. \A d, e \in Caller : Holds(d, k)' /\ Holds(e, k)' => d = e
    BY <2>1, <2>3, <2>5 DEF KeyOK
  <2>7. k \in marked => \A d \in Caller : Holds(d, k)' =>
                            caller'[d].pc \notin {"record", "deduct"}
    BY <2>1, <2>2, <2>4, <2>5 DEF KeyOK
  <2>. QED  BY <2>1, <2>4, <2>6, <2>7 DEF KeyOK
<1>2. ASSUME NEW c \in Caller, CallerStep(c) PROVE KeyInv'
  BY <1>2, CallerStepKeys
<1>3. ASSUME UNCHANGED <<caller, marked, charged, exposed>> PROVE KeyInv'
  BY <1>3 DEF KeyInv, KeyOK, Holds
<1>4. ASSUME NEW cents \in TopUps, AddBalance(cents) PROVE KeyInv'
  BY <1>3, <1>4 DEF AddBalance
<1>5. CASE Restart
  <2>. SUFFICES ASSUME NEW k \in Key, k \notin exposed' PROVE KeyOK(k)'
    BY DEF KeyInv
  <2>1. \A d \in Caller : ~Holds(d, k)'
    BY <1>5, IdleType DEF Restart, Holds
  <2>2. charged'[k] = 0 /\ k \notin marked'
    BY <1>5 DEF Restart, GatewayTypeOK
  <2>. QED  BY <2>1, <2>2 DEF KeyOK
<1>6. CASE CircuitCools
  BY <1>3, <1>6 DEF CircuitCools
<1>7. ASSUME NEW limit \in Limit, SetLimit(limit) PROVE KeyInv'
  BY <1>3, <1>7 DEF SetLimit
<1>8. CASE RemoveLimit \/ NewWindow
  BY <1>3, <1>8 DEF RemoveLimit, NewWindow
<1>9. CASE UNCHANGED gatewayVars
  BY <1>3, <1>9 DEF gatewayVars
<1>. QED  BY <1>1, <1>2, <1>4, <1>5, <1>6, <1>7, <1>8, <1>9
          DEF Next, vars, TagAcquire, LimiterStep

(***************************************************************************)
(* The check of usageChargeDedup before the deduction and the mark after   *)
(* it keep a key from being charged twice through any retries and          *)
(* failovers, as long as its requests do not overlap, no commit's answer   *)
(* is lost and the process keeps its memory.                               *)
(***************************************************************************)
THEOREM KeysChargedOnce == Spec => []KeyChargedOnce
<1>1. KeyInv => KeyChargedOnce
  BY DEF KeyInv, KeyOK, KeyChargedOnce
<1>. QED  BY <1>1, InitKeys, NextKeys, GatewayTypes, PTL DEF Spec

-----------------------------------------------------------------------------
(***************************************************************************)
(* Natural numbers: induction as the absence of a least counterexample,    *)
(* the maximum of a bounded set, and sums by recursion.                    *)
(***************************************************************************)
\* A nonempty set of natural numbers has a least element.
LEMMA LeastNat ==
    ASSUME NEW T, T \subseteq Nat, T # {}
    PROVE  \E x \in T : \A y \in T : x <= y
<1>1. PICK R : R = OpToRel(<, Nat)
  OBVIOUS
<1>2. IsWellFoundedOn(R, Nat)
  BY <1>1, NatLessThanWellFounded
<1>3. PICK x \in T : \A y \in T : ~ (<<y, x>> \in R)
  BY <1>2, WFMin
<1>4. ASSUME NEW y \in T PROVE x <= y
  <2>1. x \in Nat /\ y \in Nat
    BY <1>3
  <2>2. y < x => <<y, x>> \in R
    BY <1>1, <2>1 DEF OpToRel
  <2> QED
    BY <1>3, <2>1, <2>2
<1> QED
  BY <1>3, <1>4

\* A nonempty bounded one has a greatest.
LEMMA MaxOf ==
    ASSUME NEW n \in Nat, NEW S, S \subseteq 0..n, S # {}
    PROVE  Max(S) \in S /\ \A y \in S : y <= Max(S)
<1> DEFINE T == {m \in Nat : \A y \in S : y <= m}
<1>1. n \in T
  OBVIOUS
<1>2. PICK m \in T : \A k \in T : m <= k
  BY <1>1, LeastNat
<1>3. m \in S
  <2> SUFFICES ASSUME m \notin S PROVE FALSE
    OBVIOUS
  <2>1. PICK y \in S : TRUE
    OBVIOUS
  <2>2. m # 0 
    BY <2>1
  <2>3. m - 1 \in T
    BY <2>2
  <2> QED
    BY <1>2, <2>3
<1>4. \E x \in S : \A y \in S : x >= y
  BY <1>2, <1>3
<1> QED
  BY <1>4 DEF Max

\* A recursive sum exists, and its values are natural numbers.
LEMMA SumExists ==
    ASSUME NEW n \in Nat, NEW a \in [1..n -> Nat]
    PROVE  \E f : f = [i \in 0..n |-> IF i = 0 THEN 0 ELSE f[i - 1] + a[i]]
<1> DEFINE Upto(k, f) == /\ f \in [0..k -> Nat] /\ f[0] = 0
                         /\ \A i \in 1..k : f[i] = f[i - 1] + a[i]
           T == {k \in 0..n : ~\E f : Upto(k, f)}
<1>1. \A k : k \in T <=> k \in 0..n /\ ~\E f : Upto(k, f)
  OBVIOUS
<1>2. Upto(0, [i \in 0..0 |-> 0])
  OBVIOUS
<1>3. ASSUME NEW k \in 1..n, NEW g, Upto(k - 1, g) PROVE \E f : Upto(k, f)
  <2>1. PICK f : f = [i \in 0..k |-> IF i = k THEN g[k - 1] + a[k] ELSE g[i]]
    OBVIOUS
  <2>2. f \in [0..k -> Nat]
    BY <1>3, <2>1
  <2>3. f[0] = 0 /\ f[k] = f[k - 1] + a[k]
    BY <1>3, <2>1
  <2>4. \A i \in 1..(k - 1) : f[i] = f[i - 1] + a[i]
    BY <1>3, <2>1
  <2>5. \A i \in 1..k : i = k \/ i \in 1..(k - 1)
    OBVIOUS
  <2>6. \A i \in 1..k : f[i] = f[i - 1] + a[i]
    BY <2>3, <2>4, <2>5
  <2> QED
    BY <2>2, <2>3, <2>6
<1> HIDE DEF Upto, T
<1>4. T = {}
  <2> SUFFICES ASSUME T # {} PROVE FALSE
    OBVIOUS
  <2>1. T \subseteq Nat
    BY <1>1
  <2>2. PICK k \in T : \A j \in T : k <= j
    BY <2>1, LeastNat
  <2>3. k \in 1..n
    BY <1>1, <1>2, <2>2
  <2>4. k - 1 \in 0..n /\ k - 1 \notin T
    BY <2>2, <2>3
  <2>5. \E g : Upto(k - 1, g)
    BY <1>1, <2>4
  <2> QED
    BY <1>1, <1>3, <2>2, <2>3, <2>5
<1>5. PICK f : Upto(n, f)
  <2>1. n \in 0..n /\ n \notin T
    BY <1>4
  <2> QED
    BY <1>1, <2>1
<1>6. f = [i \in 0..n |-> f[i]] /\ \A i \in 0..n : f[i] = IF i = 0 THEN 0 ELSE f[i - 1] + a[i]
  BY <1>5 DEF Upto
<1> QED
  BY <1>6

LEMMA SumNat ==
    ASSUME NEW n \in Nat, NEW a \in [1..n -> Nat], NEW f,
           f = [i \in 0..n |-> IF i = 0 THEN 0 ELSE f[i - 1] + a[i]]
    PROVE  f[n] \in Nat /\ f[0] = 0
<1> DEFINE T == {k \in 0..n : f[k] \notin Nat}
<1>0. f[0] = 0 /\ \A i \in 1..n : f[i] = f[i - 1] + a[i] /\ a[i] \in Nat
  OBVIOUS
<1>1. T \subseteq Nat /\ \A k : k \in T <=> k \in 0..n /\ f[k] \notin Nat
  OBVIOUS
<1> HIDE DEF T
<1>2. T = {}
  <2> SUFFICES ASSUME T # {} PROVE FALSE
    OBVIOUS
  <2>1. PICK k \in T : \A j \in T : k <= j
    BY <1>1, LeastNat
  <2>2. k \in 1..n
    <3>1. k \in 0..n /\ f[k] \notin Nat
      BY <1>1, <2>1
    <3>2. k # 0
      <4>1. f[0] \in Nat
        BY <1>0
      <4> QED
        BY <3>1, <4>1
    <3> QED
      BY <3>1, <3>2
  <2>3. k - 1 \in 0..n /\ k - 1 \notin T
    BY <2>1, <2>2
  <2>4. f[k - 1] \in Nat
    BY <1>1, <2>3
  <2>5. f[k] = f[k - 1] + a[k] /\ a[k] \in Nat
    BY <1>0, <2>2
  <2>6. f[k] \in Nat
    BY <2>4, <2>5
  <2> QED
    BY <1>1, <2>1, <2>6
<1>3. n \in 0..n
  OBVIOUS
<1> QED
  BY <1>0, <1>1, <1>2, <1>3

\* What the first n of the queue ask for is a number.
LEMMA DemandNat ==
    ASSUME LimiterTypeOK, NEW n \in 0..Len(queue)
    PROVE  Demand(n) \in Nat /\ (n = 0 => Demand(n) = 0)
<1>0. n \in Nat /\ \A i \in 1..n : queue[i] \in Tagger
  BY DEF LimiterTypeOK
<1>1. \A t \in Tagger : tagger[t].est \in Nat
  <2>1. Estimates \cup {0} \subseteq Nat
    BY LimiterAssumption
  <2> QED
    BY <2>1 DEF LimiterTypeOK
<1>2. PICK a : a = [i \in 1..n |-> tagger[queue[i]].est]
  OBVIOUS
<1>3. a \in [1..n -> Nat] /\ \A i \in 1..n : a[i] = tagger[queue[i]].est
  BY <1>0, <1>1, <1>2
<1> DEFINE D == CHOOSE f : f = [i \in 0..n |->
                    IF i = 0 THEN 0 ELSE f[i - 1] + tagger[queue[i]].est]
<1>4. Demand(n) = D[n]
  BY DEF Demand
<1>5. D = [i \in 0..n |-> IF i = 0 THEN 0 ELSE D[i - 1] + tagger[queue[i]].est]
  <2>1. PICK f : f = [i \in 0..n |-> IF i = 0 THEN 0 ELSE f[i - 1] + a[i]]
    BY <1>0, <1>3, SumExists
  <2>2. f = [i \in 0..n |-> IF i = 0 THEN 0 ELSE f[i - 1] + tagger[queue[i]].est]
    BY <1>3, <2>1
  <2> QED
    BY <2>2
<1> HIDE DEF D
<1>6. D = [i \in 0..n |-> IF i = 0 THEN 0 ELSE D[i - 1] + a[i]]
  BY <1>3, <1>5
<1>7. D[n] \in Nat /\ D[0] = 0
  BY <1>0, <1>3, <1>6, SumNat
<1> QED
  BY <1>4, <1>7

-----------------------------------------------------------------------------
(***************************************************************************)
(* The limiter.  tokens counts what is admitted and what calls used beyond *)
(* their estimates, so that the budget checked against tokens bounds what  *)
(* is admitted.                                                            *)
(***************************************************************************)
LimiterInv == LimiterTypeOK /\ admitted <= tokens /\ admitted <= MaxTPM

LEMMA LimiterStart == Init => LimiterInv
<1> SUFFICES ASSUME Init PROVE LimiterInv
  OBVIOUS
<1>1. LimiterInit
  BY DEF Init
<1>2. elapsed \in BOOLEAN
  BY <1>1, Zenon DEF LimiterInit
<1>3. MaxRPM \in Nat /\ MaxTPM \in Nat
  BY LimiterAssumption
<1>4. tagger \in [Tagger -> [pc : {"idle", "queued", "calling"}, est : Estimates \cup {0}]]
  BY <1>1 DEF LimiterInit
<1>5. /\ requests \in 0..MaxRPM /\ tokens \in Nat /\ queue \in Seq(Tagger) /\ admitted \in Nat
      /\ admitted <= tokens /\ admitted <= MaxTPM
  BY <1>1, <1>3 DEF LimiterInit
<1> QED
  BY <1>2, <1>4, <1>5 DEF LimiterInv, LimiterTypeOK

\* The counters when n requests for est tokens fit.
LEMMA Consumed ==
    ASSUME LimiterInv, NEW n \in Nat, NEW est \in Nat, Consume(n, est),
           CanProceed(n, est) \/ (n = 0 /\ est = 0)
    PROVE  /\ requests' \in 0..MaxRPM /\ tokens' \in Nat /\ elapsed' \in BOOLEAN
           /\ admitted' \in Nat /\ admitted' <= tokens' /\ admitted' <= MaxTPM
<1>1. /\ requests \in 0..MaxRPM /\ tokens \in Nat /\ admitted \in Nat
      /\ admitted <= tokens /\ admitted <= MaxTPM /\ MaxRPM \in Nat /\ MaxTPM \in Nat
  BY LimiterAssumption DEF LimiterInv, LimiterTypeOK
<1>2. elapsed' \in BOOLEAN
  BY Zenon DEF Consume
<1>3. /\ requests' = Current(requests) + n /\ tokens' = Current(tokens) + est
      /\ admitted' = Current(admitted) + est
  BY DEF Consume
<1>4. /\ Current(requests) \in 0..MaxRPM /\ Current(tokens) \in Nat /\ Current(admitted) \in Nat
      /\ Current(admitted) <= Current(tokens) /\ Current(admitted) <= MaxTPM
  BY <1>1 DEF Current
<1>5. \/ Current(requests) + n <= MaxRPM /\ Current(tokens) + est <= MaxTPM
      \/ n = 0 /\ est = 0
  BY DEF CanProceed
<1> QED
  BY <1>1, <1>2, <1>3, <1>4, <1>5

LEMMA LimiterAcquire ==
    ASSUME LimiterInv, NEW t \in Tagger, NEW est \in Estimates, Acquire(t, est)
    PROVE  LimiterInv'
<1>1. est \in Nat /\ LimiterTypeOK
  BY LimiterAssumption DEF LimiterInv
<1>2. CASE CanProceed(1, est)
  <2>1. Consume(1, est) /\ queue' = queue
        /\ tagger' = [tagger EXCEPT ![t] = [pc |-> "calling", est |-> est]]
    BY <1>2 DEF Acquire
  <2>2. tagger' \in [Tagger -> [pc : {"idle", "queued", "calling"}, est : Estimates \cup {0}]]
    BY <1>1, <2>1 DEF LimiterTypeOK
  <2>3. /\ requests' \in 0..MaxRPM /\ tokens' \in Nat /\ elapsed' \in BOOLEAN
        /\ admitted' \in Nat /\ admitted' <= tokens' /\ admitted' <= MaxTPM
    BY <1>1, <1>2, <2>1, Consumed
  <2> QED
    BY <1>1, <2>1, <2>2, <2>3 DEF LimiterInv, LimiterTypeOK
<1>3. CASE ~CanProceed(1, est)
  <2>1. Consume(0, 0) /\ queue' = Append(queue, t)
        /\ tagger' = [tagger EXCEPT ![t] = [pc |-> "queued", est |-> est]]
    BY <1>3 DEF Acquire
  <2>2. tagger' \in [Tagger -> [pc : {"idle", "queued", "calling"}, est : Estimates \cup {0}]]
    BY <1>1, <2>1 DEF LimiterTypeOK
  <2>3. /\ requests' \in 0..MaxRPM /\ tokens' \in Nat /\ elapsed' \in BOOLEAN
        /\ admitted' \in Nat /\ admitted' <= tokens' /\ admitted' <= MaxTPM
    BY <2>1, Consumed
  <2>4. queue' \in Seq(Tagger)
    BY <1>1, <2>1 DEF LimiterTypeOK
  <2> QED
    BY <2>2, <2>3, <2>4 DEF LimiterInv, LimiterTypeOK
<1> QED
  BY <1>2, <1>3

\* The number of taggers that drain releases fits, or is zero.
LEMMA ReleasableFits ==
    ASSUME LimiterTypeOK
    PROVE  /\ Releasable \in 0..Len(queue)
           /\ CanProceed(Releasable, Demand(Releasable)) \/ Releasable = 0
<1> DEFINE S == {n \in 0..Len(queue) : CanProceed(n, Demand(n)) \/ n = 0}
<1>1. Len(queue) \in Nat
  BY DEF LimiterTypeOK
<1>2. S \subseteq 0..Len(queue) /\ 0 \in S
  BY <1>1
<1>3. Max(S) \in S
  <2> HIDE DEF S
  <2> QED
    BY <1>1, <1>2, MaxOf
<1>4. Releasable = Max(S)
  BY DEF Releasable
<1> QED
  BY <1>3, <1>4

LEMMA LimiterDrain ==
    ASSUME LimiterInv, Drain
    PROVE  LimiterInv'
<1>1. LimiterTypeOK /\ queue \in Seq(Tagger)
  BY DEF LimiterInv, LimiterTypeOK
<1>2. PICK n : n = Releasable
  OBVIOUS
<1>3. n \in 0..Len(queue) /\ (CanProceed(n, Demand(n)) \/ n = 0)
  BY <1>1, <1>2, ReleasableFits
<1>4. PICK d \in Nat : d = Demand(n) /\ (n = 0 => d = 0)
  BY <1>1, <1>3, DemandNat
<1>5. n \in Nat /\ Len(queue) \in Nat
  BY <1>1, <1>3
<1>6. /\ requests' \in 0..MaxRPM /\ tokens' \in Nat /\ elapsed' \in BOOLEAN
      /\ admitted' \in Nat /\ admitted' <= tokens' /\ admitted' <= MaxTPM
  <2>1. Consume(n, d)
    BY <1>2, <1>4 DEF Drain
  <2>2. CanProceed(n, d) \/ (n = 0 /\ d = 0)
    BY <1>3, <1>4
  <2> QED
    BY <1>5, <2>1, <2>2, Consumed
<1>7. queue' \in Seq(Tagger)
  BY <1>1, <1>2, <1>3, <1>5 DEF Drain, Rest
<1>8. tagger' \in [Tagger -> [pc : {"idle", "queued", "calling"}, est : Estimates \cup {0}]]
  BY <1>1 DEF Drain, LimiterTypeOK
<1> QED
  BY <1>6, <1>7, <1>8 DEF LimiterInv, LimiterTypeOK

LEMMA LimiterKept == LimiterInv /\ [Next]_vars => LimiterInv'
<1> SUFFICES ASSUME LimiterInv, [Next]_vars PROVE LimiterInv'
  OBVIOUS
<1>0. LimiterTypeOK /\ admitted <= tokens /\ admitted <= MaxTPM
  BY DEF LimiterInv
<1>1. ASSUME NEW t \in Tagger, NEW est \in Estimates, TagAcquire(t, est) PROVE LimiterInv'
  BY <1>1, LimiterAcquire DEF TagAcquire
<1>2. CASE Drain
  BY <1>2, LimiterDrain
<1>3. CASE WindowEnds
  <2>1. elapsed' \in BOOLEAN
    BY <1>3, Zenon DEF WindowEnds
  <2> QED
    BY <1>0, <1>3, <2>1 DEF WindowEnds, LimiterInv, LimiterTypeOK
<1>4. ASSUME NEW t \in Tagger, Return(t) PROVE LimiterInv'
  <2>1. PICK extra \in 0..MaxExtra : tokens' = tokens + extra
    BY <1>4 DEF Return
  <2>2. tokens' \in Nat /\ admitted <= tokens'
    BY <1>0, <2>1, LimiterAssumption DEF LimiterTypeOK
  <2>3. tagger' \in [Tagger -> [pc : {"idle", "queued", "calling"}, est : Estimates \cup {0}]]
    BY <1>0, <1>4 DEF Return, LimiterTypeOK
  <2> QED
    BY <1>0, <1>4, <2>2, <2>3 DEF Return, LimiterInv, LimiterTypeOK
<1>5. CASE UNCHANGED limiterVars
  BY <1>0, <1>5 DEF limiterVars, LimiterInv, LimiterTypeOK
<1>6. ASSUME NEW c \in Caller, CallerStep(c) PROVE UNCHANGED limiterVars
  BY <1>6 DEF CallerStep, CountFailure, OpenCircuit, Succeed, CheckLimit, CheckBalance,
              CallProvider, RecordUsage, Deduct, MarkKey
<1>7. ASSUME NEW c \in Caller, NEW k \in Key, NEW fb \in BOOLEAN, Request(c, k, fb)
      PROVE  UNCHANGED limiterVars
  BY <1>7 DEF Request
<1>8. ASSUME \/ CircuitCools \/ \E cents \in TopUps : AddBalance(cents)
             \/ \E limit \in Limit : SetLimit(limit)
             \/ RemoveLimit \/ NewWindow \/ Restart
      PROVE  UNCHANGED limiterVars
  BY <1>8 DEF CircuitCools, AddBalance, SetLimit, RemoveLimit, NewWindow, Restart
<1> QED
  BY <1>1, <1>2, <1>3, <1>4, <1>5, <1>6, <1>7, <1>8 DEF Next, vars, LimiterStep

(***************************************************************************)
(* RateLimiter: the fast path of acquire and the timer's drain together    *)
(* admit no more than both budgets of a window, for any number of taggers, *)
(* any estimates and any order in which they return.                       *)
(***************************************************************************)
THEOREM BudgetIsKept == Spec => []WindowBudget
<1>1. LimiterInv => WindowBudget
  BY LimiterAssumption DEF LimiterInv, LimiterTypeOK, WindowBudget
<1> QED
  BY <1>1, LimiterStart, LimiterKept, PTL DEF Spec
=============================================================================
