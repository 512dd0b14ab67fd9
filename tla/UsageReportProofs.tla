------------------------- MODULE UsageReportProofs -------------------------
(***************************************************************************)
(* Proofs about billing, for any number of subscriptions, webhook          *)
(* requests, checkouts and runs of the usage report.                       *)
(***************************************************************************)
EXTENDS UsageReport, FiniteSetTheorems, TLAPS

-----------------------------------------------------------------------------
(***************************************************************************)
(* Checkout.  The part of the types it needs, and the invariant: without a *)
(* crossing, the customer of the organisation is the only one in use, and  *)
(* while there is none no session is open and one checkout at most is on   *)
(* its way to create it.                                                   *)
(***************************************************************************)
StripeTypes == [status : StripeStatus, end : Int, customer : Nat]

CustomerTypes ==
    /\ now \in Int
    /\ stripe \in [Sub -> StripeTypes]
    /\ buyer \in [Buyer -> BuyerTypes]
    /\ customer \in Nat /\ customers \in Nat
    /\ sessions \subseteq Nat
    /\ crossed \in BOOLEAN

Creating(y) == y.pc \in {"create", "save"}

Alone(cust, sess, subs, by) ==
    /\ \A c \in sess : c = cust
    /\ \A s \in Sub : subs[s].status = "none" \/ subs[s].customer = cust
    /\ cust = 0 => sess = {} /\ \A s \in Sub : subs[s].status = "none"
    /\ \A b \in Buyer :
         /\ by[b].pc = "session" => by[b].customer = cust /\ cust # 0
         /\ Creating(by[b]) => cust = 0
         /\ by[b].pc = "save" => by[b].customer # 0
    /\ \A b, d \in Buyer : Creating(by[b]) /\ Creating(by[d]) => b = d

CustomerInv ==
    /\ CustomerTypes
    /\ ~crossed => Alone(customer, sessions, stripe, buyer)

LEMMA CustomerInit == ReportInit => CustomerInv
<1> SUFFICES ASSUME ReportInit PROVE CustomerInv
  OBVIOUS
<1>1. PICK held \in SUBSET Sub :
         /\ stripe = [s \in Sub |->
              IF s \in held
              THEN [status |-> "active", end |-> Period, customer |-> 1]
              ELSE [status |-> "none", end |-> 0, customer |-> 0]]
         /\ customer = IF held = {} THEN 0 ELSE 1
         /\ customers = IF held = {} THEN 0 ELSE 1
  BY DEF ReportInit, Init
<1>2. Period \in Int
  BY BillingAssumption
<1>3. stripe \in [Sub -> StripeTypes]
  BY <1>1, <1>2 DEF StripeTypes, StripeStatus
<1>4. /\ buyer = [b \in Buyer |-> Away] /\ Away \in BuyerTypes
      /\ Away.pc = "idle" /\ ~Creating(Away)
  <2>1. Away \in BuyerTypes /\ Away.pc = "idle"
    BY DEF Away, BuyerTypes
  <2>2. buyer = [b \in Buyer |-> Away]
    BY DEF ReportInit, Init
  <2> QED
    BY <2>1, <2>2 DEF Creating
<1>5. CustomerTypes
  <2>1. now = 0 /\ sessions = {} /\ crossed = FALSE
    BY DEF ReportInit, Init
  <2>2. customer \in Nat /\ customers \in Nat
    BY <1>1
  <2>3. buyer \in [Buyer -> BuyerTypes]
    BY <1>4
  <2>4. now \in Int /\ sessions \subseteq Nat
    BY <2>1
  <2>5. crossed \in BOOLEAN
    BY <2>1, Zenon
  <2> QED
    BY <1>3, <2>2, <2>3, <2>4, <2>5 DEF CustomerTypes
<1>6. \A s \in Sub : stripe[s].status = "none" \/ stripe[s].customer = customer
  BY <1>1
<1>7. customer = 0 => \A s \in Sub : stripe[s].status = "none"
  BY <1>1
<1>8. \A b \in Buyer : buyer[b].pc = "idle" /\ ~Creating(buyer[b])
  BY <1>4
<1>9. sessions = {}
  BY DEF ReportInit, Init
<1> QED
  BY <1>5, <1>6, <1>7, <1>8, <1>9 DEF CustomerInv, Alone

\* Steps that have nothing to do with customers.
LEMMA CustomerSame ==
    ASSUME CustomerInv, now' \in Int,
           UNCHANGED <<stripe, buyer, customer, customers, sessions, crossed>>
    PROVE  CustomerInv'
  BY DEF CustomerInv, CustomerTypes

\* A change of a subscription at Stripe leaves its customer alone.
LEMMA CustomerAtStripe ==
    ASSUME CustomerInv, NEW s \in Sub, stripe[s].status # "none",
           NEW status \in StripeStatus, NEW end \in Int, NEW kinds,
           AtStripe(s, status, end, kinds)
    PROVE  CustomerInv'
<1> DEFINE rec == [stripe[s] EXCEPT !.status = status, !.end = end]
<1>1. /\ stripe' = [stripe EXCEPT ![s] = rec]
      /\ UNCHANGED <<now, buyer, customer, customers, sessions, crossed>>
  BY DEF AtStripe, orgVars, CustomerInv, CustomerTypes
<1>2. rec \in StripeTypes /\ rec.customer = stripe[s].customer
  BY DEF CustomerInv, CustomerTypes, StripeTypes
<1> HIDE DEF rec
<1>3. CustomerTypes'
  BY <1>1, <1>2 DEF CustomerInv, CustomerTypes
<1>4. \A z \in Sub : stripe'[z] = IF z = s THEN rec ELSE stripe[z]
  BY <1>1 DEF CustomerInv, CustomerTypes
<1>5. ASSUME ~crossed PROVE Alone(customer, sessions, stripe', buyer)
  <2>1. Alone(customer, sessions, stripe, buyer)
    BY <1>5 DEF CustomerInv
  <2>2. customer # 0 /\ rec.customer = customer
    BY <1>2, <2>1 DEF Alone
  <2>3. \A z \in Sub : stripe'[z].status = "none" \/ stripe'[z].customer = customer
    BY <1>4, <2>1, <2>2 DEF Alone
  <2> QED
    BY <2>1, <2>2, <2>3 DEF Alone
<1> QED
  BY <1>1, <1>3, <1>5 DEF CustomerInv

LEMMA CustomerSubscribe ==
    ASSUME CustomerInv, NEW s \in Sub, NEW c \in sessions, Subscribe(s, c)
    PROVE  CustomerInv'
<1> DEFINE rec == [status |-> "active", end |-> now + Period, customer |-> c]
<1>1. /\ stripe' = [stripe EXCEPT ![s] = rec] /\ sessions' = sessions \ {c}
      /\ UNCHANGED <<now, buyer, customer, customers, crossed>>
  BY DEF Subscribe, orgVars
<1>2. rec \in StripeTypes /\ rec.customer = c
  BY BillingAssumption DEF CustomerInv, CustomerTypes, StripeTypes, StripeStatus
<1> HIDE DEF rec
<1>3. CustomerTypes'
  BY <1>1, <1>2 DEF CustomerInv, CustomerTypes
<1>4. \A z \in Sub : stripe'[z] = IF z = s THEN rec ELSE stripe[z]
  BY <1>1 DEF CustomerInv, CustomerTypes
<1>5. ASSUME ~crossed PROVE Alone(customer, sessions', stripe', buyer)
  <2>1. Alone(customer, sessions, stripe, buyer)
    BY <1>5 DEF CustomerInv
  <2>2. customer # 0 /\ c = customer
    BY <2>1 DEF Alone
  <2>3. \A z \in Sub : stripe'[z].status = "none" \/ stripe'[z].customer = customer
    BY <1>2, <1>4, <2>1, <2>2 DEF Alone
  <2>4. \A d \in sessions' : d = customer
    BY <1>1, <2>1 DEF Alone
  <2> QED
    BY <2>1, <2>2, <2>3, <2>4 DEF Alone
<1> QED
  BY <1>1, <1>3, <1>5 DEF CustomerInv

\* One checkout moves.
LEMMA BuyerTypesKept ==
    ASSUME CustomerInv, NEW b \in Buyer, NEW y \in BuyerTypes,
           buyer' = [buyer EXCEPT ![b] = y]
    PROVE  /\ buyer' \in [Buyer -> BuyerTypes]
           /\ \A d \in Buyer : buyer'[d] = IF d = b THEN y ELSE buyer[d]
  BY DEF CustomerInv, CustomerTypes

LEMMA CustomerCheckout ==
    ASSUME CustomerInv, NEW b \in Buyer, Checkout(b)
    PROVE  CustomerInv'
<1> DEFINE y == [pc |-> IF customer = 0 THEN "create" ELSE "session",
                 customer |-> customer]
<1>1. /\ buyer' = [buyer EXCEPT ![b] = y]
      /\ crossed' = (\/ crossed
                     \/ /\ customer = 0
                        /\ \E d \in Buyer : buyer[d].pc \in {"create", "save"})
      /\ UNCHANGED <<now, stripe, customer, customers, sessions>>
  BY DEF Checkout, stripeVars, orgVars
<1>2. /\ y \in BuyerTypes /\ y.customer = customer
      /\ y.pc = IF customer = 0 THEN "create" ELSE "session"
  BY DEF CustomerInv, CustomerTypes, BuyerTypes
<1> HIDE DEF y
<1>3. /\ buyer' \in [Buyer -> BuyerTypes]
      /\ \A d \in Buyer : buyer'[d] = IF d = b THEN y ELSE buyer[d]
  BY <1>1, <1>2, BuyerTypesKept
<1>4. CustomerTypes'
  BY <1>1, <1>3 DEF CustomerInv, CustomerTypes
<1>5. ASSUME ~crossed' PROVE Alone(customer, sessions, stripe, buyer')
  <2>1. Alone(customer, sessions, stripe, buyer) /\
        (customer = 0 => \A d \in Buyer : ~Creating(buyer[d]))
    BY <1>1, <1>5 DEF CustomerInv, Creating
  <2>2. \A d \in Buyer :
          /\ buyer'[d].pc = "session" => buyer'[d].customer = customer /\ customer # 0
          /\ Creating(buyer'[d]) => customer = 0
          /\ buyer'[d].pc = "save" => buyer'[d].customer # 0
    BY <1>2, <1>3, <2>1 DEF Alone, Creating
  <2>3. \A d, e \in Buyer : Creating(buyer'[d]) /\ Creating(buyer'[e]) => d = e
    BY <1>2, <1>3, <2>1 DEF Alone, Creating
  <2> QED
    BY <2>1, <2>2, <2>3 DEF Alone
<1> QED
  BY <1>1, <1>4, <1>5 DEF CustomerInv

LEMMA CustomerCreate ==
    ASSUME CustomerInv, NEW b \in Buyer, CreateCustomer(b)
    PROVE  CustomerInv'
<1> DEFINE y == [pc |-> "save", customer |-> customers + 1]
<1>1. /\ buyer' = [buyer EXCEPT ![b] = y] /\ buyer[b].pc = "create"
      /\ customers' = customers + 1
      /\ UNCHANGED <<now, stripe, customer, crossed, sessions>>
  BY DEF CreateCustomer, orgVars
<1>2. y \in BuyerTypes /\ y.pc = "save" /\ y.customer # 0 /\ customers + 1 \in Nat
  BY DEF CustomerInv, CustomerTypes, BuyerTypes
<1> HIDE DEF y
<1>3. /\ buyer' \in [Buyer -> BuyerTypes]
      /\ \A d \in Buyer : buyer'[d] = IF d = b THEN y ELSE buyer[d]
  BY <1>1, <1>2, BuyerTypesKept
<1>4. CustomerTypes'
  BY <1>1, <1>2, <1>3 DEF CustomerInv, CustomerTypes
<1>5. ASSUME ~crossed PROVE Alone(customer, sessions, stripe, buyer')
  <2>1. Alone(customer, sessions, stripe, buyer) /\ Creating(buyer[b])
    BY <1>1, <1>5 DEF CustomerInv, Creating
  <2>2. \A d \in Buyer :
          /\ buyer'[d].pc = "session" => buyer'[d].customer = customer /\ customer # 0
          /\ Creating(buyer'[d]) => customer = 0
          /\ buyer'[d].pc = "save" => buyer'[d].customer # 0
          /\ Creating(buyer'[d]) => Creating(buyer[d])
    BY <1>2, <1>3, <2>1 DEF Alone, Creating
  <2> QED
    BY <2>1, <2>2 DEF Alone
<1> QED
  BY <1>1, <1>4, <1>5 DEF CustomerInv

LEMMA CustomerSave ==
    ASSUME CustomerInv, NEW b \in Buyer, SaveCustomer(b)
    PROVE  CustomerInv'
<1> DEFINE y == [buyer[b] EXCEPT !.pc = "session"]
<1>1. /\ buyer' = [buyer EXCEPT ![b] = y] /\ buyer[b].pc = "save"
      /\ customer' = buyer[b].customer
      /\ UNCHANGED <<now, stripe, customers, crossed, sessions>>
  BY DEF SaveCustomer, SavedCustomer, stripeVars, CustomerInv, CustomerTypes
<1>2. /\ y \in BuyerTypes /\ y.pc = "session" /\ y.customer = buyer[b].customer
      /\ buyer[b].customer \in Nat
  BY DEF CustomerInv, CustomerTypes, BuyerTypes
<1> HIDE DEF y
<1>3. /\ buyer' \in [Buyer -> BuyerTypes]
      /\ \A d \in Buyer : buyer'[d] = IF d = b THEN y ELSE buyer[d]
  BY <1>1, <1>2, BuyerTypesKept
<1>4. CustomerTypes'
  BY <1>1, <1>2, <1>3 DEF CustomerInv, CustomerTypes
<1>5. ASSUME ~crossed PROVE Alone(customer', sessions, stripe, buyer')
  <2>1. /\ Alone(customer, sessions, stripe, buyer) /\ Creating(buyer[b])
        /\ buyer[b].customer # 0 /\ customer = 0
    BY <1>1, <1>5 DEF CustomerInv, Creating, Alone
  <2>2. /\ sessions = {} /\ \A s \in Sub : stripe[s].status = "none"
        /\ \A d \in Buyer : buyer[d].pc # "session" /\ (d # b => ~Creating(buyer[d]))
    BY <2>1 DEF Alone
  <2>3. \A d \in Buyer :
          /\ buyer'[d].pc = "session" => buyer'[d].customer = customer' /\ customer' # 0
          /\ ~Creating(buyer'[d]) /\ buyer'[d].pc # "save"
    BY <1>1, <1>2, <1>3, <2>1, <2>2 DEF Creating
  <2> QED
    BY <1>1, <2>1, <2>2, <2>3 DEF Alone
<1> QED
  BY <1>1, <1>4, <1>5 DEF CustomerInv

LEMMA CustomerSession ==
    ASSUME CustomerInv, NEW b \in Buyer, OpenSession(b)
    PROVE  CustomerInv'
<1>1. /\ buyer' = [buyer EXCEPT ![b] = Away] /\ buyer[b].pc = "session"
      /\ sessions' = sessions \cup {buyer[b].customer}
      /\ UNCHANGED <<now, stripe, customer, customers, crossed>>
  BY DEF OpenSession, orgVars
<1>2. /\ Away \in BuyerTypes /\ Away.pc = "idle" /\ buyer[b].customer \in Nat
  BY DEF CustomerInv, CustomerTypes, BuyerTypes, Away
<1>3. /\ buyer' \in [Buyer -> BuyerTypes]
      /\ \A d \in Buyer : buyer'[d] = IF d = b THEN Away ELSE buyer[d]
  BY <1>1, <1>2, BuyerTypesKept
<1>4. CustomerTypes'
  BY <1>1, <1>2, <1>3 DEF CustomerInv, CustomerTypes
<1>5. ASSUME ~crossed PROVE Alone(customer, sessions', stripe, buyer')
  <2>1. /\ Alone(customer, sessions, stripe, buyer)
        /\ buyer[b].customer = customer /\ customer # 0
    BY <1>1, <1>5 DEF CustomerInv, Alone
  <2>2. \A d \in Buyer :
          /\ buyer'[d].pc = "session" => buyer'[d].customer = customer /\ customer # 0
          /\ ~Creating(buyer'[d]) /\ buyer'[d].pc # "save"
    BY <1>2, <1>3, <2>1 DEF Alone, Creating
  <2>3. \A c \in sessions' : c = customer
    BY <1>1, <2>1 DEF Alone
  <2> QED
    BY <2>1, <2>2, <2>3 DEF Alone
<1> QED
  BY <1>1, <1>4, <1>5 DEF CustomerInv

LEMMA CustomerNext ==
    ASSUME CustomerInv, [Next]_vars
    PROVE  CustomerInv'
<1>1. now \in Int
  BY DEF CustomerInv, CustomerTypes
<1>2. CASE Tick
  BY <1>1, <1>2, CustomerSame DEF Tick, stripeVars, orgVars
<1>3. CASE TrialEnds
  BY <1>1, <1>3, CustomerSame DEF TrialEnds, stripeVars
<1>4. ASSUME NEW s \in Sub,
             \/ PaymentFails(s) \/ Pays(s) \/ Cancels(s)
             \/ \E status \in Turn : Turns(s, status)
      PROVE  CustomerInv'
  <2>1. stripe[s].end \in Int /\ now + Period \in Int
    BY <1>1, BillingAssumption DEF CustomerInv, CustomerTypes, StripeTypes
  <2>2. stripe[s].status # "none"
    BY <1>4 DEF PaymentFails, Pays, Cancels, Turns, Open
  <2>3. PICK status \in StripeStatus, end \in Int, kinds \in SUBSET Kind :
           AtStripe(s, status, end, kinds)
    BY <1>4, <2>1, BillingAssumption
       DEF PaymentFails, Pays, Cancels, Turns, StripeStatus, Kind
  <2> QED
    BY <2>2, <2>3, CustomerAtStripe
<1>5. ASSUME NEW s \in Sub, NEW c \in sessions, Subscribe(s, c)
      PROVE  CustomerInv'
  BY <1>5, CustomerSubscribe
<1>6. ASSUME NEW h \in Handler, HandlerStep(h)
      PROVE  CustomerInv'
  <2>1. UNCHANGED <<now, stripe, buyer, customer, customers, sessions, crossed>>
    BY <1>6 DEF HandlerStep, Retrieve, WriteRow, WritePlan, FindOthers, Revert,
                HandlerFails, stripeVars, orgVars
  <2> QED
    BY <1>1, <2>1, CustomerSame
<1>7. ASSUME NEW h \in Handler, NEW e \in pending, Deliver(h, e) \/ Repeated(h, e)
      PROVE  CustomerInv'
  <2>1. UNCHANGED <<now, stripe, buyer, customer, customers, sessions, crossed>>
    BY <1>7 DEF Deliver, Repeated, orgVars
  <2> QED
    BY <1>1, <2>1, CustomerSame
<1>8. ASSUME NEW e \in marked, Expire(e)
      PROVE  CustomerInv'
  BY <1>1, <1>8, CustomerSame DEF Expire, stripeVars, orgVars
<1>9. ASSUME NEW b \in Buyer, BuyerStep(b)
      PROVE  CustomerInv'
  BY <1>9, CustomerCheckout, CustomerCreate, CustomerSave, CustomerSession
     DEF BuyerStep
<1>10. CASE LateTranscript
  BY <1>1, <1>10, CustomerSame DEF LateTranscript, Unbilled, stripeVars, orgVars
<1>11. ASSUME NEW r \in Reporter, ReportStep(r)
       PROVE  CustomerInv'
  <2>1. Unbilled
    BY <1>11 DEF ReportStep, Aggregate, FindRecord, CreateRecord, UpdateRecord,
                 SendUsage, MarkReported, ReporterFails
  <2> QED
    BY <1>1, <2>1, CustomerSame DEF Unbilled, stripeVars, orgVars
<1>12. CASE UNCHANGED vars
  BY <1>1, <1>12, CustomerSame DEF vars, billingVars, stripeVars, orgVars
<1> QED
  BY <1>2, <1>3, <1>4, <1>5, <1>6, <1>7, <1>8, <1>9, <1>10, <1>11, <1>12
     DEF Next, BillingNext

(***************************************************************************)
(* createCheckoutHandler: while no two checkouts of an organisation that   *)
(* has no customer cross, every subscription is that of the customer the   *)
(* organisation's row names.                                               *)
(***************************************************************************)
THEOREM CustomerIsOne == Spec => []OneCustomer
<1>1. CustomerInv => OneCustomer
  BY DEF CustomerInv, Alone, OneCustomer
<1> QED
  BY <1>1, CustomerInit, CustomerNext, PTL DEF Spec

-----------------------------------------------------------------------------
(***************************************************************************)
(* The usage report.  While no two runs of the day overlap there is one    *)
(* row at most, a run that may still send has found it not reported, and   *)
(* the day is billed once more than runs have failed in between only when  *)
(* a run is about to mark the row or has marked it.                        *)
(***************************************************************************)
RecordTypes == [minutes : 0..MaxMinutes, reported : BOOLEAN]

RunTypes ==
    /\ minutes \in 0..MaxMinutes
    /\ records \in Seq(RecordTypes)
    /\ billed \in Seq(0..MaxMinutes)
    /\ reporter \in [Reporter -> ReporterTypes]
    /\ unmarked \in Nat
    /\ together \in BOOLEAN

Running(x) == x.pc # "idle"

\* What a run in state x knows of the rows.
Holds(rows, x) ==
    /\ x.pc = "create" => rows = <<>>
    /\ x.pc \in {"update", "send", "mark"} => x.record \in DOMAIN rows
    /\ x.pc \in {"send", "mark"} => ~rows[x.record].reported

\* Whether the day may have been billed once more than runs have failed.
Done(rows, by) ==
    \/ \E i \in DOMAIN rows : rows[i].reported
    \/ \E r \in Reporter : by[r].pc = "mark"

InTurn(rows, by, sent, failed) ==
    /\ Len(rows) <= 1
    /\ \A r, q \in Reporter : Running(by[r]) /\ Running(by[q]) => r = q
    /\ \A r \in Reporter : Holds(rows, by[r])
    /\ Len(sent) <= failed + 1
    /\ ~Done(rows, by) => Len(sent) <= failed

BilledInv ==
    /\ RunTypes
    /\ ~together => InTurn(records, reporter, billed, unmarked)

LEMMA BilledInit == ReportInit => BilledInv
<1> SUFFICES ASSUME ReportInit PROVE BilledInv
  OBVIOUS
<1>1. /\ minutes = 1 /\ records = <<>> /\ billed = <<>> /\ unmarked = 0
      /\ reporter = [r \in Reporter |-> Off] /\ together = FALSE
  BY DEF ReportInit
<1>2. Off \in ReporterTypes /\ Off.pc = "idle"
  BY ReportAssumption DEF Off, ReporterTypes
<1>3. minutes \in 0..MaxMinutes /\ reporter \in [Reporter -> ReporterTypes]
  BY <1>1, <1>2, ReportAssumption
<1>4. together \in BOOLEAN
  BY <1>1, Zenon
<1>5. records \in Seq(RecordTypes) /\ billed \in Seq(0..MaxMinutes) /\ unmarked \in Nat
  BY <1>1
<1>6. RunTypes
  BY <1>3, <1>4, <1>5 DEF RunTypes
<1>7. \A r \in Reporter : ~Running(reporter[r]) /\ Holds(records, reporter[r])
  BY <1>1, <1>2 DEF Running, Holds
<1>8. Len(records) <= 1 /\ Len(billed) <= unmarked /\ Len(billed) <= unmarked + 1
  BY <1>1
<1> QED
  BY <1>6, <1>7, <1>8 DEF BilledInv, InTurn

LEMMA RunnerTypes ==
    ASSUME BilledInv, NEW r \in Reporter, NEW x \in ReporterTypes,
           reporter' = [reporter EXCEPT ![r] = x]
    PROVE  /\ reporter' \in [Reporter -> ReporterTypes]
           /\ \A q \in Reporter : reporter'[q] = IF q = r THEN x ELSE reporter[q]
           /\ reporter[r] \in ReporterTypes
  BY DEF BilledInv, RunTypes

LEMMA OffTypes == Off \in ReporterTypes /\ ~Running(Off) /\ Off.pc = "idle"
<1>1. Off \in ReporterTypes /\ Off.pc = "idle"
  BY ReportAssumption DEF Off, ReporterTypes
<1> QED
  BY <1>1 DEF Running

\* While runs follow one another, the others of a running one are idle.
LEMMA OthersIdle ==
    ASSUME BilledInv, ~together, NEW r \in Reporter, Running(reporter[r])
    PROVE  /\ InTurn(records, reporter, billed, unmarked)
           /\ \A q \in Reporter : q # r => reporter[q].pc = "idle"
  BY DEF BilledInv, InTurn, Running

LEMMA BilledLate ==
    ASSUME BilledInv, LateTranscript
    PROVE  BilledInv'
<1>1. minutes' \in 0..MaxMinutes
  BY ReportAssumption DEF LateTranscript, BilledInv, RunTypes
<1>2. UNCHANGED <<records, billed, reporter, unmarked, together>>
  BY DEF LateTranscript
<1> QED
  BY <1>1, <1>2 DEF BilledInv, RunTypes

LEMMA BilledAggregate ==
    ASSUME BilledInv, NEW r \in Reporter, Aggregate(r)
    PROVE  BilledInv'
<1> DEFINE x == [pc |-> "find", minutes |-> minutes, record |-> 0]
<1>1. /\ reporter' = [reporter EXCEPT ![r] = x] /\ reporter[r].pc = "idle"
      /\ together' = (together \/ \E q \in Reporter : reporter[q].pc # "idle")
      /\ UNCHANGED <<minutes, records, billed, unmarked>>
  BY DEF Aggregate
<1>2. x \in ReporterTypes /\ x.pc = "find"
  BY DEF BilledInv, RunTypes, ReporterTypes
<1> HIDE DEF x
<1>3. /\ reporter' \in [Reporter -> ReporterTypes]
      /\ \A q \in Reporter : reporter'[q] = IF q = r THEN x ELSE reporter[q]
  BY <1>1, <1>2, RunnerTypes
<1>4. together' \in BOOLEAN
  BY <1>1, Zenon
<1>5. RunTypes'
  BY <1>1, <1>3, <1>4 DEF BilledInv, RunTypes
<1>6. ASSUME ~together' PROVE InTurn(records, reporter', billed, unmarked)
  <2>1. /\ InTurn(records, reporter, billed, unmarked)
        /\ \A q \in Reporter : reporter[q].pc = "idle"
    BY <1>1, <1>6 DEF BilledInv
  <2>2. \A q, p \in Reporter :
          Running(reporter'[q]) /\ Running(reporter'[p]) => q = p
    BY <1>3, <2>1 DEF Running
  <2>3. \A q \in Reporter : Holds(records, reporter'[q])
    BY <1>2, <1>3, <2>1 DEF InTurn, Holds
  <2>4. Done(records, reporter') <=> Done(records, reporter)
    BY <1>2, <1>3, <2>1 DEF Done
  <2> QED
    BY <2>1, <2>2, <2>3, <2>4 DEF InTurn
<1> QED
  BY <1>1, <1>5, <1>6 DEF BilledInv

\* The running one goes on to state x, the rows and the bills as given.
LEMMA RunGoesOn ==
    ASSUME BilledInv, NEW r \in Reporter, Running(reporter[r]),
           NEW x \in ReporterTypes, reporter' = [reporter EXCEPT ![r] = x],
           minutes' = minutes, together' = together,
           records' \in Seq(RecordTypes), billed' \in Seq(0..MaxMinutes),
           unmarked' \in Nat,
           ~together =>
             /\ Len(records') <= 1 /\ Holds(records', x)
             /\ Len(billed') <= unmarked' + 1
             /\ \/ Len(billed') <= unmarked'
                \/ x.pc = "mark"
                \/ \E i \in DOMAIN records' : records'[i].reported
    PROVE  BilledInv'
<1>1. /\ reporter' \in [Reporter -> ReporterTypes]
      /\ \A q \in Reporter : reporter'[q] = IF q = r THEN x ELSE reporter[q]
  BY RunnerTypes
<1>2. RunTypes'
  BY <1>1 DEF BilledInv, RunTypes
<1>3. ASSUME ~together PROVE InTurn(records', reporter', billed', unmarked')
  <2>1. \A q \in Reporter : q # r => reporter'[q].pc = "idle"
    BY <1>1, <1>3, OthersIdle
  <2>2. \A q, p \in Reporter :
          Running(reporter'[q]) /\ Running(reporter'[p]) => q = p
    BY <2>1 DEF Running
  <2>3. \A q \in Reporter : Holds(records', reporter'[q])
    <3>1. ASSUME NEW q \in Reporter, q # r PROVE Holds(records', reporter'[q])
      BY <2>1, <3>1 DEF Holds
    <3> QED
      BY <1>1, <1>3, <3>1
  <2>4. ~Done(records', reporter') => Len(billed') <= unmarked'
    BY <1>1, <1>3 DEF Done
  <2> QED
    BY <1>3, <2>2, <2>3, <2>4 DEF InTurn
<1> QED
  BY <1>2, <1>3 DEF BilledInv

LEMMA RunFacts ==
    ASSUME BilledInv, NEW r \in Reporter
    PROVE  /\ reporter[r] \in ReporterTypes /\ reporter[r].minutes \in 0..MaxMinutes
           /\ records \in Seq(RecordTypes) /\ billed \in Seq(0..MaxMinutes)
           /\ unmarked \in Nat /\ Len(billed) \in Nat
  BY DEF BilledInv, RunTypes, ReporterTypes

\* A run in turn: what it knows, and that no other is about to mark.
LEMMA RunKnows ==
    ASSUME BilledInv, ~together, NEW r \in Reporter, Running(reporter[r])
    PROVE  /\ Len(records) <= 1 /\ Holds(records, reporter[r])
           /\ Len(billed) <= unmarked + 1
           /\ \/ Len(billed) <= unmarked
              \/ reporter[r].pc = "mark"
              \/ \E i \in DOMAIN records : records[i].reported
<1>1. /\ InTurn(records, reporter, billed, unmarked)
      /\ \A q \in Reporter : q # r => reporter[q].pc = "idle"
  BY OthersIdle
<1> QED
  BY <1>1 DEF InTurn, Done

LEMMA BilledFind ==
    ASSUME BilledInv, NEW r \in Reporter, FindRecord(r)
    PROVE  BilledInv'
<1>1. /\ reporter[r].pc = "find" /\ Running(reporter[r])
      /\ UNCHANGED <<minutes, records, billed, unmarked, together>>
  BY DEF FindRecord, Running
<1>2. CASE records = <<>>
  <2> DEFINE x == [reporter[r] EXCEPT !.pc = "create"]
  <2>1. reporter' = [reporter EXCEPT ![r] = x]
    BY <1>2 DEF FindRecord
  <2>2. x \in ReporterTypes /\ x.pc = "create"
    BY RunFacts DEF ReporterTypes
  <2> HIDE DEF x
  <2>3. Holds(records, x)
    BY <1>2, <2>2 DEF Holds
  <2> QED
    BY <1>1, <2>1, <2>2, <2>3, RunFacts, RunKnows, RunGoesOn
<1>3. CASE records # <<>>
  <2>1. PICK i \in DOMAIN records :
          reporter' = [reporter EXCEPT ![r].pc = "update", ![r].record = i]
    BY <1>3 DEF FindRecord
  <2> DEFINE x == [reporter[r] EXCEPT !.pc = "update", !.record = i]
  <2>2. reporter' = [reporter EXCEPT ![r] = x]
    BY <2>1 DEF BilledInv, RunTypes
  <2>3. i \in Nat
    BY RunFacts
  <2>4. x \in ReporterTypes /\ x.pc = "update" /\ x.record = i
    BY <2>3, RunFacts DEF ReporterTypes
  <2> HIDE DEF x
  <2>5. Holds(records, x)
    BY <2>4 DEF Holds
  <2> QED
    BY <1>1, <2>2, <2>4, <2>5, RunFacts, RunKnows, RunGoesOn
<1> QED
  BY <1>2, <1>3

LEMMA BilledCreate ==
    ASSUME BilledInv, NEW r \in Reporter, CreateRecord(r)
    PROVE  BilledInv'
<1> DEFINE row == [minutes |-> reporter[r].minutes, reported |-> FALSE]
           x == [reporter[r] EXCEPT !.pc = "send", !.record = Len(records) + 1]
<1>1. /\ reporter[r].pc = "create" /\ Running(reporter[r])
      /\ records' = Append(records, row)
      /\ UNCHANGED <<minutes, billed, unmarked, together>>
  BY DEF CreateRecord, Running
<1>2. reporter' = [reporter EXCEPT ![r] = x]
  BY DEF CreateRecord, BilledInv, RunTypes
<1>3. row \in RecordTypes /\ ~row.reported
  BY RunFacts DEF RecordTypes
<1>4. /\ x \in ReporterTypes /\ x.pc = "send" /\ x.record = Len(records) + 1
      /\ Len(records) \in Nat
  <2>1. Len(records) \in Nat /\ Len(records) + 1 \in Nat /\ reporter[r] \in ReporterTypes
    BY RunFacts
  <2> QED
    BY <2>1 DEF ReporterTypes
<1> HIDE DEF row, x
<1>5. /\ records' \in Seq(RecordTypes) /\ Len(records') = Len(records) + 1
      /\ DOMAIN records' = 1..(Len(records) + 1)
      /\ records'[Len(records) + 1] = row
  BY <1>1, <1>3, RunFacts
<1>6. Holds(records', x)
  BY <1>3, <1>4, <1>5 DEF Holds
<1>7. ASSUME ~together
      PROVE  /\ Len(records') <= 1 /\ Len(billed) <= unmarked + 1
             /\ Len(billed) <= unmarked
  <2>1. records = <<>>
    BY <1>1, <1>7, RunKnows DEF Holds
  <2>2. Len(records) = 0 /\ ~\E i \in DOMAIN records : records[i].reported
    BY <2>1
  <2> QED
    BY <1>1, <1>5, <1>7, <2>2, RunKnows
<1> QED
  BY <1>1, <1>2, <1>4, <1>5, <1>6, <1>7, RunFacts, RunGoesOn

LEMMA SeqOf ==
    ASSUME NEW S, NEW n \in Nat, NEW f \in [1..n -> S]
    PROVE  f \in Seq(S) /\ Len(f) = n
  OBVIOUS

\* Writing a field of a row.
LEMMA MinutesWritten ==
    ASSUME records \in Seq(RecordTypes), NEW i, NEW m \in 0..MaxMinutes,
           records' = [records EXCEPT ![i].minutes = m]
    PROVE  /\ records' \in Seq(RecordTypes) /\ Len(records') = Len(records)
           /\ DOMAIN records' = DOMAIN records
           /\ \A j \in DOMAIN records : records'[j].reported = records[j].reported
<1>1. \A row \in RecordTypes :
        /\ [row EXCEPT !.minutes = m] \in RecordTypes
        /\ [row EXCEPT !.minutes = m].reported = row.reported
  BY DEF RecordTypes
<1>2. /\ records' = [j \in DOMAIN records |-> IF j = i THEN [records[i] EXCEPT !.minutes = m]
                                       ELSE records[j]]
  OBVIOUS
<1>3. Len(records) \in Nat /\ DOMAIN records = 1..Len(records)
  OBVIOUS
<1>4. DOMAIN records' = DOMAIN records
  BY <1>2
<1>5. \A j \in 1..Len(records) : records[j] \in RecordTypes /\ records'[j] \in RecordTypes
  <2>1. \A j \in 1..Len(records) : records[j] \in RecordTypes
    OBVIOUS
  <2> QED
    BY <1>1, <1>2, <1>3, <2>1
<1>6. records' \in Seq(RecordTypes) /\ Len(records') = Len(records)
  <2> DEFINE n == Len(records)
  <2>1. records' = [j \in 1..n |-> records'[j]]
    BY <1>2, <1>3
  <2>2. n \in Nat /\ records' \in [1..n -> RecordTypes]
    BY <1>3, <1>5, <2>1
  <2> HIDE DEF n
  <2>3. records' \in Seq(RecordTypes) /\ Len(records') = n
    BY <2>1, <2>2, SeqOf
  <2> QED
    BY <2>3 DEF n
<1> QED
  BY <1>1, <1>2, <1>3, <1>4, <1>5, <1>6

LEMMA ReportedWritten ==
    ASSUME NEW rows \in Seq(RecordTypes), NEW i,
           NEW new, new = [rows EXCEPT ![i].reported = TRUE]
    PROVE  /\ new \in Seq(RecordTypes) /\ Len(new) = Len(rows)
           /\ DOMAIN new = DOMAIN rows
           /\ i \in DOMAIN rows => new[i].reported
<1>1. \A row \in RecordTypes :
        /\ [row EXCEPT !.reported = TRUE] \in RecordTypes
        /\ [row EXCEPT !.reported = TRUE].reported
  BY DEF RecordTypes
<1>2. /\ new = [j \in DOMAIN rows |-> IF j = i THEN [rows[i] EXCEPT !.reported = TRUE]
                                       ELSE rows[j]]
  OBVIOUS
<1>3. Len(rows) \in Nat /\ DOMAIN rows = 1..Len(rows)
  OBVIOUS
<1>4. DOMAIN new = DOMAIN rows
  BY <1>2
<1>5. \A j \in 1..Len(rows) : rows[j] \in RecordTypes /\ new[j] \in RecordTypes
  <2>1. \A j \in 1..Len(rows) : rows[j] \in RecordTypes
    OBVIOUS
  <2> QED
    BY <1>1, <1>2, <1>3, <2>1
<1>6. new \in Seq(RecordTypes) /\ Len(new) = Len(rows)
  <2> DEFINE n == Len(rows)
  <2>1. new = [j \in 1..n |-> new[j]]
    BY <1>2, <1>3
  <2>2. n \in Nat /\ new \in [1..n -> RecordTypes]
    BY <1>3, <1>5, <2>1
  <2> HIDE DEF n
  <2>3. new \in Seq(RecordTypes) /\ Len(new) = n
    BY <2>1, <2>2, SeqOf
  <2> QED
    BY <2>3 DEF n
<1> QED
  BY <1>1, <1>2, <1>3, <1>4, <1>5, <1>6

LEMMA BilledUpdate ==
    ASSUME BilledInv, NEW r \in Reporter, UpdateRecord(r)
    PROVE  BilledInv'
<1> DEFINE i == reporter[r].record
           y == [pc |-> "send", record |-> i, minutes |-> reporter[r].minutes]
           x == AfterUpdate(r)
<1>1. /\ reporter[r].pc = "update" /\ Running(reporter[r])
      /\ records' = [records EXCEPT ![i].minutes = reporter[r].minutes]
      /\ reporter' = [reporter EXCEPT ![r] = x]
      /\ UNCHANGED <<minutes, billed, unmarked, together>>
  BY DEF UpdateRecord, Running
<1>2. /\ records' \in Seq(RecordTypes) /\ Len(records') = Len(records)
      /\ DOMAIN records' = DOMAIN records
      /\ \A j \in DOMAIN records : records'[j].reported = records[j].reported
  <2> DEFINE m == reporter[r].minutes
  <2>1. records \in Seq(RecordTypes) /\ m \in 0..MaxMinutes
    BY RunFacts
  <2>2. records' = [records EXCEPT ![i].minutes = m]
    BY <1>1
  <2> HIDE DEF i, m
  <2> QED
    BY <2>1, <2>2, MinutesWritten
<1>3. y \in ReporterTypes /\ y.pc = "send" /\ y.record = i
  BY RunFacts DEF ReporterTypes
<1>4. x = Off \/ (x = y /\ ~records[i].reported)
  BY DEF AfterUpdate
<1> HIDE DEF x, y, i
<1>5. x \in ReporterTypes
  BY <1>3, <1>4, OffTypes
<1>6. ASSUME ~together
      PROVE  /\ Len(records') <= 1 /\ Holds(records', x)
             /\ Len(billed') <= unmarked' + 1
             /\ \/ Len(billed') <= unmarked'
                \/ \E j \in DOMAIN records' : records'[j].reported
  <2>1. i \in DOMAIN records
    BY <1>1, <1>6, RunKnows DEF Holds, i
  <2>2. Holds(records', x)
    BY <1>2, <1>3, <1>4, <2>1, OffTypes DEF Holds
  <2>3. /\ Len(records) <= 1 /\ Len(billed) <= unmarked + 1
        /\ Len(billed) <= unmarked \/ \E j \in DOMAIN records : records[j].reported
    BY <1>1, <1>6, RunKnows
  <2> QED
    BY <1>1, <1>2, <2>2, <2>3
<1> QED
  BY <1>1, <1>2, <1>5, <1>6, RunFacts, RunGoesOn

LEMMA BilledSend ==
    ASSUME BilledInv, NEW r \in Reporter, SendUsage(r)
    PROVE  BilledInv'
<1> DEFINE y == [reporter[r] EXCEPT !.pc = "mark"]
<1>1. /\ reporter[r].pc = "send" /\ Running(reporter[r])
      /\ UNCHANGED <<minutes, records, unmarked, together>>
  BY DEF SendUsage, Running
<1>2. CASE Billable
  <2>1. /\ billed' = Append(billed, reporter[r].minutes)
        /\ reporter' = [reporter EXCEPT ![r] = y]
    BY <1>2 DEF SendUsage
  <2>2. y \in ReporterTypes /\ y.pc = "mark" /\ y.record = reporter[r].record
    BY RunFacts DEF ReporterTypes
  <2> HIDE DEF y
  <2>3. billed' \in Seq(0..MaxMinutes) /\ Len(billed') = Len(billed) + 1
    BY <2>1, RunFacts
  <2>4. ASSUME ~together
        PROVE  /\ Len(records) <= 1 /\ Holds(records, y)
               /\ Len(billed') <= unmarked + 1
    <3>1. /\ Len(records) <= 1 /\ Holds(records, reporter[r])
          /\ Len(billed) <= unmarked \/ \E i \in DOMAIN records : records[i].reported
      BY <1>1, <2>4, RunKnows
    <3>2. Holds(records, y)
      BY <1>1, <2>2, <3>1 DEF Holds
    <3>3. reporter[r].record \in DOMAIN records /\ ~records[reporter[r].record].reported
      BY <1>1, <3>1 DEF Holds
    <3>4. \A i, j \in DOMAIN records : i = j
      BY <3>1, RunFacts
    <3>5. Len(billed) <= unmarked
      BY <3>1, <3>3, <3>4
    <3> QED
      BY <2>3, <3>1, <3>2, <3>5, RunFacts
  <2> QED
    BY <1>1, <2>1, <2>2, <2>3, <2>4, RunFacts, RunGoesOn
<1>3. CASE ~Billable
  <2>1. billed' = billed /\ reporter' = [reporter EXCEPT ![r] = Off]
    BY <1>3 DEF SendUsage, AfterNoSubscription
  <2>2. Holds(records, Off)
    BY OffTypes DEF Holds
  <2> QED
    BY <1>1, <2>1, <2>2, OffTypes, RunFacts, RunKnows, RunGoesOn
<1> QED
  BY <1>2, <1>3

LEMMA BilledMark ==
    ASSUME BilledInv, NEW r \in Reporter, MarkReported(r)
    PROVE  BilledInv'
<1> DEFINE i == reporter[r].record
<1>1. /\ reporter[r].pc = "mark" /\ Running(reporter[r])
      /\ records' = [records EXCEPT ![i].reported = TRUE]
      /\ reporter' = [reporter EXCEPT ![r] = Off]
      /\ UNCHANGED <<minutes, billed, unmarked, together>>
  BY DEF MarkReported, Running
<1>2. /\ records' \in Seq(RecordTypes) /\ Len(records') = Len(records)
      /\ DOMAIN records' = DOMAIN records
      /\ i \in DOMAIN records => records'[i].reported
  BY <1>1, RunFacts, ReportedWritten
<1>3. Holds(records', Off)
  BY OffTypes DEF Holds
<1>4. ASSUME ~together
      PROVE  /\ Len(records') <= 1 /\ Len(billed) <= unmarked + 1
             /\ \E j \in DOMAIN records' : records'[j].reported
  <2>1. Len(records) <= 1 /\ i \in DOMAIN records /\ Len(billed) <= unmarked + 1
    BY <1>1, <1>4, RunKnows DEF Holds
  <2> QED
    BY <1>2, <2>1
<1> QED
  BY <1>1, <1>2, <1>3, <1>4, OffTypes, RunFacts, RunGoesOn

LEMMA BilledFails ==
    ASSUME BilledInv, NEW r \in Reporter, ReporterFails(r)
    PROVE  BilledInv'
<1>1. /\ reporter[r].pc \in {"send", "mark"} /\ Running(reporter[r])
      /\ reporter' = [reporter EXCEPT ![r] = Off]
      /\ unmarked' = unmarked + (IF reporter[r].pc = "mark" THEN 1 ELSE 0)
      /\ UNCHANGED <<minutes, records, billed, together>>
  BY DEF ReporterFails, Running
<1>2. unmarked' \in Nat
  BY <1>1, RunFacts
<1>3. Holds(records, Off)
  BY OffTypes DEF Holds
<1>4. ASSUME ~together
      PROVE  /\ Len(records) <= 1 /\ Len(billed) <= unmarked' + 1
             /\ \/ Len(billed) <= unmarked'
                \/ \E j \in DOMAIN records : records[j].reported
  BY <1>1, <1>4, RunKnows, RunFacts
<1> QED
  BY <1>1, <1>2, <1>3, <1>4, OffTypes, RunFacts, RunGoesOn

LEMMA BilledNext ==
    ASSUME BilledInv, [Next]_vars
    PROVE  BilledInv'
<1>1. CASE UNCHANGED reportVars
  BY <1>1 DEF reportVars, BilledInv, RunTypes
<1>2. CASE LateTranscript
  BY <1>2, BilledLate
<1>3. ASSUME NEW r \in Reporter, ReportStep(r)
      PROVE  BilledInv'
  BY <1>3, BilledAggregate, BilledFind, BilledCreate, BilledUpdate, BilledSend,
     BilledMark, BilledFails DEF ReportStep
<1>4. CASE UNCHANGED vars
  BY <1>1, <1>4 DEF vars
<1> QED
  BY <1>1, <1>2, <1>3, <1>4 DEF Next

(***************************************************************************)
(* runDailyUsageReport: as long as runs of a day follow one another, the   *)
(* day is billed once, and once more for each run that failed after Stripe *)
(* took its usage, however many transcripts come late.                     *)
(***************************************************************************)
THEOREM DayIsBilledOnce == Spec => []BilledOnce
<1>1. BilledInv => BilledOnce
  <2> SUFFICES ASSUME BilledInv, ~together PROVE Len(billed) <= 1 + unmarked
    BY DEF BilledOnce
  <2>1. Len(billed) <= unmarked + 1 /\ Len(billed) \in Nat /\ unmarked \in Nat
    BY DEF BilledInv, InTurn, RunTypes
  <2> QED
    BY <2>1
<1> QED
  BY <1>1, BilledInit, BilledNext, PTL DEF Spec
-----------------------------------------------------------------------------
(***************************************************************************)
(* The subscription rows.  The invariant follows the events: a row that is *)
(* not what Stripe says, and is not in doubt, has an event on its way that *)
(* no request has written the row for yet; and a deletion on its way is    *)
(* that of a subscription that is canceled for good.                       *)
(***************************************************************************)
\* The events Stripe still sends or a request works on.
Live == pending \cup {handler[h].event : h \in {g \in Handler : handler[g].pc # "idle"}}

\* The ids of those of subscription s.
Used(s) == {e.id : e \in {x \in Live : x.sub = s}}

\* The request has written the row.
Past(x) == x.pc \in {"plan", "others", "revert"}

\* A pending event of s for which no request has written the row.
Unwritten(e) ==
    e \in pending /\ \A h \in Handler : Past(handler[h]) => handler[h].event # e

Due(s, kinds) == \E e \in pending : e.sub = s /\ e.kind \in kinds /\ Unwritten(e)

EventInv ==
    /\ Live \subseteq EventTypes
    /\ \A e \in Live : e.kind = "deleted" => stripe[e.sub].status = "canceled"
    /\ \A h \in Handler : handler[h].pc \in {"others", "revert"}
                             => handler[h].event.kind = "deleted"
    /\ \A s \in Sub : IsFiniteSet(Used(s)) /\ Cardinality(Used(s)) <= begun

StatusInv(s) ==
    \/ s \in doubt
    \/ local[s].status = MapStripeStatus(stripe[s].status)
    \/ Due(s, {"updated", "checkout", "deleted"})

EndInv(s) ==
    \/ s \in doubt
    \/ local[s].end = stripe[s].end
    \/ Due(s, {"updated", "checkout"})

CurrentInv == \A s \in Sub : StatusInv(s) /\ EndInv(s)

\* Without a race, a plan that was taken back while a subscription is entitled
\* is given again: the event that does it is pending.
PlanDue(s) ==
    (plan = "FREE_TRIAL" /\ ~overlooked /\ Entitled(s))
        => \E e \in pending : e.sub = s /\ e.kind \in {"updated", "checkout"}

RaceInv ==
    ~raced =>
        /\ doubt = {}
        /\ \A h \in Handler :
             /\ handler[h].pc \in {"others", "revert"}
                   => local[handler[h].event.sub].status # "ACTIVE"
             /\ handler[h].pc = "revert" => \A s \in Sub : local[s].status # "ACTIVE"
        /\ \A s \in Sub : PlanDue(s)

BillingInv == TypeOK /\ EventInv /\ CurrentInv /\ RaceInv

LEMMA FreeTypes == Free \in HandlerTypes /\ Free.pc = "idle"
<1>1. 0 \in End
  BY BillingAssumption DEF End
<1> QED
  BY <1>1 DEF Free, HandlerTypes, Status

LEMMA StatusMap ==
    /\ \A x \in StripeStatus :
         /\ MapStripeStatus(x) \in Status
         /\ MapStripeStatus(x) \in Usable
               <=> x \in {"active", "trialing", "unknown"}
         /\ MapStripeStatus(x) = "none" <=> x = "none"
    /\ MapStripeStatus("canceled") = "CANCELED"
<1>1. ASSUME NEW x \in StripeStatus
      PROVE  /\ x = "none" => MapStripeStatus(x) = "none"
             /\ x = "trialing" => MapStripeStatus(x) = "TRIALING"
             /\ x \in {"past_due", "unpaid", "incomplete"}
                   => MapStripeStatus(x) = "PAST_DUE"
             /\ x \in {"canceled", "incomplete_expired", "paused"}
                   => MapStripeStatus(x) = "CANCELED"
             /\ x \in {"active", "unknown"} => MapStripeStatus(x) = "ACTIVE"
  BY DEF MapStripeStatus
<1>2. "canceled" \in StripeStatus
  BY DEF StripeStatus
<1> QED
  BY <1>1, <1>2 DEF StripeStatus, Status, Usable

LEMMA EntitledRow ==
    ASSUME TypeOK, NEW s \in Sub
    PROVE  Entitled(s) <=> MapStripeStatus(stripe[s].status) \in Usable
<1>1. stripe[s].status \in StripeStatus
  BY DEF TypeOK
<1> QED
  BY <1>1, StatusMap DEF Entitled

LEMMA BillingInit == ReportInit => BillingInv
<1> SUFFICES ASSUME ReportInit PROVE BillingInv
  OBVIOUS
<1>1. PICK held \in SUBSET Sub :
         /\ stripe = [s \in Sub |->
              IF s \in held
              THEN [status |-> "active", end |-> Period, customer |-> 1]
              ELSE [status |-> "none", end |-> 0, customer |-> 0]]
         /\ local = [s \in Sub |->
              IF s \in held
              THEN [status |-> "ACTIVE", end |-> Period, at |-> 0]
              ELSE [status |-> "none", end |-> 0, at |-> 0]]
         /\ plan = IF held = {} THEN "FREE_TRIAL" ELSE "PAID"
         /\ trial = (held = {})
         /\ customer = IF held = {} THEN 0 ELSE 1
         /\ customers = IF held = {} THEN 0 ELSE 1
  BY DEF ReportInit, Init
<1>2. /\ now = 0 /\ pending = {} /\ sessions = {} /\ marked = {}
      /\ handler = [h \in Handler |-> Free] /\ buyer = [b \in Buyer |-> Away]
      /\ begun = 0 /\ doubt = {}
  BY DEF ReportInit, Init
<1>3. raced = FALSE /\ overlooked = FALSE /\ crossed = FALSE
  BY DEF ReportInit, Init
<1>4. /\ Period \in End /\ 0 \in End /\ 0 \in 0..MaxNow /\ 0 \in 0..MaxBegun
      /\ Away \in BuyerTypes
  BY BillingAssumption DEF End, Away, BuyerTypes
<1>5. TypeOK
  <2>1. /\ stripe \in [Sub -> [status : StripeStatus, end : End, customer : Nat]]
        /\ local \in [Sub -> [status : Status, end : End, at : 0..MaxNow]]
    BY <1>1, <1>4 DEF StripeStatus, Status
  <2>2. plan \in {"FREE_TRIAL", "PAID"} /\ customer \in Nat /\ customers \in Nat
    BY <1>1
  <2>3. trial \in BOOLEAN
    BY <1>1, Zenon
  <2>4. raced \in BOOLEAN /\ overlooked \in BOOLEAN /\ crossed \in BOOLEAN
    BY <1>3, Zenon
  <2>5. handler \in [Handler -> HandlerTypes] /\ buyer \in [Buyer -> BuyerTypes]
    BY <1>2, <1>4, FreeTypes
  <2>6. /\ now \in 0..MaxNow /\ pending \subseteq EventTypes /\ sessions \subseteq Nat
        /\ marked \subseteq pending /\ begun \in 0..MaxBegun /\ doubt \subseteq Sub
    BY <1>2, <1>4
  <2> QED
    BY <2>1, <2>2, <2>3, <2>4, <2>5, <2>6 DEF TypeOK
<1>6. \A h \in Handler : handler[h].pc = "idle"
  BY <1>2, FreeTypes
<1>7. Live = {} /\ \A s \in Sub : Used(s) = {}
  BY <1>2, <1>6 DEF Live, Used
<1>8. EventInv
  BY <1>2, <1>6, <1>7, FS_EmptySet DEF EventInv
<1>9. CurrentInv
  BY <1>1 DEF CurrentInv, StatusInv, EndInv, MapStripeStatus
<1>10. \A s \in Sub : PlanDue(s)
  BY <1>1 DEF PlanDue, Entitled
<1>11. RaceInv
  BY <1>2, <1>6, <1>10 DEF RaceInv
<1> QED
  BY <1>5, <1>8, <1>9, <1>11 DEF BillingInv

-----------------------------------------------------------------------------
\* Steps that have nothing to do with subscriptions and their events.
LEMMA BillingSame ==
    ASSUME BillingInv, TypeOK', begun <= begun',
           UNCHANGED <<stripe, pending, local, plan, handler, doubt, raced, overlooked>>
    PROVE  BillingInv'
<1>0. begun \in Nat /\ begun' \in Nat
  BY BillingAssumption DEF BillingInv, TypeOK
<1>1. Live' = Live /\ \A s : Used(s)' = Used(s)
  BY DEF Live, Used
<1>2. EventInv'
  <2>1. \A s \in Sub : IsFiniteSet(Used(s)) /\ Cardinality(Used(s)) <= begun
    BY DEF BillingInv, EventInv
  <2>2. \A s \in Sub : Cardinality(Used(s)) \in Nat
    BY <2>1, FS_CardinalityType
  <2>3. \A s \in Sub : Cardinality(Used(s)) <= begun'
    BY <1>0, <2>1, <2>2
  <2> QED
    BY <1>1, <2>1, <2>3 DEF BillingInv, EventInv
<1>3. CurrentInv'
  BY DEF BillingInv, CurrentInv, StatusInv, EndInv, Due, Unwritten, Past
<1>4. RaceInv'
  BY DEF BillingInv, RaceInv, PlanDue, Entitled
<1> QED
  BY <1>2, <1>3, <1>4 DEF BillingInv

\* There is an id left for every change at Stripe.
LEMMA FreshId ==
    ASSUME TypeOK, EventInv, NEW s \in Sub, begun < MaxBegun
    PROVE  Fresh(s) \in Id /\ Fresh(s) \notin Used(s)
<1>1. /\ IsFiniteSet(Used(s)) /\ Cardinality(Used(s)) <= begun
      /\ begun \in Nat /\ MaxBegun \in Nat
  BY BillingAssumption DEF TypeOK, EventInv
<1>2. IsFiniteSet(Id) /\ Cardinality(Id) = 2 * MaxBegun + 1
  BY <1>1, FS_Interval DEF Id
<1>3. \E i \in Id : i \notin Used(s)
  <2> SUFFICES ASSUME Id \subseteq Used(s) PROVE FALSE
    OBVIOUS
  <2>1. Cardinality(Id) <= Cardinality(Used(s)) /\ Cardinality(Used(s)) \in Nat
    BY <1>1, FS_Subset, FS_CardinalityType
  <2> QED
    BY <1>1, <1>2, <2>1
<1> DEFINE P(i) == /\ \A e \in pending : e.sub = s => e.id # i
                   /\ \A h \in Handler :
                        handler[h].pc # "idle" /\ handler[h].event.sub = s
                           => handler[h].event.id # i
<1>4. \A i : i \notin Used(s) <=> P(i)
  BY DEF Used, Live
<1>5. Fresh(s) = CHOOSE i \in Id : P(i)
  BY DEF Fresh
<1> HIDE DEF P
<1>6. \E i \in Id : P(i)
  BY <1>3, <1>4
<1>7. Fresh(s) \in Id /\ P(Fresh(s))
  BY <1>5, <1>6
<1> QED
  BY <1>4, <1>7

\* A change at Stripe: its events are new to every request.
LEMMA Emitted ==
    ASSUME BillingInv, NEW s \in Sub, NEW kinds \in SUBSET Kind, Count, Emit(s, kinds),
           UNCHANGED <<now, handler>>, stripe[s].status # "canceled",
           \A z \in Sub : z # s => stripe'[z] = stripe[z],
           "deleted" \in kinds => stripe'[s].status = "canceled"
    PROVE  /\ EventInv' /\ pending' \subseteq EventTypes /\ pending \subseteq pending'
           /\ begun' \in 0..MaxBegun
           /\ \A k \in kinds : \E e \in pending' : e.sub = s /\ e.kind = k /\ Unwritten(e)'
           /\ \A e \in pending : Unwritten(e) => Unwritten(e)'
<1> DEFINE i == Fresh(s)
           new(k) == [kind |-> k, sub |-> s, at |-> now, id |-> i]
<1>0. /\ begun \in Nat /\ MaxBegun \in Nat /\ begun' = begun + 1 /\ begun < MaxBegun
      /\ TypeOK /\ EventInv
  BY BillingAssumption DEF BillingInv, TypeOK, Count
<1>1. i \in Id /\ i \notin Used(s)
  BY <1>0, FreshId
<1>2. pending' = pending \cup {new(k) : k \in kinds}
  BY DEF Emit
<1> HIDE DEF i
<1>3. \A k \in kinds : new(k) \in EventTypes /\ new(k).sub = s /\ new(k).kind = k /\ new(k).id = i
  BY <1>0, <1>1 DEF TypeOK, EventTypes
<1>4. pending' \subseteq EventTypes /\ pending \subseteq pending' /\ begun' \in 0..MaxBegun
  BY <1>0, <1>2, <1>3 DEF TypeOK
<1>5. Live' = Live \cup {new(k) : k \in kinds}
  BY <1>2 DEF Live
<1>6. \A e \in Live : e \in EventTypes /\ e.sub \in Sub
  BY <1>0 DEF EventInv, EventTypes
<1>7. EventInv'
  <2>1. Live' \subseteq EventTypes
    BY <1>3, <1>5, <1>6
  <2>2. \A e \in Live' : e.kind = "deleted" => stripe'[e.sub].status = "canceled"
    <3> SUFFICES ASSUME NEW e \in Live', e.kind = "deleted"
                 PROVE  stripe'[e.sub].status = "canceled"
      OBVIOUS
    <3>1. CASE e \in Live
      <4>1. stripe[e.sub].status = "canceled" /\ e.sub \in Sub
        BY <1>0, <1>6, <3>1 DEF EventInv
      <4> QED
        BY <4>1
    <3>2. CASE e \in {new(k) : k \in kinds}
      BY <1>3, <3>2
    <3> QED
      BY <1>5, <3>1, <3>2
  <2>3. \A h \in Handler : handler'[h].pc \in {"others", "revert"}
                             => handler'[h].event.kind = "deleted"
    BY <1>0 DEF EventInv
  <2>4. ASSUME NEW z \in Sub
        PROVE  IsFiniteSet(Used(z)') /\ Cardinality(Used(z)') <= begun'
    <3>1. /\ IsFiniteSet(Used(z)) /\ Cardinality(Used(z)) <= begun
          /\ Cardinality(Used(z)) \in Nat
      BY <1>0, FS_CardinalityType DEF EventInv
    <3>0. /\ IsFiniteSet(Used(z) \cup {i})
          /\ Cardinality(Used(z) \cup {i}) =
               IF i \in Used(z) THEN Cardinality(Used(z)) ELSE Cardinality(Used(z)) + 1
      BY <3>1, FS_AddElement
    <3>2. /\ IsFiniteSet(Used(z) \cup {i})
          /\ Cardinality(Used(z) \cup {i}) <= begun + 1
      BY <1>0, <3>0, <3>1
    <3>3. Used(z)' \in SUBSET (Used(z) \cup {i})
      BY <1>3, <1>5 DEF Used
    <3>4. /\ IsFiniteSet(Used(z)') /\ Cardinality(Used(z)') <= Cardinality(Used(z) \cup {i})
          /\ Cardinality(Used(z)') \in Nat /\ Cardinality(Used(z) \cup {i}) \in Nat
      BY <3>2, <3>3, FS_Subset, FS_CardinalityType
    <3> QED
      BY <1>0, <3>2, <3>4
  <2> QED
    BY <2>1, <2>2, <2>3, <2>4 DEF EventInv
<1>8. ASSUME NEW k \in kinds
      PROVE  \E e \in pending' : e.sub = s /\ e.kind = k /\ Unwritten(e)'
  <2>1. PICK e : e = new(k)
    OBVIOUS
  <2>2. ASSUME NEW h \in Handler, Past(handler[h]) PROVE handler[h].event # e
    <3>1. handler[h].event \in Live
      BY <2>2 DEF Live, Past
    <3>2. handler[h].event.sub = s => handler[h].event.id # i
      BY <1>1, <3>1 DEF Used
    <3> QED
      BY <1>3, <2>1, <3>2
  <2>3. e \in pending' /\ e.sub = s /\ e.kind = k
    BY <1>2, <1>3, <2>1
  <2>4. Unwritten(e)'
    BY <2>2, <2>3 DEF Unwritten, Past
  <2> QED
    BY <2>3, <2>4
<1>9. \A e \in pending : Unwritten(e) => Unwritten(e)'
  BY <1>4 DEF Unwritten, Past
<1> QED
  BY <1>4, <1>7, <1>8, <1>9

\* A change at Stripe announces itself: by an update or the end of a checkout, or
\* by a deletion that leaves the period alone.
LEMMA BillingEmit ==
    ASSUME BillingInv, NEW s \in Sub, NEW kinds \in SUBSET Kind, Count, Emit(s, kinds),
           UNCHANGED <<now, handler, orgVars, marked, buyer, doubt, raced, overlooked, crossed, customers>>,
           sessions' \subseteq Nat, stripe[s].status # "canceled",
           stripe' \in [Sub -> [status : StripeStatus, end : End, customer : Nat]],
           \A z \in Sub : z # s => stripe'[z] = stripe[z],
           "deleted" \in kinds => stripe'[s].status = "canceled",
           \/ \E k \in kinds : k \in {"updated", "checkout"}
           \/ "deleted" \in kinds /\ stripe'[s].end = stripe[s].end
    PROVE  BillingInv'
<1>1. /\ EventInv' /\ pending' \subseteq EventTypes /\ pending \subseteq pending'
      /\ begun' \in 0..MaxBegun
      /\ \A k \in kinds : \E e \in pending' : e.sub = s /\ e.kind = k /\ Unwritten(e)'
      /\ \A e \in pending : Unwritten(e) => Unwritten(e)'
  BY Emitted
<1>2. TypeOK'
  BY <1>1 DEF BillingInv, TypeOK, orgVars
<1>3. UNCHANGED <<local, plan>>
  BY DEF orgVars
<1>4. \A z \in Sub : \A K : Due(z, K) => Due(z, K)'
  BY <1>1 DEF Due
<1>5. \A K : (\E k \in kinds : k \in K) => Due(s, K)'
  BY <1>1 DEF Due
<1>6. CurrentInv'
  <2> SUFFICES ASSUME NEW z \in Sub PROVE StatusInv(z)' /\ EndInv(z)'
    BY DEF CurrentInv
  <2>1. StatusInv(z) /\ EndInv(z)
    BY DEF BillingInv, CurrentInv
  <2>2. CASE z # s
    BY <1>3, <1>4, <2>1, <2>2 DEF StatusInv, EndInv
  <2>3. CASE z = s
    <3>1. Due(s, {"updated", "checkout", "deleted"})'
      BY <1>5
    <3>2. stripe'[s].end = stripe[s].end \/ Due(s, {"updated", "checkout"})'
      BY <1>5
    <3>3. StatusInv(s)'
      BY <3>1 DEF StatusInv
    <3>4. EndInv(s)'
      BY <1>3, <1>4, <2>1, <2>3, <3>2 DEF EndInv
    <3> QED
      BY <2>3, <3>3, <3>4
  <2> QED
    BY <2>2, <2>3
<1>7. RaceInv'
  <2> SUFFICES ASSUME ~raced PROVE \A z \in Sub : PlanDue(z)'
    BY <1>3 DEF BillingInv, RaceInv
  <2>1. \A z \in Sub : PlanDue(z)
    BY DEF BillingInv, RaceInv
  <2>2. \A z \in Sub : z # s => PlanDue(z)'
    BY <1>1, <1>3, <2>1 DEF PlanDue, Entitled
  <2>3. PlanDue(s)'
    BY <1>1 DEF PlanDue, Entitled
  <2> QED
    BY <2>2, <2>3
<1> QED
  BY <1>1, <1>2, <1>6, <1>7 DEF BillingInv

LEMMA BillingAtStripe ==
    ASSUME BillingInv, NEW s \in Sub,
           \/ PaymentFails(s) \/ Pays(s) \/ Cancels(s)
           \/ \E status \in Turn : Turns(s, status)
           \/ \E c \in sessions : Subscribe(s, c)
    PROVE  BillingInv'
<1> DEFINE Rows == [status : StripeStatus, end : End, customer : Nat]
<1>0. /\ stripe \in [Sub -> Rows] /\ sessions \subseteq Nat
      /\ now + Period \in End /\ stripe[s].end \in End
  <2>1. now \in 0..MaxNow /\ stripe \in [Sub -> Rows] /\ sessions \subseteq Nat
    BY DEF BillingInv, TypeOK
  <2> QED
    BY <2>1, BillingAssumption DEF End
<1>1. ASSUME NEW status \in StripeStatus, NEW end \in End, NEW kinds \in SUBSET Kind,
             AtStripe(s, status, end, kinds), stripe[s].status # "canceled",
             "deleted" \in kinds => status = "canceled",
             \/ \E k \in kinds : k \in {"updated", "checkout"}
             \/ "deleted" \in kinds /\ end = stripe[s].end
      PROVE  BillingInv'
  <2> DEFINE rec == [stripe[s] EXCEPT !.status = status, !.end = end]
  <2>1. rec \in Rows /\ rec.status = status /\ rec.end = end
    BY <1>0
  <2>2. /\ stripe' = [stripe EXCEPT ![s] = rec]
        /\ Count /\ Emit(s, kinds) /\ sessions' = sessions
        /\ UNCHANGED <<now, handler, orgVars, marked, buyer, doubt, raced, overlooked, crossed, customers>>
    BY <1>0, <1>1 DEF AtStripe
  <2> HIDE DEF rec
  <2>3. /\ stripe' \in [Sub -> Rows] /\ stripe'[s] = rec
        /\ \A z \in Sub : z # s => stripe'[z] = stripe[z]
    BY <1>0, <2>1, <2>2
  <2> QED
    BY <1>0, <1>1, <2>1, <2>2, <2>3, BillingEmit
<1>2. CASE PaymentFails(s)
  BY <1>0, <1>1, <1>2 DEF PaymentFails, StripeStatus, Kind
<1>3. CASE Pays(s)
  BY <1>0, <1>1, <1>3 DEF Pays, Open, StripeStatus, Kind
<1>4. CASE Cancels(s)
  BY <1>0, <1>1, <1>4 DEF Cancels, Open, StripeStatus, Kind
<1>5. ASSUME NEW c \in sessions, Subscribe(s, c) PROVE BillingInv'
  <2> DEFINE rec == [status |-> "active", end |-> now + Period, customer |-> c]
  <2>1. rec \in Rows
    BY <1>0 DEF StripeStatus
  <2>2. /\ stripe' = [stripe EXCEPT ![s] = rec] /\ stripe[s].status = "none"
        /\ Count /\ Emit(s, {"checkout"}) /\ sessions' \subseteq Nat
        /\ UNCHANGED <<now, handler, orgVars, marked, buyer, doubt, raced, overlooked, crossed, customers>>
    BY <1>0, <1>5 DEF Subscribe
  <2> HIDE DEF rec
  <2>3. /\ stripe' \in [Sub -> Rows]
        /\ \A z \in Sub : z # s => stripe'[z] = stripe[z]
    BY <1>0, <2>1, <2>2
  <2> QED
    BY <2>2, <2>3, BillingEmit DEF Kind
<1>6. ASSUME NEW status \in Turn, Turns(s, status) PROVE BillingInv'
  <2>1. status \in StripeStatus
    BY BillingAssumption
  <2> QED
    BY <1>0, <1>1, <1>6, <2>1 DEF Turns, Open, Kind
<1> QED
  BY <1>2, <1>3, <1>4, <1>5, <1>6

-----------------------------------------------------------------------------
\* A webhook request adds no event.
LEMMA HandlerEvents ==
    ASSUME BillingInv, NEW h \in Handler, stripe' = stripe,
           begun' \in 0..MaxBegun, begun <= begun', pending' \subseteq pending,
           \A g \in Handler : g # h => handler'[g] = handler[g],
           \/ handler'[h].pc = "idle"
           \/ /\ handler'[h].event \in Live
              /\ handler'[h].pc \in {"others", "revert"} => handler'[h].event.kind = "deleted"
    PROVE  EventInv'
<1>0. begun \in Nat /\ begun' \in Nat /\ EventInv
  BY BillingAssumption DEF BillingInv, TypeOK
<1>1. Live' \subseteq Live
  BY DEF Live
<1>2. Live' \subseteq EventTypes
  BY <1>0, <1>1 DEF EventInv
<1>3. \A e \in Live' : e.kind = "deleted" => stripe'[e.sub].status = "canceled"
  BY <1>0, <1>1 DEF EventInv
<1>4. \A g \in Handler : handler'[g].pc \in {"others", "revert"}
                             => handler'[g].event.kind = "deleted"
  BY <1>0 DEF EventInv
<1>5. ASSUME NEW z \in Sub
      PROVE  IsFiniteSet(Used(z)') /\ Cardinality(Used(z)') <= begun'
  <2>1. /\ IsFiniteSet(Used(z)) /\ Cardinality(Used(z)) <= begun
        /\ Cardinality(Used(z)) \in Nat
    BY <1>0, FS_CardinalityType DEF EventInv
  <2>2. Used(z)' \in SUBSET Used(z)
    BY <1>1 DEF Used
  <2>3. /\ IsFiniteSet(Used(z)') /\ Cardinality(Used(z)') <= Cardinality(Used(z))
        /\ Cardinality(Used(z)') \in Nat
    BY <2>1, <2>2, FS_Subset, FS_CardinalityType
  <2> QED
    BY <1>0, <2>1, <2>3
<1> QED
  BY <1>2, <1>3, <1>4, <1>5 DEF EventInv

\* What a request that is not idle holds.
LEMMA HeldEvent ==
    ASSUME BillingInv, NEW h \in Handler, handler[h].pc # "idle"
    PROVE  /\ EventOf(h) = handler[h].event /\ handler[h].event \in Live
           /\ handler[h].event \in EventTypes /\ handler[h].event.sub \in Sub
           /\ handler[h].event.kind \in Kind
           /\ handler[h] \in HandlerTypes
           /\ handler[h].event.kind = "deleted" =>
                 stripe[handler[h].event.sub].status = "canceled"
<1>1. handler[h].event \in Live /\ handler[h] \in HandlerTypes
  BY DEF Live, BillingInv, TypeOK
<1> QED
  BY <1>1 DEF EventOf, BillingInv, EventInv, EventTypes

\* The answer ends the request; the event it is for may stay.
LEMMA AnswerFacts ==
    ASSUME BillingInv, NEW h \in Handler, Answer(h)
    PROVE  /\ handler' \in [Handler -> HandlerTypes] /\ handler'[h].pc = "idle"
           /\ \A g \in Handler : g # h => handler'[g] = handler[g]
           /\ pending' \subseteq pending /\ marked' \subseteq pending'
           /\ \A e \in pending : e # handler[h].event => e \in pending'
           /\ begun' \in 0..MaxBegun /\ begun <= begun'
<1>1. begun \in 0..MaxBegun /\ handler \in [Handler -> HandlerTypes] /\ marked \subseteq pending
  BY DEF BillingInv, TypeOK
<1>2. handler' = [handler EXCEPT ![h] = Free]
  BY DEF Answer
<1>3. begun' \in 0..MaxBegun /\ begun <= begun'
  BY <1>1, BillingAssumption DEF Answer, Answered, Count
<1>4. /\ pending' \subseteq pending /\ marked' \subseteq pending'
      /\ \A e \in pending : e # handler[h].event => e \in pending'
  BY <1>1 DEF Answer, Answered, EventOf
<1> QED
  BY <1>1, <1>2, <1>3, <1>4, FreeTypes

LEMMA GotoFacts ==
    ASSUME BillingInv, NEW h \in Handler, NEW pc \in {"plan", "others", "revert"},
           Goto(h, pc)
    PROVE  /\ handler' \in [Handler -> HandlerTypes] /\ handler'[h].pc = pc
           /\ handler'[h].event = handler[h].event
           /\ \A g \in Handler : g # h => handler'[g] = handler[g]
           /\ UNCHANGED <<pending, marked, begun>>
<1>1. handler \in [Handler -> HandlerTypes] /\ 0 \in End
  BY BillingAssumption DEF BillingInv, TypeOK, End
<1> QED
  BY <1>1 DEF Goto, HandlerTypes, Status

\* Steps of a request that leave the rows alone: an event that is answered was
\* an invoice, or its row has been written, or is in doubt.
LEMMA CurrentKept ==
    ASSUME BillingInv, NEW h \in Handler, UNCHANGED <<stripe, local>>, doubt \subseteq doubt',
           \A g \in Handler : g # h => handler'[g] = handler[g],
           Past(handler'[h]) => Past(handler[h]) /\ handler'[h].event = handler[h].event,
           \A e \in pending : Unwritten(e) =>
               e \in pending' \/ e.kind \in {"paid", "failed"} \/ e.sub \in doubt'
    PROVE  CurrentInv'
<1>1. \A e \in pending : Unwritten(e) =>
         Unwritten(e)' \/ e.kind \in {"paid", "failed"} \/ e.sub \in doubt'
  BY DEF Unwritten
<1> SUFFICES ASSUME NEW z \in Sub, z \notin doubt'
             PROVE  StatusInv(z)' /\ EndInv(z)'
  BY DEF CurrentInv, StatusInv, EndInv
<1>2. ASSUME NEW K, K \subseteq {"updated", "checkout", "deleted"}, Due(z, K)
      PROVE  Due(z, K)'
  <2>1. PICK e \in pending : e.sub = z /\ e.kind \in K /\ Unwritten(e)
    BY <1>2 DEF Due
  <2>2. Unwritten(e)' /\ e \in pending'
    BY <1>1, <1>2, <2>1 DEF Unwritten
  <2> QED
    BY <2>1, <2>2 DEF Due
<1>3. StatusInv(z) /\ EndInv(z) /\ z \notin doubt
  BY DEF BillingInv, CurrentInv
<1> QED
  BY <1>2, <1>3 DEF StatusInv, EndInv

\* The same for races and the plan.
LEMMA RaceKept ==
    ASSUME BillingInv, NEW h \in Handler, UNCHANGED <<stripe, local>>,
           ~raced' => ~raced /\ doubt' = doubt,
           \A g \in Handler : g # h => handler'[g] = handler[g],
           ~raced => \/ handler'[h].pc \notin {"others", "revert"}
                     \/ /\ handler[h].pc \in {"others", "revert"}
                        /\ handler'[h].event = handler[h].event
                        /\ handler'[h].pc = "revert" => \A s \in Sub : local[s].status # "ACTIVE",
           ~raced' => \A s \in Sub : PlanDue(s)'
    PROVE  RaceInv'
<1> SUFFICES ASSUME ~raced'
             PROVE  /\ doubt' = {}
                    /\ \A g \in Handler :
                         /\ handler'[g].pc \in {"others", "revert"}
                               => local'[handler'[g].event.sub].status # "ACTIVE"
                         /\ handler'[g].pc = "revert"
                               => \A s \in Sub : local'[s].status # "ACTIVE"
  BY DEF RaceInv
<1>1. /\ doubt = {}
      /\ \A g \in Handler :
             /\ handler[g].pc \in {"others", "revert"}
                   => local[handler[g].event.sub].status # "ACTIVE"
             /\ handler[g].pc = "revert" => \A s \in Sub : local[s].status # "ACTIVE"
  BY DEF BillingInv, RaceInv
<1> QED
  BY <1>1

\* The types of what requests and deliveries change besides the row.
LEMMA HandlerTyped ==
    ASSUME BillingInv, UNCHANGED <<now, stripe, sessions, customers, customer, buyer, crossed>>,
           overlooked' \in BOOLEAN,
           local' \in [Sub -> [status : Status, end : End, at : 0..MaxNow]],
           plan' \in {"FREE_TRIAL", "PAID"}, trial' \in BOOLEAN,
           handler' \in [Handler -> HandlerTypes],
           pending' \subseteq pending, marked' \subseteq pending',
           begun' \in 0..MaxBegun, doubt' \subseteq Sub, raced' \in BOOLEAN
    PROVE  TypeOK'
  BY DEF BillingInv, TypeOK

LEMMA BillingRepeated ==
    ASSUME BillingInv, NEW h \in Handler, NEW e \in pending, Repeated(h, e)
    PROVE  BillingInv'
<1>0. TypeOK /\ e.sub \in Sub
  BY DEF BillingInv, TypeOK, EventTypes
<1>1. /\ pending' = pending \ {e} /\ marked' = marked \ {e} /\ begun' = begun
      /\ doubt' = doubt \cup {e.sub} /\ handler' = handler
      /\ UNCHANGED <<now, stripe, sessions, customers, local, plan, trial, customer, buyer,
                   overlooked, crossed>>
  BY DEF Repeated, Answered, Doubted, orgVars
<1>2. raced' /\ raced' \in BOOLEAN
  BY Zenon DEF Repeated, Doubted
<1>3. TypeOK'
  BY <1>0, <1>1, <1>2, HandlerTyped DEF TypeOK
<1>4. handler[h].pc = "idle"
  BY DEF Repeated
<1>5. EventInv'
  BY <1>0, <1>1, <1>4, HandlerEvents DEF TypeOK
<1>6. CurrentInv'
  BY <1>0, <1>1, CurrentKept
<1> QED
  BY <1>2, <1>3, <1>5, <1>6 DEF BillingInv, RaceInv

LEMMA BillingDeliver ==
    ASSUME BillingInv, NEW h \in Handler, NEW e \in pending, Deliver(h, e)
    PROVE  BillingInv'
<1>0. /\ TypeOK /\ e \in EventTypes /\ e.sub \in Sub /\ e.kind \in Kind /\ handler[h].pc = "idle"
      /\ UNCHANGED <<now, stripe, sessions, customers, local, plan, trial, customer, buyer,
                   overlooked, crossed>>
  BY DEF BillingInv, TypeOK, EventTypes, Deliver, orgVars
<1>1. CASE Dropped(e) /\ local[e.sub].status # "none"
  <2>1. /\ pending' = pending \ {e} /\ marked' = marked \ {e} /\ begun' = begun
        /\ doubt' = doubt \cup {e.sub} /\ handler' = handler
    BY <1>1 DEF Deliver, Answered, Doubted
  <2>2. raced' /\ raced' \in BOOLEAN
    <3>1. Doubted(e.sub)
      BY <1>1 DEF Deliver
    <3> QED
      BY <3>1, Zenon DEF Doubted
  <2>3. TypeOK'
    BY <1>0, <2>1, <2>2, HandlerTyped DEF TypeOK
  <2>4. EventInv'
    BY <1>0, <2>1, HandlerEvents DEF TypeOK
  <2>5. CurrentInv'
    BY <1>0, <2>1, CurrentKept
  <2> QED
    BY <2>2, <2>3, <2>4, <2>5 DEF BillingInv, RaceInv
<1>2. CASE Dropped(e) /\ local[e.sub].status = "none"
  <2>1. /\ pending' = pending \ {e} /\ marked' = marked \ {e} /\ begun' = begun
        /\ doubt' = doubt /\ handler' = handler /\ raced' = raced
        /\ e.kind \in {"paid", "failed"}
    BY <1>2 DEF Deliver, Answered, Undoubted, Dropped
  <2>2. raced' \in BOOLEAN
    BY <1>0, <2>1 DEF TypeOK
  <2>3. TypeOK'
    BY <1>0, <2>1, <2>2, HandlerTyped DEF TypeOK
  <2>4. EventInv'
    BY <1>0, <2>1, HandlerEvents DEF TypeOK
  <2>5. CurrentInv'
    BY <1>0, <2>1, CurrentKept
  <2>6. ~raced => \A s \in Sub : PlanDue(s)'
    BY <1>0, <2>1 DEF BillingInv, RaceInv, PlanDue, Entitled
  <2>7. RaceInv'
    BY <1>0, <2>1, <2>6, RaceKept
  <2> QED
    BY <2>3, <2>4, <2>5, <2>7 DEF BillingInv
<1>3. CASE ~Dropped(e)
  <2> DEFINE rec == [Free EXCEPT !.pc = IF e.kind = "deleted" THEN "write" ELSE "retrieve",
                                 !.event = e]
  <2>1. rec \in HandlerTypes /\ rec.pc \in {"write", "retrieve"} /\ rec.event = e
    BY <1>0, FreeTypes DEF HandlerTypes
  <2>2. /\ marked' = marked \cup {e} /\ handler' = [handler EXCEPT ![h] = rec]
        /\ UNCHANGED <<pending, begun, doubt, raced>>
    BY <1>3 DEF Deliver, Undoubted
  <2> HIDE DEF rec
  <2>3. /\ handler' \in [Handler -> HandlerTypes] /\ handler'[h] = rec
        /\ \A g \in Handler : g # h => handler'[g] = handler[g]
    BY <1>0, <2>1, <2>2 DEF TypeOK
  <2>4. TypeOK'
    BY <1>0, <2>2, <2>3, HandlerTyped DEF TypeOK
  <2>5. EventInv'
    BY <1>0, <2>1, <2>2, <2>3, HandlerEvents DEF TypeOK, Live
  <2>6. CurrentInv'
    BY <1>0, <2>1, <2>2, <2>3, CurrentKept DEF Past
  <2>7. ~raced => \A s \in Sub : PlanDue(s)'
    BY <1>0, <2>2 DEF BillingInv, RaceInv, PlanDue, Entitled
  <2>8. RaceInv'
    BY <1>0, <2>1, <2>2, <2>3, <2>7, RaceKept
  <2> QED
    BY <2>4, <2>5, <2>6, <2>8 DEF BillingInv
<1> QED
  BY <1>1, <1>2, <1>3

\* Retrieving the subscription, and a request that fails.
LEMMA BillingRetrieve ==
    ASSUME BillingInv, NEW h \in Handler, Retrieve(h) \/ HandlerFails(h)
    PROVE  BillingInv'
<1>0. /\ TypeOK /\ handler[h].pc # "idle"
      /\ UNCHANGED <<now, stripe, sessions, customers, local, plan, trial, customer, buyer,
                   overlooked, crossed>>
      /\ UNCHANGED <<pending, marked, doubt, raced>>
  BY DEF BillingInv, Retrieve, HandlerFails, orgVars, stripeVars
<1>1. /\ begun' \in 0..MaxBegun /\ begun <= begun'
  BY <1>0, BillingAssumption DEF Retrieve, HandlerFails, Count, TypeOK
<1>2. /\ handler[h].event \in Live /\ handler[h].event.sub \in Sub
      /\ handler[h] \in HandlerTypes /\ EventOf(h) = handler[h].event
  BY <1>0, HeldEvent
<1>3. /\ handler' \in [Handler -> HandlerTypes]
      /\ \A g \in Handler : g # h => handler'[g] = handler[g]
      /\ \/ handler'[h].pc = "idle"
         \/ handler'[h].pc = "write" /\ handler'[h].event = handler[h].event
  <2>1. CASE HandlerFails(h)
    BY <1>0, <2>1, FreeTypes DEF HandlerFails, TypeOK
  <2>2. CASE Retrieve(h)
    <3> DEFINE st == MapStripeStatus(stripe[EventOf(h).sub].status)
               en == stripe[EventOf(h).sub].end
               rec == [handler[h] EXCEPT !.pc = "write", !.status = st, !.end = en]
    <3>1. stripe[EventOf(h).sub].status \in StripeStatus /\ en \in End
      BY <1>0, <1>2 DEF TypeOK
    <3>2. st \in Status
      BY <3>1, StatusMap
    <3>3. handler' = [handler EXCEPT ![h] = rec]
      BY <1>0, <2>2 DEF Retrieve, TypeOK
    <3> HIDE DEF st, en
    <3>4. rec \in HandlerTypes /\ rec.pc = "write" /\ rec.event = handler[h].event
      BY <1>2, <3>1, <3>2 DEF HandlerTypes
    <3> HIDE DEF rec
    <3> QED
      BY <1>0, <3>3, <3>4 DEF TypeOK
  <2> QED
    BY <2>1, <2>2
<1>4. TypeOK'
  BY <1>0, <1>1, <1>3, HandlerTyped DEF TypeOK
<1>5. EventInv'
  BY <1>0, <1>1, <1>2, <1>3, HandlerEvents
<1>6. CurrentInv'
  BY <1>0, <1>3, CurrentKept DEF Past
<1>7. ~raced => \A s \in Sub : PlanDue(s)'
  BY <1>0 DEF BillingInv, RaceInv, PlanDue, Entitled
<1>8. RaceInv'
  BY <1>0, <1>3, <1>7, RaceKept
<1> QED
  BY <1>4, <1>5, <1>6, <1>8 DEF BillingInv

LEMMA BillingPlan ==
    ASSUME BillingInv, NEW h \in Handler, WritePlan(h)
    PROVE  BillingInv'
<1>0. /\ TypeOK /\ handler[h].pc = "plan" /\ Answer(h) /\ plan' = "PAID"
      /\ UNCHANGED <<now, stripe, sessions, customers, local, customer, buyer, crossed>>
      /\ UNCHANGED <<doubt, raced>>
  BY DEF BillingInv, WritePlan
<1>1. trial' \in BOOLEAN /\ overlooked' \in BOOLEAN
  BY Zenon DEF WritePlan
<1>2. /\ handler' \in [Handler -> HandlerTypes] /\ handler'[h].pc = "idle"
      /\ \A g \in Handler : g # h => handler'[g] = handler[g]
      /\ pending' \subseteq pending /\ marked' \subseteq pending'
      /\ \A e \in pending : e # handler[h].event => e \in pending'
      /\ begun' \in 0..MaxBegun /\ begun <= begun'
  BY <1>0, AnswerFacts
<1>3. TypeOK'
  BY <1>0, <1>1, <1>2, HandlerTyped DEF TypeOK
<1>4. EventInv'
  BY <1>0, <1>2, HandlerEvents
<1>5. CurrentInv'
  BY <1>0, <1>2, CurrentKept DEF Past, Unwritten
<1>6. \A s \in Sub : PlanDue(s)'
  BY <1>0 DEF PlanDue
<1>7. RaceInv'
  BY <1>0, <1>2, <1>6, RaceKept
<1> QED
  BY <1>3, <1>4, <1>5, <1>7 DEF BillingInv

LEMMA BillingOthers ==
    ASSUME BillingInv, NEW h \in Handler, FindOthers(h)
    PROVE  BillingInv'
<1>0. /\ TypeOK /\ handler[h].pc = "others"
      /\ UNCHANGED <<now, stripe, sessions, customers, local, plan, trial, customer, buyer,
                   overlooked, crossed>>
      /\ UNCHANGED <<doubt, raced>>
  BY DEF BillingInv, FindOthers, orgVars
<1>1. /\ handler[h].event \in Live /\ handler[h].event.kind = "deleted"
      /\ EventOf(h) = handler[h].event
  BY <1>0, HeldEvent DEF BillingInv, EventInv
<1>2. /\ handler' \in [Handler -> HandlerTypes]
      /\ \A g \in Handler : g # h => handler'[g] = handler[g]
      /\ pending' \subseteq pending /\ marked' \subseteq pending'
      /\ \A e \in pending : e # handler[h].event => e \in pending'
      /\ begun' \in 0..MaxBegun /\ begun <= begun'
      /\ \/ handler'[h].pc = "idle"
         \/ /\ handler'[h].pc = "revert" /\ handler'[h].event = handler[h].event
            /\ ~OtherActive(h)
  <2>1. CASE OtherActive(h)
    BY <2>1, AnswerFacts DEF FindOthers
  <2>2. CASE ~OtherActive(h)
    <3>1. Goto(h, "revert")
      BY <2>2 DEF FindOthers
    <3>2. begun \in 0..MaxBegun /\ begun <= begun
      BY <1>0, BillingAssumption DEF TypeOK
    <3> QED
      BY <1>0, <2>2, <3>1, <3>2, GotoFacts DEF TypeOK
  <2> QED
    BY <2>1, <2>2
<1>3. TypeOK'
  BY <1>0, <1>2, HandlerTyped DEF TypeOK
<1>4. EventInv'
  BY <1>0, <1>1, <1>2, HandlerEvents
<1>5. CurrentInv'
  BY <1>0, <1>2, CurrentKept DEF Past, Unwritten
<1>6. ~raced => \A s \in Sub : PlanDue(s)'
  BY <1>0, <1>1, <1>2 DEF BillingInv, RaceInv, PlanDue, Entitled
<1>7. ~raced /\ ~OtherActive(h) => \A s \in Sub : local[s].status # "ACTIVE"
  BY <1>0, <1>1 DEF BillingInv, RaceInv, OtherActive
<1>8. RaceInv'
  BY <1>0, <1>2, <1>6, <1>7, RaceKept
<1> QED
  BY <1>3, <1>4, <1>5, <1>8 DEF BillingInv

\* The plan is taken back: a subscription that is entitled nevertheless has an
\* event pending, for its row is neither ACTIVE nor, unless it is overlooked,
\* TRIALING yet.
LEMMA BillingRevert ==
    ASSUME BillingInv, NEW h \in Handler, Revert(h)
    PROVE  BillingInv'
<1>0. /\ TypeOK /\ handler[h].pc = "revert" /\ Answer(h) /\ plan' = "FREE_TRIAL"
      /\ UNCHANGED <<now, stripe, sessions, customers, local, customer, buyer, crossed>>
      /\ UNCHANGED <<doubt, raced>>
  BY DEF BillingInv, Revert
<1>1. trial' \in BOOLEAN /\ overlooked' \in BOOLEAN
  BY Zenon DEF Revert
<1>2. /\ handler' \in [Handler -> HandlerTypes] /\ handler'[h].pc = "idle"
      /\ \A g \in Handler : g # h => handler'[g] = handler[g]
      /\ pending' \subseteq pending /\ marked' \subseteq pending'
      /\ \A e \in pending : e # handler[h].event => e \in pending'
      /\ begun' \in 0..MaxBegun /\ begun <= begun'
  BY <1>0, AnswerFacts
<1>3. TypeOK'
  BY <1>0, <1>1, <1>2, HandlerTyped DEF TypeOK
<1>4. EventInv'
  BY <1>0, <1>2, HandlerEvents
<1>5. CurrentInv'
  BY <1>0, <1>2, CurrentKept DEF Past, Unwritten
<1>6. ASSUME ~raced, NEW s \in Sub PROVE PlanDue(s)'
  <2> SUFFICES ASSUME Entitled(s), ~overlooked'
               PROVE  \E e \in pending' : e.sub = s /\ e.kind \in {"updated", "checkout"}
    BY <1>0 DEF PlanDue, Entitled
  <2>1. doubt = {} /\ local[s].status # "ACTIVE"
    BY <1>0, <1>6 DEF BillingInv, RaceInv
  <2>2. MapStripeStatus(stripe[s].status) # local[s].status
    <3>1. MapStripeStatus(stripe[s].status) \in Usable
      BY <1>0, EntitledRow
    <3>2. overlooked' = \E z \in Sub : local[z].status = "TRIALING"
      BY DEF Revert
    <3>3. local[s].status # "TRIALING"
      BY <3>2, Zenon
    <3> QED
      BY <2>1, <3>1, <3>3 DEF Usable
  <2>3. Due(s, {"updated", "checkout", "deleted"})
    BY <2>1, <2>2 DEF BillingInv, CurrentInv, StatusInv
  <2>4. PICK e \in pending : e.sub = s /\ e.kind \in {"updated", "checkout", "deleted"}
    BY <2>3 DEF Due
  <2>5. e.kind # "deleted"
    BY <2>4 DEF BillingInv, EventInv, Live, Entitled
  <2>6. e # handler[h].event
    BY <1>0, <2>5 DEF BillingInv, EventInv
  <2> QED
    BY <1>2, <2>4, <2>5, <2>6
<1>7. RaceInv'
  BY <1>0, <1>2, <1>6, RaceKept
<1> QED
  BY <1>3, <1>4, <1>5, <1>7 DEF BillingInv

\* What a request writes unless it is out of date: what Stripe says, and of the
\* period nothing if the subscription was deleted.
LEMMA WrittenRow ==
    ASSUME BillingInv, NEW h \in Handler, handler[h].pc = "write"
    PROVE  LET s == handler[h].event.sub
               w == Written(h)
           IN  /\ w.status \in Status /\ w.end \in End
               /\ handler[h].event.kind = "deleted" => ~OutOfDate(h) /\ w.end = local[s].end
               /\ ~OutOfDate(h) => w.status = MapStripeStatus(stripe[s].status)
               /\ ~OutOfDate(h) /\ handler[h].event.kind # "deleted" => w.end = stripe[s].end
<1> DEFINE s == handler[h].event.sub
           k == handler[h].event.kind
           w == Written(h)
<1>0. /\ EventOf(h) = handler[h].event /\ s \in Sub /\ handler[h] \in HandlerTypes
      /\ k = "deleted" => stripe[s].status = "canceled"
  BY HeldEvent
<1>1. /\ handler[h].status \in Status /\ handler[h].end \in End /\ local[s].end \in End
  BY <1>0 DEF HandlerTypes, BillingInv, TypeOK
<1>2. /\ "ACTIVE" \in Status /\ "CANCELED" \in Status
      /\ MapStripeStatus("active") = "ACTIVE" /\ MapStripeStatus("canceled") = "CANCELED"
  BY DEF Status, MapStripeStatus
<1>3. CASE k = "paid"
  <2>1. w = [status |-> "ACTIVE", end |-> handler[h].end]
    BY <1>0, <1>3 DEF Written
  <2>2. ~OutOfDate(h) => Matches("ACTIVE", handler[h].end, s)
    BY <1>0, <1>3 DEF OutOfDate
  <2> QED
    BY <1>1, <1>2, <1>3, <2>1, <2>2 DEF Matches
<1>4. CASE k = "deleted"
  <2>1. w = [status |-> "CANCELED", end |-> local[s].end]
    BY <1>0, <1>4 DEF Written, Row
  <2>2. ~OutOfDate(h)
    BY <1>0, <1>4 DEF OutOfDate
  <2> QED
    BY <1>0, <1>1, <1>2, <1>4, <2>1, <2>2
<1>5. CASE k # "paid" /\ k # "deleted"
  <2>1. w = [status |-> handler[h].status, end |-> handler[h].end]
    BY <1>0, <1>5 DEF Written
  <2>2. ~OutOfDate(h) => Matches(handler[h].status, handler[h].end, s)
    BY <1>0, <1>5 DEF OutOfDate
  <2> QED
    BY <1>1, <1>5, <2>1, <2>2 DEF Matches
<1> QED
  BY <1>3, <1>4, <1>5

\* The row is written: with what Stripe says, or it is in doubt.
LEMMA BillingWrite ==
    ASSUME BillingInv, NEW h \in Handler, WriteRow(h)
    PROVE  BillingInv'
<1> DEFINE ev == handler[h].event
           s == ev.sub
           k == ev.kind
           w == Written(h)
           rec == [status |-> w.status, end |-> w.end, at |-> now]
           answers == k = "failed" \/ (k = "updated" /\ w.status \notin Usable)
<1>0. /\ TypeOK /\ handler[h].pc = "write"
      /\ UNCHANGED <<now, stripe, sessions, customers, plan, trial, customer, buyer,
                   overlooked, crossed>>
  BY DEF BillingInv, WriteRow
<1>1. /\ EventOf(h) = ev /\ s \in Sub /\ ev \in Live
      /\ k = "deleted" => stripe[s].status = "canceled"
  BY <1>0, HeldEvent
<1>2. /\ w.status \in Status /\ w.end \in End
      /\ k = "deleted" => ~OutOfDate(h) /\ w.end = local[s].end
      /\ ~OutOfDate(h) => w.status = MapStripeStatus(stripe[s].status)
      /\ ~OutOfDate(h) /\ k # "deleted" => w.end = stripe[s].end
  BY <1>0, WrittenRow
<1>3. /\ local' = [local EXCEPT ![s] = rec]
      /\ IF OutOfDate(h) THEN Doubted(s)
         ELSE /\ doubt' = IF Matches(w.status, w.end, s) THEN doubt \ {s} ELSE doubt
              /\ raced' = (raced \/ Races(w.status))
      /\ IF answers THEN Answer(h) ELSE Goto(h, IF k = "deleted" THEN "others" ELSE "plan")
  BY <1>1 DEF WriteRow
<1>4. rec.status = w.status /\ rec.end = w.end /\ rec \in [status : Status, end : End, at : 0..MaxNow]
  BY <1>0, <1>2 DEF TypeOK
<1> HIDE DEF w, rec
<1>5. /\ local' \in [Sub -> [status : Status, end : End, at : 0..MaxNow]] /\ local'[s] = rec
      /\ \A z \in Sub : z # s => local'[z] = local[z]
  BY <1>0, <1>1, <1>3, <1>4 DEF TypeOK
<1>6. /\ handler' \in [Handler -> HandlerTypes]
      /\ \A g \in Handler : g # h => handler'[g] = handler[g]
      /\ pending' \subseteq pending /\ marked' \subseteq pending'
      /\ \A e \in pending : e # ev => e \in pending'
      /\ begun' \in 0..MaxBegun /\ begun <= begun'
      /\ \/ handler'[h].pc = "idle" /\ answers
         \/ /\ handler'[h].event = ev /\ pending' = pending
            /\ handler'[h].pc = IF k = "deleted" THEN "others" ELSE "plan"
  <2>1. CASE answers
    BY <1>3, <2>1, AnswerFacts
  <2>2. CASE ~answers
    <3>1. PICK pc \in {"plan", "others"} :
             pc = (IF k = "deleted" THEN "others" ELSE "plan") /\ Goto(h, pc)
      BY <1>3, <2>2
    <3>2. begun \in 0..MaxBegun /\ begun <= begun
      BY <1>0, BillingAssumption DEF TypeOK
    <3> QED
      BY <1>0, <3>1, <3>2, GotoFacts DEF TypeOK
  <2> QED
    BY <2>1, <2>2
<1>7. /\ doubt' \subseteq Sub /\ raced' \in BOOLEAN
      /\ OutOfDate(h) => s \in doubt' /\ raced'
      /\ ~raced' => ~raced /\ ~OutOfDate(h) /\ ~Races(w.status)
      /\ doubt \ {s} \subseteq doubt'
      /\ ~OutOfDate(h) => doubt' \subseteq doubt /\ (s \in doubt /\ s \notin doubt' => Matches(w.status, w.end, s))
  <2>1. CASE OutOfDate(h)
    <3>1. Doubted(s)
      BY <1>3, <2>1
    <3>2. raced' = TRUE
      BY <3>1 DEF Doubted
    <3>3. raced' \in BOOLEAN /\ raced'
      BY <3>2, Zenon
    <3>4. doubt' = doubt \cup {s}
      BY <3>1 DEF Doubted
    <3> QED
      BY <1>0, <1>1, <2>1, <3>3, <3>4 DEF TypeOK
  <2>2. CASE ~OutOfDate(h)
    <3>1. raced' = (raced \/ Races(w.status))
      BY <1>3, <2>2, Zenon
    <3>2. raced' \in BOOLEAN /\ (~raced' => ~raced /\ ~Races(w.status))
      BY <3>1, Zenon
    <3>3. doubt' = IF Matches(w.status, w.end, s) THEN doubt \ {s} ELSE doubt
      BY <1>3, <2>2
    <3> QED
      BY <1>0, <2>2, <3>2, <3>3 DEF TypeOK
  <2> QED
    BY <2>1, <2>2
<1>8. TypeOK'
  BY <1>0, <1>5, <1>6, <1>7, HandlerTyped DEF TypeOK
<1>9. EventInv'
  <2>1. handler'[h].pc \in {"others", "revert"} => k = "deleted"
    BY <1>6
  <2> QED
    BY <1>0, <1>1, <1>6, <2>1, HandlerEvents
<1>10. \A e \in pending : Unwritten(e) /\ e # ev => e \in pending' /\ Unwritten(e)'
  BY <1>6 DEF Unwritten, Past
<1>11. CurrentInv'
  <2> SUFFICES ASSUME NEW z \in Sub, z \notin doubt' PROVE StatusInv(z)' /\ EndInv(z)'
    BY DEF CurrentInv, StatusInv, EndInv
  <2>0. StatusInv(z) /\ EndInv(z)
    BY DEF BillingInv, CurrentInv
  <2>1. ASSUME NEW K, z # s \/ k \notin K, Due(z, K) PROVE Due(z, K)'
    BY <1>10, <2>1 DEF Due
  <2>2. CASE z # s
    <3>1. z \notin doubt /\ local'[z] = local[z] /\ stripe' = stripe
      BY <1>0, <1>5, <1>7, <2>2
    <3> QED
      BY <2>0, <2>1, <2>2, <3>1 DEF StatusInv, EndInv
  <2>3. CASE z = s
    <3>1. ~OutOfDate(h) /\ (s \in doubt => Matches(w.status, w.end, s))
      BY <1>7, <2>3
    <3>2. StatusInv(z)'
      BY <1>0, <1>2, <1>4, <1>5, <2>3, <3>1 DEF StatusInv
    <3>3. CASE k # "deleted"
      BY <1>0, <1>2, <1>4, <1>5, <2>3, <3>1, <3>2, <3>3 DEF EndInv
    <3>4. CASE k = "deleted" /\ s \in doubt
      BY <1>0, <1>4, <1>5, <2>3, <3>1, <3>2, <3>4 DEF EndInv, Matches
    <3>5. CASE k = "deleted" /\ s \notin doubt
      <4>1. local'[s].end = local[s].end
        BY <1>2, <1>4, <1>5, <3>5
      <4>2. k \notin {"updated", "checkout"}
        BY <3>5
      <4> QED
        BY <1>0, <2>0, <2>1, <2>3, <3>2, <3>5, <4>1, <4>2 DEF EndInv
    <3> QED
      BY <3>3, <3>4, <3>5
  <2> QED
    BY <2>2, <2>3
<1>12. RaceInv'
  <2> SUFFICES ASSUME ~raced'
               PROVE  /\ doubt' = {}
                      /\ \A g \in Handler :
                           /\ handler'[g].pc \in {"others", "revert"}
                                 => local'[handler'[g].event.sub].status # "ACTIVE"
                           /\ handler'[g].pc = "revert"
                                 => \A z \in Sub : local'[z].status # "ACTIVE"
                      /\ \A z \in Sub : PlanDue(z)'
    BY DEF RaceInv
  <2>1. ~raced /\ ~OutOfDate(h) /\ ~Races(w.status)
    BY <1>7
  <2>2. /\ doubt = {}
        /\ \A g \in Handler :
             /\ handler[g].pc \in {"others", "revert"}
                   => local[handler[g].event.sub].status # "ACTIVE"
             /\ handler[g].pc = "revert" => \A z \in Sub : local[z].status # "ACTIVE"
        /\ \A z \in Sub : PlanDue(z)
    BY <2>1 DEF BillingInv, RaceInv
  <2>3. doubt' = {}
    BY <1>7, <2>1, <2>2
  <2>4. w.status = MapStripeStatus(stripe[s].status) /\ local'[s].status = w.status
    BY <1>2, <1>4, <1>5, <2>1
  <2>5. /\ stripe[s].status = "canceled" => w.status # "ACTIVE"
        /\ Entitled(s) => w.status \in Usable
    BY <1>0, <1>1, <2>4, StatusMap, EntitledRow
  <2>6. ASSUME NEW g \in Handler, handler'[g].pc \in {"others", "revert"}
        PROVE  local'[handler'[g].event.sub].status # "ACTIVE"
    <3>1. CASE g = h
      BY <1>1, <1>6, <2>4, <2>5, <2>6, <3>1
    <3>2. CASE g # h
      <4>1. handler'[g] = handler[g] /\ handler[g].event.kind = "deleted"
        BY <1>6, <2>6, <3>2 DEF BillingInv, EventInv
      <4>2. handler[g].event.sub \in Sub /\ stripe[handler[g].event.sub].status = "canceled"
        BY <2>6, <4>1, HeldEvent
      <4> QED
        BY <1>5, <2>2, <2>4, <2>5, <2>6, <4>1, <4>2
    <3> QED
      BY <3>1, <3>2
  <2>7. ASSUME NEW g \in Handler, handler'[g].pc = "revert", NEW z \in Sub
        PROVE  local'[z].status # "ACTIVE"
    <3>1. g # h
      BY <1>6, <2>7
    <3>2. handler[g].pc = "revert"
      BY <1>6, <2>7, <3>1
    <3>3. w.status # "ACTIVE"
      BY <2>1, <3>2 DEF Races
    <3> QED
      BY <1>5, <2>2, <2>4, <3>2, <3>3
  <2>8. ASSUME NEW z \in Sub PROVE PlanDue(z)'
    <3> SUFFICES ASSUME plan = "FREE_TRIAL", ~overlooked, Entitled(z)
                 PROVE  \E e \in pending' : e.sub = z /\ e.kind \in {"updated", "checkout"}
      BY <1>0 DEF PlanDue, Entitled
    <3>1. PICK e \in pending : e.sub = z /\ e.kind \in {"updated", "checkout"}
      BY <2>2 DEF PlanDue
    <3>2. e \in pending'
      <4> SUFFICES ASSUME e = ev, answers PROVE FALSE
        BY <1>6
      <4> QED
        BY <2>5, <3>1
    <3> QED
      BY <3>1, <3>2
  <2> QED
    BY <2>3, <2>6, <2>7, <2>8
<1> QED
  BY <1>8, <1>9, <1>11, <1>12 DEF BillingInv

\* Steps outside the webhook and outside Stripe.
LEMMA BillingApart ==
    ASSUME BillingInv,
           UNCHANGED <<stripe, pending, local, plan, handler, doubt, raced, overlooked>>,
           now' \in 0..MaxNow, trial' \in BOOLEAN, customer' \in Nat, customers' \in Nat,
           sessions' \subseteq Nat, marked' \subseteq marked, buyer' \in [Buyer -> BuyerTypes],
           crossed' \in BOOLEAN, UNCHANGED begun \/ Count
    PROVE  BillingInv'
<1>1. begun \in 0..MaxBegun /\ TypeOK
  BY DEF BillingInv, TypeOK
<1>2. begun' \in 0..MaxBegun /\ begun <= begun'
  BY <1>1, BillingAssumption DEF Count
<1>3. TypeOK'
  BY <1>1, <1>2 DEF TypeOK
<1> QED
  BY <1>2, <1>3, BillingSame

LEMMA BillingBuyer ==
    ASSUME BillingInv, NEW b \in Buyer, BuyerStep(b)
    PROVE  BillingInv'
<1>0. /\ now \in 0..MaxNow /\ trial \in BOOLEAN /\ customer \in Nat /\ customers \in Nat
      /\ sessions \subseteq Nat /\ buyer \in [Buyer -> BuyerTypes] /\ crossed \in BOOLEAN
      /\ buyer[b] \in BuyerTypes /\ buyer[b].customer \in Nat
  BY DEF BillingInv, TypeOK, BuyerTypes
<1>1. CASE Checkout(b)
  <2>1. crossed' \in BOOLEAN
    BY <1>1, Zenon DEF Checkout
  <2>2. buyer' \in [Buyer -> BuyerTypes]
    BY <1>0, <1>1 DEF Checkout, BuyerTypes
  <2> QED
    BY <1>0, <1>1, <2>1, <2>2, BillingApart DEF Checkout, stripeVars, orgVars
<1>2. CASE CreateCustomer(b)
  <2>1. customers' \in Nat
    BY <1>0, <1>2 DEF CreateCustomer
  <2>2. buyer' \in [Buyer -> BuyerTypes]
    BY <1>0, <1>2 DEF CreateCustomer, BuyerTypes
  <2> QED
    BY <1>0, <1>2, <2>1, <2>2, BillingApart DEF CreateCustomer, orgVars
<1>3. CASE SaveCustomer(b)
  <2>1. customer' \in Nat
    BY <1>0, <1>3 DEF SaveCustomer, SavedCustomer
  <2>2. buyer' \in [Buyer -> BuyerTypes]
    BY <1>0, <1>3 DEF SaveCustomer, BuyerTypes
  <2> QED
    BY <1>0, <1>3, <2>1, <2>2, BillingApart DEF SaveCustomer, stripeVars
<1>4. CASE OpenSession(b)
  <2>1. sessions' \subseteq Nat
    BY <1>0, <1>4 DEF OpenSession
  <2>2. buyer' \in [Buyer -> BuyerTypes]
    BY <1>0, <1>4 DEF OpenSession, BuyerTypes, Away
  <2> QED
    BY <1>0, <1>4, <2>1, <2>2, BillingApart DEF OpenSession, orgVars
<1> QED
  BY <1>1, <1>2, <1>3, <1>4 DEF BuyerStep

LEMMA BillingKept ==
    ASSUME BillingInv, [Next]_vars
    PROVE  BillingInv'
<1>0. /\ now \in 0..MaxNow /\ trial \in BOOLEAN /\ customer \in Nat /\ customers \in Nat
      /\ sessions \subseteq Nat /\ buyer \in [Buyer -> BuyerTypes] /\ crossed \in BOOLEAN
  BY DEF BillingInv, TypeOK
<1>1. CASE Tick
  <2>1. now' \in 0..MaxNow
    BY <1>0, <1>1, BillingAssumption DEF Tick
  <2> QED
    BY <1>0, <1>1, <2>1, BillingApart DEF Tick, stripeVars, orgVars
<1>2. CASE TrialEnds
  <2>1. trial' \in BOOLEAN
    BY <1>2, Zenon DEF TrialEnds
  <2> QED
    BY <1>0, <1>2, <2>1, BillingApart DEF TrialEnds, stripeVars
<1>3. ASSUME NEW s \in Sub, \/ PaymentFails(s) \/ Pays(s) \/ Cancels(s)
                            \/ \E status \in Turn : Turns(s, status)
                            \/ \E c \in sessions : Subscribe(s, c)
      PROVE  BillingInv'
  BY <1>3, BillingAtStripe
<1>4. ASSUME NEW h \in Handler, HandlerStep(h)
      PROVE  BillingInv'
  BY <1>4, BillingRetrieve, BillingWrite, BillingPlan, BillingOthers, BillingRevert
     DEF HandlerStep
<1>5. ASSUME NEW h \in Handler, NEW e \in pending, Deliver(h, e) \/ Repeated(h, e)
      PROVE  BillingInv'
  BY <1>5, BillingDeliver, BillingRepeated
<1>6. ASSUME NEW e \in marked, Expire(e)
      PROVE  BillingInv'
  BY <1>0, <1>6, BillingApart DEF Expire, stripeVars, orgVars
<1>7. ASSUME NEW b \in Buyer, BuyerStep(b)
      PROVE  BillingInv'
  BY <1>7, BillingBuyer
<1>8. ASSUME Unbilled, UNCHANGED begun \/ Count
      PROVE  BillingInv'
  BY <1>0, <1>8, BillingApart DEF Unbilled, stripeVars, orgVars
<1>9. CASE LateTranscript
  BY <1>8, <1>9 DEF LateTranscript
<1>10. ASSUME NEW r \in Reporter, ReportStep(r)
       PROVE  BillingInv'
  BY <1>8, <1>10 DEF ReportStep, Aggregate, FindRecord, CreateRecord, UpdateRecord,
                     SendUsage, MarkReported, ReporterFails
<1>11. CASE UNCHANGED vars
  BY <1>8, <1>11 DEF vars, billingVars, Unbilled
<1> QED
  BY <1>1, <1>2, <1>3, <1>4, <1>5, <1>6, <1>7, <1>9, <1>10, <1>11
     DEF Next, BillingNext

LEMMA BillingInvHolds == Spec => []BillingInv
  BY BillingInit, BillingKept, PTL DEF Spec

(***************************************************************************)
(* Types of everything billing and its usage report keep: the rows, what   *)
(* Stripe holds, the events, the requests and the runs.                    *)
(***************************************************************************)
THEOREM ReportTypes == Spec => []ReportTypeOK
<1>1. BillingInv /\ BilledInv => ReportTypeOK
  BY DEF BillingInv, BilledInv, RunTypes, RecordTypes, ReportTypeOK
<1>2. Spec => []BilledInv
  BY BilledInit, BilledNext, PTL DEF Spec
<1> QED
  BY <1>1, <1>2, BillingInvHolds, PTL

\* Nothing is due when every event is answered.
LEMMA QuietRows ==
    ASSUME BillingInv, Quiet, NEW s \in Sub \ doubt
    PROVE  Matches(local[s].status, local[s].end, s)
<1>1. \A K : ~Due(s, K)
  BY DEF Quiet, Due
<1> QED
  BY <1>1 DEF BillingInv, CurrentInv, StatusInv, EndInv, Matches

(***************************************************************************)
(* createStripeWebhookHandler: once every event is answered, a row that is *)
(* not in doubt says what Stripe says, for any number of subscriptions and *)
(* of requests at once, in whatever order and however often events come.   *)
(***************************************************************************)
THEOREM RowsAreCurrent == Spec => []RowIsCurrent
<1>1. BillingInv => RowIsCurrent
  BY QuietRows DEF RowIsCurrent
<1> QED
  BY <1>1, BillingInvHolds, PTL

(***************************************************************************)
(* createTrialGate: once every event is answered, the gate is open only    *)
(* for an organisation in its trial or with an entitled subscription, and  *)
(* open for one whose latest subscription is entitled, unless a deletion   *)
(* raced with one that became active or overlooked one in its trial.       *)
(***************************************************************************)
THEOREM GateIsRight == Spec => []GateFollowsStripe
<1>1. ASSUME BillingInv PROVE NoFreeRide
  <2> SUFFICES ASSUME Quiet, doubt = {}, GateOpen, ~trial
               PROVE  \E s \in Sub : Entitled(s)
    BY DEF NoFreeRide
  <2>1. PICK s \in Sub : local[s].status \in Usable
    BY DEF GateOpen, Latest, Usable
  <2>2. MapStripeStatus(stripe[s].status) \in Usable
    BY <1>1, <2>1, QuietRows DEF Matches
  <2> QED
    BY <1>1, <2>2, EntitledRow DEF BillingInv
<1>2. ASSUME BillingInv PROVE NoLockout
  <2> SUFFICES ASSUME Quiet, ~raced, ~overlooked, NEW s \in Sub, Entitled(s),
                      \A t \in Sub \ {s} : stripe[t].status = "none"
                                           \/ stripe[t].end < stripe[s].end
               PROVE  GateOpen
    BY DEF NoLockout
  <2>1. doubt = {} /\ PlanDue(s)
    BY <1>2 DEF BillingInv, RaceInv
  <2>2. plan # "FREE_TRIAL"
    BY <2>1 DEF PlanDue, Quiet
  <2>3. \A t \in Sub : /\ local[t].status = MapStripeStatus(stripe[t].status)
                       /\ local[t].end = stripe[t].end
    BY <1>2, <2>1, QuietRows DEF Matches
  <2>4. \A t \in Sub : stripe[t].status \in StripeStatus /\ stripe[t].end \in Int
    BY <1>2, BillingAssumption DEF BillingInv, TypeOK, End
  <2>5. local[s].status \in Usable
    BY <1>2, <2>3, EntitledRow DEF BillingInv
  <2>6. \A t \in Sub : local[t].status # "none" => local[t].end <= local[s].end
    BY <2>3, <2>4, StatusMap
  <2>7. s \in Latest
    BY <2>5, <2>6 DEF Latest, Usable
  <2> QED
    BY <2>2, <2>5, <2>7 DEF GateOpen
<1>3. BillingInv => GateFollowsStripe
  BY <1>1, <1>2 DEF GateFollowsStripe
<1> QED
  BY <1>3, BillingInvHolds, PTL
=============================================================================
