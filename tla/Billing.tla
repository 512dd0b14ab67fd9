------------------------------ MODULE Billing ------------------------------
(***************************************************************************)
(* The Stripe side of one organisation: checkout, the subscription rows    *)
(* and the plan that the webhook handler keeps, and the gate that reads    *)
(* them.  Stripe delivers events at least once and in any order, one       *)
(* request may overtake another between two awaits, and any await may      *)
(* fail.  A failed request is answered 500 and Stripe sends it again.      *)
(*                                                                         *)
(* src/middleware/billing.ts         gate, checkout, webhook handler       *)
(* src/lib/webhook-idempotency.ts    markWebhookEventIfNew                 *)
(***************************************************************************)
EXTENDS Integers, FiniteSets

CONSTANTS
    Sub,        \* Stripe subscriptions of the organisation
    Handler,    \* webhook requests that may be in progress at once
    Buyer,      \* checkout requests that may be in progress at once
    Skew,       \* staleSkewMs, in ticks
    Period,     \* length of a billing period, in ticks
    Turn,       \* statuses a subscription turns to with no invoice
    MaxNow,     \* bound: ticks of the clock
    MaxPending, \* bound: events of Stripe not yet answered
    MaxBegun    \* bound: changes at Stripe, failures, repeats, requests

VARIABLES
    now,        \* the clock
    stripe,     \* external: what Stripe holds of each subscription
    pending,    \* external: events of Stripe no request has answered with 200
    local,      \* the Subscription rows
    plan,       \* Organization.plan
    trial,      \* Organization.trialEndsAt is in the future
    customer,   \* Organization.stripeCustomerId, 0 for null
    customers,  \* external: customers created at Stripe
    sessions,   \* external: customers of the open checkout sessions
    marked,     \* idempotency keys in Redis
    handler,    \* what each webhook request is doing
    buyer,      \* what each checkout request is doing
    begun,
    doubt,      \* history: rows whose last write, or an event, went wrong
    raced,      \* history: a row was ever in doubt, or became active when
                \* a deletion was about to take the plan back
    overlooked, \* history: the plan was last taken back beside a row in its
                \* trial
    crossed     \* history: a checkout began while another had no customer

stripeVars == <<stripe, pending, sessions, customers>>
orgVars == <<local, plan, trial, customer>>
billingVars == <<now, stripeVars, orgVars, marked, handler, buyer, begun,
                 doubt, raced, overlooked, crossed>>

Kind == {"checkout", "paid", "failed", "updated", "deleted"}
Status == {"none", "ACTIVE", "TRIALING", "PAST_DUE", "CANCELED"}

\* "unknown" stands for every status the code has no name for.
StripeStatus ==
    {"none", "active", "trialing", "past_due", "unpaid", "incomplete",
     "paused", "canceled", "incomplete_expired", "unknown"}
ASSUME BillingAssumption ==
    /\ IsFiniteSet(Buyer)
    /\ Skew \in Nat
    /\ Period \in Nat
    /\ Turn \subseteq StripeStatus \ {"none", "canceled"}
    /\ MaxNow \in Nat
    /\ MaxPending \in Nat
    /\ MaxBegun \in Nat

End == 0..(MaxNow + Period)

Id == 0..(2 * MaxBegun)     \* a change makes at most two events
EventTypes == [kind : Kind, sub : Sub, at : 0..MaxNow, id : Id]
NoEvent == [kind |-> "none"]
HandlerTypes ==
    [pc : {"idle", "retrieve", "write", "plan", "others", "revert"},
     event : EventTypes \cup {NoEvent}, status : Status, end : End]
BuyerTypes == [pc : {"idle", "create", "save", "session"}, customer : Nat]

(***************************************************************************)
(* Types of the rows, of Stripe's objects and of the requests.             *)
(***************************************************************************)
TypeOK ==
    /\ now \in 0..MaxNow
    /\ stripe \in [Sub -> [status : StripeStatus, end : End, customer : Nat]]
    /\ pending \subseteq EventTypes
    /\ local \in [Sub -> [status : Status, end : End, at : 0..MaxNow]]
    /\ plan \in {"FREE_TRIAL", "PAID"}
    /\ trial \in BOOLEAN
    /\ customer \in Nat /\ customers \in Nat
    /\ sessions \subseteq Nat
    /\ marked \subseteq pending
    /\ handler \in [Handler -> HandlerTypes]
    /\ buyer \in [Buyer -> BuyerTypes]
    /\ begun \in 0..MaxBegun
    /\ doubt \subseteq Sub
    /\ raced \in BOOLEAN /\ overlooked \in BOOLEAN /\ crossed \in BOOLEAN

Free == [pc |-> "idle", event |-> NoEvent, status |-> "none", end |-> 0]
Away == [pc |-> "idle", customer |-> 0]

\* The organisation may hold some subscriptions already, on one customer.
Init ==
    /\ now = 0
    /\ \E held \in SUBSET Sub :
         /\ stripe = [s \in Sub |->
              IF s \in held
              THEN [status |-> "active", end |-> Period, customer |-> 1]
              ELSE [status |-> "none", end |-> 0, customer |-> 0]]
         /\ local = [s \in Sub |->
              IF s \in held
              THEN [status |-> "ACTIVE", end |-> Period, at |-> 0]
              ELSE [status |-> "none", end |-> 0, at |-> 0]]
         /\ plan = IF held = {} THEN "FREE_TRIAL" ELSE "PAID"
         /\ trial = (held = {})
         /\ customer = IF held = {} THEN 0 ELSE 1
         /\ customers = IF held = {} THEN 0 ELSE 1
    /\ pending = {} /\ sessions = {} /\ marked = {}
    /\ handler = [h \in Handler |-> Free]
    /\ buyer = [b \in Buyer |-> Away]
    /\ begun = 0
    /\ doubt = {} /\ raced = FALSE /\ overlooked = FALSE /\ crossed = FALSE

Count == begun < MaxBegun /\ begun' = begun + 1

-----------------------------------------------------------------------------
(***************************************************************************)
(* Stripe (external): a change creates its events, due for delivery.       *)
(***************************************************************************)
Tick ==
    /\ now < MaxNow /\ now' = now + 1
    /\ UNCHANGED <<stripeVars, orgVars, marked, handler, buyer, begun,
                   doubt, raced, overlooked, crossed>>

\* Events alike are told apart by an id no other has.
Fresh(s) ==
    CHOOSE i \in Id :
        /\ \A e \in pending : e.sub = s => e.id # i
        /\ \A h \in Handler :
             handler[h].pc # "idle" /\ handler[h].event.sub = s
                => handler[h].event.id # i

Emit(s, kinds) ==
    /\ Cardinality(pending) + Cardinality(kinds) <= MaxPending
    /\ pending' = pending \cup
         {[kind |-> k, sub |-> s, at |-> now, id |-> Fresh(s)] : k \in kinds}

AtStripe(s, status, end, kinds) ==
    /\ Count
    /\ stripe' = [stripe EXCEPT ![s].status = status, ![s].end = end]
    /\ Emit(s, kinds)
    /\ UNCHANGED <<now, sessions, customers, orgVars, marked, handler, buyer,
                   doubt, raced, overlooked, crossed>>

\* The customer completes a checkout session.
Subscribe(s, c) ==
    /\ stripe[s].status = "none" /\ c \in sessions /\ Count
    /\ stripe' = [stripe EXCEPT ![s] = [status |-> "active",
                                        end |-> now + Period, customer |-> c]]
    /\ sessions' = sessions \ {c}
    /\ Emit(s, {"checkout"})
    /\ UNCHANGED <<now, customers, orgVars, marked, handler, buyer, doubt,
                   raced, overlooked, crossed>>

Open(s) == stripe[s].status \notin {"none", "canceled"}

PaymentFails(s) ==
    /\ stripe[s].status \in {"active", "trialing"}
    /\ AtStripe(s, "past_due", stripe[s].end, {"failed", "updated"})

\* A late payment, the first after a trial, or a renewal.
Pays(s) ==
    /\ Open(s)
    /\ AtStripe(s, "active", now + Period, {"paid", "updated"})

\* A trial is granted, collection is paused, an unpaid invoice is given up.
Turns(s, status) ==
    /\ Open(s) /\ stripe[s].status # status
    /\ AtStripe(s, status, stripe[s].end, {"updated"})

Cancels(s) ==
    /\ Open(s)
    /\ AtStripe(s, "canceled", stripe[s].end, {"deleted"})

-----------------------------------------------------------------------------
(***************************************************************************)
(* Checkout: the customer is read, created if there is none, and saved,    *)
(* one await after another.  A request that fails goes no further.         *)
(***************************************************************************)
Checkout(b) ==
    /\ buyer[b].pc = "idle" /\ Count
    /\ buyer' = [buyer EXCEPT ![b] =
                   [pc |-> IF customer = 0 THEN "create" ELSE "session",
                    customer |-> customer]]
    /\ crossed' = (\/ crossed
                   \/ /\ customer = 0
                      /\ \E d \in Buyer : buyer[d].pc \in {"create", "save"})
    /\ UNCHANGED <<now, stripeVars, orgVars, marked, handler, doubt, raced,
                   overlooked>>

CreateCustomer(b) ==
    /\ buyer[b].pc = "create"
    /\ customers' = customers + 1
    /\ buyer' = [buyer EXCEPT ![b] =
                   [pc |-> "save", customer |-> customers + 1]]
    /\ UNCHANGED <<now, stripe, pending, sessions, orgVars, marked,
                   handler, begun, doubt, raced, overlooked, crossed>>

\* Fault: the request goes on with its customer and does not save it.
CustomerUnsaved(b) == customer

SavedCustomer(b) == buyer[b].customer

SaveCustomer(b) ==
    /\ buyer[b].pc = "save"
    /\ customer' = SavedCustomer(b)
    /\ buyer' = [buyer EXCEPT ![b].pc = "session"]
    /\ UNCHANGED <<now, stripeVars, local, plan, trial, marked, handler,
                   begun, doubt, raced, overlooked, crossed>>

OpenSession(b) ==
    /\ buyer[b].pc = "session"
    /\ sessions' = sessions \cup {buyer[b].customer}
    /\ buyer' = [buyer EXCEPT ![b] = Away]
    /\ UNCHANGED <<now, stripe, pending, customers, orgVars, marked,
                   handler, begun, doubt, raced, overlooked, crossed>>

-----------------------------------------------------------------------------
(***************************************************************************)
(* The webhook handler.                                                    *)
(***************************************************************************)
EventOf(h) == handler[h].event
Row(h) == local[EventOf(h).sub]

\* Fault: a status goes into the row as Stripe spells it.
StripeSpelling(status) == status

\* A status the map does not list counts as ACTIVE; "none" is no
\* subscription, and no row.
MapStripeStatus(status) ==
    CASE status = "none" -> "none"
      [] status = "trialing" -> "TRIALING"
      [] status \in {"past_due", "unpaid", "incomplete"} -> "PAST_DUE"
      [] status \in {"canceled", "incomplete_expired", "paused"} -> "CANCELED"
      [] OTHER -> "ACTIVE"

\* The statuses the gate and an update of the plan accept.
Usable == {"ACTIVE", "TRIALING"}

\* The row says what Stripe says.
Matches(status, end, s) ==
    status = MapStripeStatus(stripe[s].status) /\ end = stripe[s].end

\* Something went wrong with the row of s.
Doubted(s) == doubt' = doubt \cup {s} /\ raced' = TRUE
Undoubted == UNCHANGED <<doubt, raced>>

IsStale(e) == local[e.sub].at - Skew > e.at

\* Events answered at once: an invoice of no row, and a failed payment, an
\* update or a deletion older than the row.
Dropped(e) ==
    IF local[e.sub].status = "none" THEN e.kind \in {"paid", "failed"}
    ELSE e.kind \in {"failed", "updated", "deleted"} /\ IsStale(e)

Answered(e) ==
    /\ pending' = pending \ {e}
    /\ marked' = marked \ {e}
    /\ UNCHANGED begun

\* The answer 200, after which Stripe is done with the event, unless the
\* answer is lost.  The key of an event Stripe is done with is forgotten: it
\* would be read by nobody.
Answer(h) ==
    /\ handler' = [handler EXCEPT ![h] = Free]
    /\ \/ Answered(EventOf(h))
       \/ Count /\ UNCHANGED <<pending, marked>>

Goto(h, pc) ==
    /\ handler' = [handler EXCEPT ![h].pc = pc, ![h].status = "none",
                                  ![h].end = 0]
    /\ UNCHANGED <<pending, marked, begun>>

IsNew(e) == e \notin marked

\* Stripe sends a pending event, for the first time or again.  A key that is
\* not new is answered 200, which loses the event if the request that took
\* the key has failed or will fail.
Repeated(h, e) ==
    /\ handler[h].pc = "idle" /\ ~IsNew(e)
    /\ Answered(e) /\ Doubted(e.sub)
    /\ UNCHANGED <<now, stripe, sessions, customers, orgVars, handler, buyer,
                   overlooked, crossed>>

\* The key is new and the row is read.
Deliver(h, e) ==
    /\ handler[h].pc = "idle" /\ IsNew(e)
    /\ IF Dropped(e)
       THEN /\ Answered(e)
            /\ IF local[e.sub].status = "none" THEN Undoubted
               ELSE Doubted(e.sub)
            /\ UNCHANGED handler
       ELSE /\ marked' = marked \cup {e}
            /\ handler' = [handler EXCEPT ![h] = [Free EXCEPT
                  !.pc = IF e.kind = "deleted" THEN "write" ELSE "retrieve",
                  !.event = e]]
            /\ Undoubted /\ UNCHANGED <<pending, begun>>
    /\ UNCHANGED <<now, stripe, sessions, customers, orgVars, buyer,
                   overlooked, crossed>>

\* The key expires.
Expire(e) ==
    /\ e \in marked /\ Count
    /\ marked' = marked \ {e}
    /\ UNCHANGED <<now, stripeVars, orgVars, handler, buyer, doubt, raced,
                   overlooked, crossed>>

Retrieve(h) ==
    /\ handler[h].pc = "retrieve"
    /\ handler' = [handler EXCEPT ![h].pc = "write",
           ![h].status = MapStripeStatus(stripe[EventOf(h).sub].status),
           ![h].end = stripe[EventOf(h).sub].end]
    /\ UNCHANGED <<now, stripeVars, orgVars, marked, buyer, begun, doubt,
                   raced, overlooked, crossed>>

\* Fault: a failed payment makes the row PAST_DUE, whatever came since.
WrittenPastDue(h) ==
    CASE EventOf(h).kind = "paid" ->
           [status |-> "ACTIVE", end |-> handler[h].end]
      [] EventOf(h).kind = "deleted" ->
           [status |-> "CANCELED", end |-> Row(h).end]
      [] EventOf(h).kind = "failed" ->
           [status |-> "PAST_DUE", end |-> handler[h].end]
      [] OTHER -> [status |-> handler[h].status, end |-> handler[h].end]

\* What the handler writes: a paid invoice makes the row ACTIVE whatever
\* Stripe says of it, a deletion CANCELED and leaves the period alone.
Written(h) ==
    CASE EventOf(h).kind = "paid" ->
           [status |-> "ACTIVE", end |-> handler[h].end]
      [] EventOf(h).kind = "deleted" ->
           [status |-> "CANCELED", end |-> Row(h).end]
      [] OTHER -> [status |-> handler[h].status, end |-> handler[h].end]

\* The handler's answer of Stripe is no longer true, or a paid invoice comes
\* for a subscription that is not active.
OutOfDate(h) ==
    LET s == EventOf(h).sub
    IN  CASE EventOf(h).kind = "deleted" -> FALSE
          [] EventOf(h).kind = "paid" -> ~Matches("ACTIVE", handler[h].end, s)
          [] OTHER -> ~Matches(handler[h].status, handler[h].end, s)

\* A row becomes active when a deletion is about to take the plan back.
Races(status) ==
    status = "ACTIVE" /\ \E g \in Handler : handler[g].pc = "revert"

WriteRow(h) ==
    /\ handler[h].pc = "write"
    /\ EventOf(h).kind = "deleted" => Row(h).status # "none"
    /\ LET s == EventOf(h).sub
           w == Written(h)
           kind == EventOf(h).kind
       IN  /\ local' = [local EXCEPT ![s] = [status |-> w.status,
                                             end |-> w.end, at |-> now]]
           /\ IF OutOfDate(h) THEN Doubted(s)
              ELSE /\ doubt' = IF Matches(w.status, w.end, s) THEN doubt \ {s}
                               ELSE doubt
                   /\ raced' = (raced \/ Races(w.status))
           /\ IF kind = "failed" \/ (kind = "updated" /\ w.status \notin Usable)
              THEN Answer(h)
              ELSE Goto(h, IF kind = "deleted" THEN "others" ELSE "plan")
    /\ UNCHANGED <<now, stripe, sessions, customers, plan, trial,
                   customer, buyer, overlooked, crossed>>

WritePlan(h) ==
    /\ handler[h].pc = "plan"
    /\ plan' = "PAID"
    /\ trial' = (trial /\ EventOf(h).kind = "paid")
    /\ overlooked' = FALSE
    /\ Answer(h)
    /\ UNCHANGED <<now, stripe, sessions, customers, local, customer,
                   buyer, doubt, raced, crossed>>

\* Fault: other subscriptions are not looked for.
NoneActive(h) == FALSE

OtherActive(h) ==
    \E s \in Sub \ {EventOf(h).sub} : local[s].status = "ACTIVE"

FindOthers(h) ==
    /\ handler[h].pc = "others"
    /\ IF OtherActive(h) THEN Answer(h)
       ELSE Goto(h, "revert")
    /\ UNCHANGED <<now, stripe, sessions, customers, orgVars, buyer,
                   doubt, raced, overlooked, crossed>>

\* No other active row was found: the trial is over as of now.
Revert(h) ==
    /\ handler[h].pc = "revert"
    /\ plan' = "FREE_TRIAL" /\ trial' = FALSE
    /\ overlooked' = \E s \in Sub : local[s].status = "TRIALING"
    /\ Answer(h)
    /\ UNCHANGED <<now, stripe, sessions, customers, local, customer,
                   buyer, doubt, raced, crossed>>

\* An await throws, the update of a row that does not exist included: the
\* answer is 500 and the key stays.  A failure at the write leaves what one
\* at the retrieval leaves.
HandlerFails(h) ==
    /\ \/ handler[h].pc \in {"retrieve", "plan", "others", "revert"} /\ Count
       \/ /\ handler[h].pc = "write" /\ EventOf(h).kind = "deleted"
          /\ IF Row(h).status = "none" THEN UNCHANGED begun ELSE Count
    /\ handler' = [handler EXCEPT ![h] = Free]
    /\ UNCHANGED <<now, stripeVars, orgVars, marked, buyer, doubt, raced,
                   overlooked, crossed>>

-----------------------------------------------------------------------------
(***************************************************************************)
(* The trial ends, and the gate of every request.                          *)
(***************************************************************************)
TrialEnds ==
    /\ trial /\ Count
    /\ trial' = FALSE
    /\ UNCHANGED <<now, stripeVars, local, plan, customer, marked, handler,
                   buyer, doubt, raced, overlooked, crossed>>

\* Rows findFirst may return: the latest period end; rows of one end are
\* ordered by their creation, which is not modelled.
Latest ==
    {s \in Sub : /\ local[s].status # "none"
                 /\ \A t \in Sub : local[t].status # "none"
                                     => local[t].end <= local[s].end}

GateOpen ==
    IF plan = "FREE_TRIAL" THEN trial
    ELSE \E s \in Latest : local[s].status \in Usable

-----------------------------------------------------------------------------
HandlerStep(h) ==
    \/ Retrieve(h) \/ WriteRow(h) \/ WritePlan(h)
    \/ FindOthers(h) \/ Revert(h) \/ HandlerFails(h)

BuyerStep(b) ==
    Checkout(b) \/ CreateCustomer(b) \/ SaveCustomer(b) \/ OpenSession(b)

BillingNext ==
    \/ Tick \/ TrialEnds
    \/ \E s \in Sub : PaymentFails(s) \/ Pays(s) \/ Cancels(s)
    \/ \E s \in Sub : \E status \in Turn : Turns(s, status)
    \/ \E s \in Sub : \E c \in sessions : Subscribe(s, c)
    \/ \E h \in Handler : HandlerStep(h)
    \/ \E h \in Handler : \E e \in pending : Deliver(h, e) \/ Repeated(h, e)
    \/ \E e \in marked : Expire(e)
    \/ \E b \in Buyer : BuyerStep(b)

-----------------------------------------------------------------------------
(***************************************************************************)
(* Properties.                                                             *)
(***************************************************************************)
Quiet == pending = {} /\ \A h \in Handler : handler[h].pc = "idle"

\* When every event is answered, every row is what Stripe says, whatever
\* order the events came in and however often: unless the last write used
\* an answer of Stripe that was no longer true, a paid invoice came for a
\* subscription that is not active, an event was found older than the row,
\* or a retry met the key of the request that failed
\* (createStripeWebhookHandler).
RowIsCurrent ==
    Quiet => \A s \in Sub \ doubt : Matches(local[s].status, local[s].end, s)

\* At Stripe, a subscription that lets its organisation in: one in its own
\* trial, and one of a status the code has no name for, are as good as an
\* active one.
Entitled(s) == stripe[s].status \in {"active", "trialing", "unknown"}

\* When every event is answered and no row is in doubt, the gate lets an
\* organisation in only if it is in its trial or Stripe has an entitled
\* subscription of it (createTrialGate).
NoFreeRide ==
    Quiet /\ doubt = {} /\ GateOpen => trial \/ \E s \in Sub : Entitled(s)

\* When every event is answered and no row was ever in doubt, an organisation
\* whose latest subscription is entitled is let in, also after an earlier one
\* was deleted: unless a subscription became active while the deletion was
\* under way, or was in its trial, which the deletion does not look for
\* (customer.subscription.deleted, createTrialGate).
NoLockout ==
    Quiet /\ ~raced /\ ~overlooked =>
        \A s \in Sub :
            Entitled(s)
            /\ (\A t \in Sub \ {s} : stripe[t].status = "none"
                                     \/ stripe[t].end < stripe[s].end)
            => GateOpen

\* The gate and Stripe agree in both directions (createTrialGate).
GateFollowsStripe == NoFreeRide /\ NoLockout

\* Every subscription belongs to the customer of the organisation, through
\* which the portal and the usage report find it, unless two checkouts of
\* an organisation without a customer crossed (createCheckoutHandler).
OneCustomer ==
    ~crossed => \A s \in Sub :
        stripe[s].status = "none" \/ stripe[s].customer = customer

=============================================================================
