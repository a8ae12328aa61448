------------------------------- MODULE Billing -------------------------------
(***************************************************************************)
(* Billing of one user: the subscriptions row and the plan columns of the  *)
(* users row, the dashboard calls of subscriptions.service.ts that talk to *)
(* Stripe, and the webhook handlers of payments.service.ts that bring the  *)
(* rows up to date.  Stripe itself is external: it changes a subscription, *)
(* emits an event for every change, and delivers each event, in any order  *)
(* and beside the others, until a delivery is answered with success.       *)
(*                                                                         *)
(* The row exists from registration on.  The limits of the row are those   *)
(* of its plan and are not repeated; billing periods and the usage         *)
(* counters that a new period resets are left out (FilesApi has the        *)
(* counters).                                                              *)
(***************************************************************************)
EXTENDS Integers, Sequences, FiniteSets

CONSTANTS
  Plans,                \* plans a checkout can buy
  MaxSubs,              \* bound: subscriptions the user starts
  Calls,                \* dashboard calls the user makes, concurrent or not
  None,                 \* no customer, subscription or plan
  MaxEvents, MaxCustomers, \* bounds
  MaxHandlers,          \* bound: webhook requests being handled at once
  FaultKinds, MaxFaults \* which faults may happen, and how many in all

ASSUME BillingAssumption ==
  /\ None \notin Plans /\ None \notin Nat
  /\ "free" \notin Plans
  /\ \A n \in {MaxSubs, MaxEvents, MaxCustomers, MaxHandlers, MaxFaults} : n \in Nat

VARIABLES
  row,       \* subscriptions: [status, plan, customer, sub]
  user,      \* users: [tier, customer, sub]
  payments,  \* events with rows in payments; a retry may add one more
  stripe,    \* Stripe's subscriptions
  customers, \* Stripe customers created for the user
  sessions,  \* open checkout sessions
  events,    \* events Stripe has emitted, in the order of the changes
  delivery,  \* the webhook request of each event
  call,      \* local state of each dashboard call
  fresh,     \* history: the event each table was last written from
  misled,    \* history: a write came from outdated, foreign or no news
  faults     \* faults so far

rows == <<row, user, payments>>
external == <<stripe, customers, sessions, events>>
vars == <<rows, external, delivery, call, fresh, misled, faults>>

EventIds == 1..MaxEvents
Customers == 1..MaxCustomers
Subs == 1..MaxSubs         \* Stripe subscription ids, in the order of starts
States == {"none", "live", "past_due", "ended"}

RowRecord == [status : {"active", "canceled", "expired"}, plan : Plans \cup {"free"},
              customer : Customers \cup {None}, sub : Subs \cup {None}]
UserRecord == [tier : Plans \cup {"free"}, customer : Customers \cup {None},
               sub : Subs \cup {None}]
StripeRecord == [state : States, cancel : BOOLEAN, plan : Plans \cup {None},
                 customer : Customers \cup {None}]
EventRecord == [type : {"checkout", "paid", "failed", "updated", "deleted"},
                sub : Subs, now : StripeRecord]
DeliveryStates ==
  {"none", "pending", "row", "user", "payment", "respond", "acked"}
CallRecord ==
  [pc : {"idle", "create", "attach", "session", "stripe", "row", "done"},
   plan : Plans \cup {None}, customer : Customers \cup {None},
   sub : Subs \cup {None}, cancel : BOOLEAN, seen : 0..MaxEvents,
   answer : States]

IdleCall == [pc |-> "idle", plan |-> None, customer |-> None, sub |-> None,
             cancel |-> FALSE, seen |-> 0, answer |-> "none"]
EndedCall == [IdleCall EXCEPT !.pc = "done"]

TypeOK ==
  /\ row \in RowRecord /\ user \in UserRecord
  /\ payments \subseteq EventIds
  /\ stripe \in [Subs -> StripeRecord]
  /\ customers \in 0..MaxCustomers
  /\ sessions \subseteq [customer : Customers, plan : Plans]
  /\ events \in Seq(EventRecord) /\ Len(events) <= MaxEvents
  /\ delivery \in [EventIds -> DeliveryStates]
  /\ call \in [Calls -> CallRecord]
  /\ fresh \in [row : 0..MaxEvents, user : 0..MaxEvents]
  /\ misled \in BOOLEAN
  /\ faults \in Nat

(* createDefaultSubscription: a registered user has a free, active row.    *)
Init ==
  /\ row = [status |-> "active", plan |-> "free", customer |-> None,
            sub |-> None]
  /\ user = [tier |-> "free", customer |-> None, sub |-> None]
  /\ payments = {}
  /\ stripe = [s \in Subs |-> [state |-> "none", cancel |-> FALSE,
                 plan |-> None, customer |-> None]]
  /\ customers = 0
  /\ sessions = {}
  /\ events = <<>>
  /\ delivery = [i \in EventIds |-> "none"]
  /\ call = [c \in Calls |-> IdleCall]
  /\ fresh = [row |-> 0, user |-> 0]
  /\ misled = FALSE
  /\ faults = 0

Fault(kind) ==
  /\ kind \in FaultKinds
  /\ faults < MaxFaults
  /\ faults' = faults + 1

-----------------------------------------------------------------------------
(* Stripe (external).  Every change emits the events the code handles.     *)

Open(s) == stripe[s].state \in {"live", "past_due"}

(* Subscription s becomes r, and events of the given types are emitted.    *)
Emit(s, r, types) ==
  /\ Len(events) + Len(types) <= MaxEvents
  /\ stripe' = [stripe EXCEPT ![s] = r]
  /\ events' = events \o
       [k \in DOMAIN types |-> [type |-> types[k], sub |-> s, now |-> r]]
  /\ delivery' = [i \in EventIds |->
       IF i \in (Len(events) + 1)..(Len(events) + Len(types))
       THEN "pending" ELSE delivery[i]]

(* The user pays an open session: the subscription starts.                 *)
PayCheckout(s) ==
  \E t \in sessions :
    /\ stripe[s].state = "none"
    /\ \A r \in 1..(s - 1) : stripe[r].state # "none"
    /\ sessions' = sessions \ {t}
    /\ Emit(s, [state |-> "live", cancel |-> FALSE, plan |-> t.plan,
                customer |-> t.customer], <<"checkout", "paid">>)
    /\ UNCHANGED <<rows, customers, call, fresh, misled, faults>>

Renew(s) ==
  /\ Open(s) /\ ~stripe[s].cancel
  /\ Emit(s, [stripe[s] EXCEPT !.state = "live"], <<"updated", "paid">>)
  /\ UNCHANGED <<rows, customers, sessions, call, fresh, misled, faults>>

ChargeFails(s) ==
  /\ stripe[s].state = "live" /\ ~stripe[s].cancel
  /\ Emit(s, [stripe[s] EXCEPT !.state = "past_due"], <<"failed", "updated">>)
  /\ UNCHANGED <<rows, customers, sessions, call, fresh, misled, faults>>

End(s) ==
  /\ Open(s)
  /\ Emit(s, [stripe[s] EXCEPT !.state = "ended"], <<"deleted">>)
  /\ UNCHANGED <<rows, customers, sessions, call, fresh, misled, faults>>

(* The user cancels in Stripe's own billing portal.                        *)
PortalCancel(s) ==
  /\ Open(s) /\ ~stripe[s].cancel
  /\ Emit(s, [stripe[s] EXCEPT !.cancel = TRUE], <<"updated">>)
  /\ UNCHANGED <<rows, customers, sessions, call, fresh, misled, faults>>

-----------------------------------------------------------------------------
(* SubscriptionsService: the calls of the subscription page.               *)

(* createCheckout reads the row: the customer is reused when it has one.   *)
StartCheckout(c) ==
  /\ call[c].pc = "idle"
  /\ \E p \in Plans :
       call' = [call EXCEPT ![c] = [IdleCall EXCEPT !.plan = p,
         !.pc = IF row.customer = None THEN "create" ELSE "session",
         !.customer = row.customer]]
  /\ UNCHANGED <<rows, external, delivery, fresh, misled, faults>>

(* stripe.customers.create, for a row read before without a customer.      *)
CreateCustomer(c) ==
  /\ call[c].pc = "create"
  /\ customers < MaxCustomers
  /\ customers' = customers + 1
  /\ call' = [call EXCEPT ![c].pc = "attach", ![c].customer = customers + 1]
  /\ UNCHANGED <<rows, stripe, sessions, events, delivery, fresh, misled, faults>>

(* The row takes the new customer, whatever it has by now.                 *)
AttachCustomer(c) ==
  /\ call[c].pc = "attach"
  /\ row' = [row EXCEPT !.customer = call[c].customer]
  /\ misled' = (misled \/ row.customer # None)
  /\ call' = [call EXCEPT ![c].pc = "session"]
  /\ UNCHANGED <<user, payments, external, delivery, fresh, faults>>

CreateSession(c) ==
  /\ call[c].pc = "session"
  /\ sessions' = sessions \cup {[customer |-> call[c].customer, plan |-> call[c].plan]}
  /\ call' = [call EXCEPT ![c] = EndedCall]
  /\ UNCHANGED <<rows, stripe, customers, events, delivery, fresh, misled, faults>>

(* cancelSubscription and resumeSubscription: an active row is canceled, a *)
(* canceled one resumed.                                                   *)
StartCancel(c, cancel) ==
  /\ call[c].pc = "idle"
  /\ row.status = (IF cancel THEN "active" ELSE "canceled")
  /\ row.sub # None
  /\ call' = [call EXCEPT ![c] = [IdleCall EXCEPT !.pc = "stripe",
                                     !.sub = row.sub, !.cancel = cancel]]
  /\ UNCHANGED <<rows, external, delivery, fresh, misled, faults>>

(* stripe.subscriptions.update; an ended subscription refuses.  Stripe     *)
(* emits an event only for a change.  The code awaits the answer, which is *)
(* the subscription, but does not look at it.                              *)
UpdateStripe(c) ==
  LET s == call[c].sub IN
  /\ call[c].pc = "stripe"
  /\ \/ /\ Open(s) /\ stripe[s].cancel # call[c].cancel
        /\ Emit(s, [stripe[s] EXCEPT !.cancel = call[c].cancel], <<"updated">>)
     \/ /\ ~Open(s) \/ stripe[s].cancel = call[c].cancel
        /\ UNCHANGED <<stripe, events, delivery>>
  /\ call' = [call EXCEPT ![c] = IF Open(s)
       THEN [call[c] EXCEPT !.pc = "row", !.seen = Len(events'),
                            !.answer = stripe[s].state]
       ELSE EndedCall]
  /\ UNCHANGED <<rows, customers, sessions, fresh, misled, faults>>

(* Then the row, by its id: a resumed subscription is active, although its *)
(* last charge may have failed.                                            *)
CancelRow(c) ==
  /\ call[c].pc = "row"
  /\ row' = [row EXCEPT !.status = IF call[c].cancel THEN "canceled" ELSE "active"]
  /\ misled' = \/ misled \/ call[c].seen < fresh.row \/ row.sub # call[c].sub
               \/ ~call[c].cancel /\ call[c].answer = "past_due"
  /\ fresh' = [fresh EXCEPT !.row = call[c].seen]
  /\ call' = [call EXCEPT ![c] = EndedCall]
  /\ UNCHANGED <<user, payments, external, delivery, faults>>

(* Any of these awaits throws, before or after its effect.                 *)
CallFails(c) ==
  /\ call[c].pc \notin {"idle", "done"}
  /\ Fault("call")
  /\ call' = [call EXCEPT ![c] = EndedCall]
  /\ UNCHANGED <<rows, external, delivery, fresh, misled>>

-----------------------------------------------------------------------------
(* PaymentsService.handleWebhook                                           *)

Working(i) == delivery[i] \notin {"none", "pending", "acked"}
HandlerIsFree == Cardinality({i \in EventIds : Working(i)}) < MaxHandlers

Sub(i) == events[i].sub
Owner(i) == stripe[Sub(i)].customer

(* The handlers of invoice and subscription events look the row up by the  *)
(* Stripe customer; an event of an unknown customer is acknowledged.       *)
Known(i) == events[i].type = "checkout" \/ row.customer = Owner(i)

(* The first statement of each handler that changes a row.  The invoice    *)
(* handlers insert the payment first, the checkout handler last; between   *)
(* its statements the code asks Stripe for the period.                     *)
FirstStep(i) ==
  IF events[i].type \in {"paid", "failed"} THEN "payment" ELSE "row"

(* Mutant of Deliver: an unknown customer makes the handler throw.         *)
DeliverStrictly(i) ==
  /\ delivery[i] = "pending" /\ HandlerIsFree
  /\ Known(i)
  /\ delivery' = [delivery EXCEPT ![i] = FirstStep(i)]
  /\ UNCHANGED <<rows, external, call, fresh, misled, faults>>

Deliver(i) ==
  /\ delivery[i] = "pending" /\ HandlerIsFree
  /\ delivery' = [delivery EXCEPT ![i] =
                    IF Known(i) THEN FirstStep(i) ELSE "respond"]
  /\ UNCHANGED <<rows, external, call, fresh, misled, faults>>

(* Mutant of StatusOf: cancel_at_period_end is not looked at.              *)
StatusIgnoringCancel(r) == IF r.state = "live" THEN "active" ELSE "expired"

(* Mutant of StatusOf: Stripe's own status is stored.                      *)
StatusUnmapped(r) == IF r.cancel THEN "canceled" ELSE r.state

(* What handleSubscriptionUpdated makes of the state in the event.         *)
StatusOf(r) ==
  IF r.cancel THEN "canceled" ELSE IF r.state = "live" THEN "active" ELSE "expired"

(* The row after the UPDATE of each handler.                               *)
RowFrom(i) ==
  LET e == events[i] IN
  CASE e.type = "checkout" ->
         [status |-> "active", plan |-> e.now.plan, customer |-> Owner(i),
          sub |-> e.sub]
    [] e.type = "updated" -> [row EXCEPT !.status = StatusOf(e.now)]
    [] e.type = "deleted" ->
         [row EXCEPT !.status = "expired", !.plan = "free", !.sub = None]

(* History: an event is written to a table that shows sub so far.  The     *)
(* write misleads if the table has newer news or shows another             *)
(* subscription; only a checkout may follow on none.                       *)
Write(i, table, sub) ==
  /\ misled' = \/ misled
               \/ i < fresh[table]
               \/ /\ i # fresh[table]
                  /\ sub # Sub(i)
                  /\ ~(events[i].type = "checkout" /\ sub = None)
  /\ fresh' = [fresh EXCEPT ![table] = i]

UpdateRow(i) ==
  /\ delivery[i] = "row"
  /\ row' = RowFrom(i)
  /\ Write(i, "row", row.sub)
  /\ delivery' = [delivery EXCEPT ![i] =
       IF events[i].type = "updated" THEN "respond" ELSE "user"]
  /\ UNCHANGED <<user, payments, external, call, faults>>

(* The denormalized plan columns of users, in a statement of their own.    *)
UpdateUser(i) ==
  /\ delivery[i] = "user"
  /\ user' = IF events[i].type = "checkout"
             THEN [tier |-> events[i].now.plan, customer |-> Owner(i), sub |-> Sub(i)]
             ELSE [user EXCEPT !.tier = "free", !.sub = None]
  /\ Write(i, "user", user.sub)
  /\ delivery' = [delivery EXCEPT ![i] =
       IF events[i].type = "checkout" THEN "payment" ELSE "respond"]
  /\ UNCHANGED <<row, payments, external, call, faults>>

InsertPayment(i) ==
  /\ delivery[i] = "payment"
  /\ payments' = payments \cup {i}
  /\ delivery' = [delivery EXCEPT ![i] = "respond"]
  /\ UNCHANGED <<row, user, external, call, fresh, misled, faults>>

Respond(i) ==
  /\ delivery[i] = "respond"
  /\ delivery' = [delivery EXCEPT ![i] = "acked"]
  /\ UNCHANGED <<rows, external, call, fresh, misled, faults>>

(* Mutant of HandlerFails: the error is logged and the event acknowledged. *)
HandlerSwallows(i) ==
  /\ Working(i)
  /\ Fault("throw")
  /\ delivery' = [delivery EXCEPT ![i] = "acked"]
  /\ UNCHANGED <<rows, external, call, fresh, misled>>

(* A statement throws, the process dies or the answer is lost: Stripe sees *)
(* no success and delivers the event again.                                *)
HandlerFails(i) ==
  /\ Working(i)
  /\ Fault("throw")
  /\ delivery' = [delivery EXCEPT ![i] = "pending"]
  /\ UNCHANGED <<rows, external, call, fresh, misled>>

(* The statements of the handler of event i.                               *)
Handle(i) ==
  UpdateRow(i) \/ UpdateUser(i) \/ InsertPayment(i) \/ Respond(i)

Next ==
  \/ \E s \in Subs : \/ PayCheckout(s) \/ Renew(s) \/ ChargeFails(s)
                     \/ End(s) \/ PortalCancel(s)
  \/ \E c \in Calls : \/ StartCheckout(c) \/ CreateCustomer(c)
                      \/ AttachCustomer(c) \/ CreateSession(c)
                      \/ StartCancel(c, TRUE) \/ StartCancel(c, FALSE)
                      \/ UpdateStripe(c) \/ CancelRow(c) \/ CallFails(c)
  \/ \E i \in EventIds : \/ Deliver(i) \/ Handle(i)
                         \/ HandlerFails(i)

Spec == Init /\ [][Next]_vars

(* Stripe goes on delivering what is unanswered, and what the server       *)
(* handles runs on to its end or to a failure.                             *)
FairSpec ==
  /\ Spec
  /\ WF_vars(\E i \in EventIds : Deliver(i))
  /\ WF_vars(\E i \in EventIds : Handle(i))

-----------------------------------------------------------------------------
(* Properties.                                                             *)

Acknowledged == \A i \in EventIds : delivery[i] \in {"none", "acked"}
Settled == Acknowledged /\ \A c \in Calls : call[c].pc # "row"

(* The two rows say what Stripe says of the one open subscription s.       *)
RowsShow(s) ==
  /\ row.status = "canceled" <=> stripe[s].cancel
  /\ row.status = "active" <=> ~stripe[s].cancel /\ stripe[s].state = "live"
  /\ row.plan = stripe[s].plan
  /\ row.customer = stripe[s].customer /\ row.sub = s
  /\ user = [tier |-> stripe[s].plan, customer |-> stripe[s].customer,
             sub |-> s]

RowsShowFree ==
  row.plan = "free" /\ row.sub = None /\ user.tier = "free" /\ user.sub = None

(* Once every event is acknowledged the user has the plan Stripe charges   *)
(* for, in both tables, however often handlers failed between two of their *)
(* statements and were run again, and the free plan after the last         *)
(* subscription ended: unless a write came from old or foreign news, which *)
(* no handler looks for, or was a resume that calls an overdue             *)
(* subscription active, or the user pays two subscriptions at once.        *)
Converges ==
  Settled /\ ~misled =>
    LET open == {s \in Subs : Open(s)} IN
    /\ open = {} => RowsShowFree
    /\ \A s \in Subs : open = {s} => RowsShow(s)

(* A paid invoice that was acknowledged is in the payment history, unless  *)
(* the user's concurrent checkouts made two Stripe customers.              *)
PaymentRecorded ==
  \A i \in DOMAIN events :
    /\ events[i].type = "paid"
    /\ delivery[i] = "acked"
    /\ customers < 2
    => i \in payments

(* Every event is acknowledged in the end: no event, however late and for  *)
(* whatever customer, is one that the handlers refuse for ever.            *)
EventsAcknowledged == <>[]Acknowledged
=============================================================================
