---------------------------- MODULE BillingProofs ----------------------------
(***************************************************************************)
(* Proofs about Billing, for every number of plans, subscriptions, calls,  *)
(* customers, events and handlers and every bound.                         *)
(***************************************************************************)
EXTENDS Billing, SequenceTheorems, TLAPS

-----------------------------------------------------------------------------
(* Events.                                                                 *)
Types == {"checkout", "paid", "failed", "updated", "deleted"}

LEMMA SameInterval ==
  ASSUME NEW m \in Nat, NEW n \in Nat, 1..m = 1..n
  PROVE  m = n
  <1>1. ASSUME NEW j \in Nat, NEW k \in Nat, 1..j = 1..k  PROVE j <= k
    <2>1. j = 0 \/ j \in 1..j
      OBVIOUS
    <2>2. QED
      BY <1>1, <2>1
  <1>2. m <= n /\ n <= m
    BY <1>1
  <1>3. QED
    BY <1>2

(* What Emit appends: one event of each type, in order, with the new state *)
(* of the subscription.                                                    *)
LEMMA Emitted ==
  ASSUME events \in Seq(EventRecord), NEW s \in Subs, NEW r \in StripeRecord,
         NEW types \in Seq(Types), Emit(s, r, types)
  PROVE  /\ events' \in Seq(EventRecord)
         /\ Len(events) \in Nat /\ Len(types) \in Nat
         /\ Len(events') = Len(events) + Len(types) /\ Len(events') <= MaxEvents
         /\ \A i \in 1..Len(events) : events'[i] = events[i]
         /\ \A k \in 1..Len(types) :
              events'[Len(events) + k] = [type |-> types[k], sub |-> s, now |-> r]
  <1> DEFINE news == [k \in DOMAIN types |-> [type |-> types[k], sub |-> s, now |-> r]]
  <1>1. /\ Len(types) \in Nat /\ DOMAIN types = 1..Len(types)
        /\ \A k \in 1..Len(types) : types[k] \in Types
        /\ Len(events) \in Nat
    BY LenProperties
  <1>2. news \in [1..Len(types) -> EventRecord]
    BY <1>1 DEF EventRecord, Types
  <1>3. news \in Seq(EventRecord) /\ Len(news) = Len(types)
    <2>1. news \in Seq(EventRecord)
      BY <1>1, <1>2, SeqDef
    <2>2. DOMAIN news = 1..Len(news) /\ Len(news) \in Nat
      BY <2>1, LenProperties
    <2>3. DOMAIN news = 1..Len(types)
      BY <1>1
    <2> HIDE DEF news
    <2>4. QED
      BY <1>1, <2>1, <2>2, <2>3, SameInterval
  <1>4. events' = events \o news /\ Len(events) + Len(types) <= MaxEvents
    BY DEF Emit
  <1>5. \A k \in 1..Len(types) : news[k] = [type |-> types[k], sub |-> s, now |-> r]
    BY <1>1
  <1> HIDE DEF news
  <1>6. /\ events \o news \in Seq(EventRecord)
        /\ Len(events \o news) = Len(events) + Len(news)
        /\ \A i \in 1..Len(events) + Len(news) :
             (events \o news)[i] = IF i <= Len(events) THEN events[i] ELSE news[i - Len(events)]
    BY <1>3, ConcatProperties
  <1>7. \A k \in 1..Len(types) : events'[Len(events) + k] = news[k]
    BY <1>1, <1>3, <1>4, <1>6
  <1>8. QED
    BY <1>1, <1>3, <1>4, <1>5, <1>6, <1>7

-----------------------------------------------------------------------------
(* Typing.  TypeOK is not inductive: a statement of a webhook handler must *)
(* belong to an event that was emitted and be one that its type has, a     *)
(* checkout must name a plan, and a call under way what it is about.       *)

NewsTyped ==
  /\ stripe \in [Subs -> StripeRecord]
  /\ events \in Seq(EventRecord) /\ Len(events) <= MaxEvents
  /\ \A i \in 1..Len(events) : events[i].type = "checkout" => events[i].now.plan \in Plans
  /\ delivery \in [EventIds -> DeliveryStates]
  /\ \A i \in EventIds :
       /\ delivery[i] # "none" => i <= Len(events)
       /\ delivery[i] = "row" => events[i].type \in {"checkout", "updated", "deleted"}
       /\ delivery[i] = "user" => events[i].type \in {"checkout", "deleted"}
       /\ delivery[i] = "payment" => events[i].type \in {"checkout", "paid", "failed"}

CallsTyped ==
  /\ call \in [Calls -> CallRecord]
  /\ \A c \in Calls :
       /\ call[c].pc \in {"create", "attach", "session"} => call[c].plan \in Plans
       /\ call[c].pc \in {"attach", "session"} => call[c].customer \in Customers
       /\ call[c].pc \in {"stripe", "row"} => call[c].sub \in Subs

TablesTyped ==
  /\ row \in RowRecord /\ user \in UserRecord
  /\ payments \subseteq EventIds

OthersTyped ==
  /\ customers \in 0..MaxCustomers
  /\ sessions \subseteq [customer : Customers, plan : Plans]
  /\ fresh \in [row : 0..MaxEvents, user : 0..MaxEvents]
  /\ misled \in BOOLEAN
  /\ faults \in Nat

TypeInv == NewsTyped /\ CallsTyped /\ TablesTyped /\ OthersTyped

LEMMA NoneIsNothing ==
  /\ None \notin Plans /\ None \notin Customers /\ None \notin Subs
  /\ MaxEvents \in Nat /\ MaxCustomers \in Nat /\ MaxSubs \in Nat
  BY BillingAssumption DEF Customers, Subs

(* The number of events so far is a number that the history may hold.      *)
LEMMA EventsCounted ==
  ASSUME NewsTyped
  PROVE  Len(events) \in 0..MaxEvents
  BY LenProperties, NoneIsNothing DEF NewsTyped

LEMMA EmitTyped ==
  ASSUME NewsTyped, NEW s \in Subs, NEW r \in StripeRecord, NEW types \in Seq(Types),
         Emit(s, r, types),
         \A k \in 1..Len(types) : types[k] = "checkout" => r.plan \in Plans
  PROVE  NewsTyped' /\ Len(events') \in 0..MaxEvents
  <1> DEFINE n == Len(events)
  <1>1. /\ events' \in Seq(EventRecord)
        /\ Len(events) \in Nat /\ Len(types) \in Nat
        /\ Len(events') = Len(events) + Len(types) /\ Len(events') <= MaxEvents
        /\ \A i \in 1..Len(events) : events'[i] = events[i]
        /\ \A k \in 1..Len(types) :
             events'[Len(events) + k] = [type |-> types[k], sub |-> s, now |-> r]
    BY Emitted DEF NewsTyped
  <1>2. stripe' \in [Subs -> StripeRecord]
    BY DEF Emit, NewsTyped
  <1>3. ASSUME NEW i \in 1..Len(events'), events'[i].type = "checkout"
        PROVE  events'[i].now.plan \in Plans
    <2>1. CASE i <= Len(events)
      BY <1>1, <1>3, <2>1 DEF NewsTyped
    <2>2. CASE i > Len(events)
      <3>1. PICK k \in 1..Len(types) : i = Len(events) + k
        <4>1. i - Len(events) \in 1..Len(types) /\ i = Len(events) + (i - Len(events))
          BY <1>1, <2>2
        <4>2. QED
          BY <4>1
      <3>2. events'[i] = [type |-> types[k], sub |-> s, now |-> r]
        BY <1>1, <3>1
      <3>3. types[k] = "checkout"
        BY <1>3, <3>2
      <3>4. QED
        BY <3>2, <3>3
    <2>3. QED
      BY <1>1, <2>1, <2>2
  <1>4. \A i \in EventIds : \/ delivery'[i] = delivery[i]
                            \/ delivery'[i] = "pending" /\ i <= Len(events')
    BY <1>1 DEF Emit
  <1>5. delivery' \in [EventIds -> DeliveryStates]
    BY DEF Emit, NewsTyped, DeliveryStates
  <1>6. ASSUME NEW i \in EventIds
        PROVE  /\ delivery'[i] # "none" => i <= Len(events')
               /\ delivery'[i] = "row" => events'[i].type \in {"checkout", "updated", "deleted"}
               /\ delivery'[i] = "user" => events'[i].type \in {"checkout", "deleted"}
               /\ delivery'[i] = "payment" => events'[i].type \in {"checkout", "paid", "failed"}
    <2>1. CASE delivery'[i] = "pending" /\ i <= Len(events')
      BY <2>1
    <2>2. CASE delivery'[i] = delivery[i]
      BY <1>1, <2>2 DEF NewsTyped, EventIds
    <2>3. QED
      BY <1>4, <2>1, <2>2
  <1>7. QED
    BY <1>1, <1>2, <1>3, <1>5, <1>6 DEF NewsTyped

(* A subscription whose cancellation flag is set or taken back.            *)
LEMMA Cancelling ==
  ASSUME NEW r \in StripeRecord, NEW flag \in BOOLEAN
  PROVE  /\ [r EXCEPT !.cancel = flag] \in StripeRecord
         /\ [r EXCEPT !.cancel = flag].state = r.state
         /\ [r EXCEPT !.cancel = flag].plan = r.plan
         /\ [r EXCEPT !.cancel = flag].customer = r.customer
  BY DEF StripeRecord

(* How a subscription changes: it starts with a checkout, keeps its plan   *)
(* and customer, and ends with the event that says so; every change emits  *)
(* news for the row, and no checkout is the last of its events.            *)
RowTypes == {"checkout", "updated", "deleted"}

IsChange(s, r, types) ==
  /\ Emit(s, r, types)
  /\ stripe[s].state # "ended" /\ r.state # "none"
  /\ Len(types) >= 1 /\ types[Len(types)] # "checkout"
  /\ \A k \in 1..Len(types) :
       /\ types[k] = "checkout" =>
            /\ k = 1 /\ stripe[s].state = "none"
            /\ r.state = "live" /\ r.cancel = FALSE /\ r.plan \in Plans
       /\ types[k] = "deleted" => k = Len(types)
  /\ r.state = "ended" <=> \E k \in 1..Len(types) : types[k] = "deleted"
  /\ \E k \in 1..Len(types) :
       /\ types[k] \in RowTypes
       /\ \A j \in 1..Len(types) : types[j] \in RowTypes => j <= k
  /\ stripe[s].state = "none" =>
       types[1] = "checkout" /\ \E t \in sessions : r.customer = t.customer
  /\ stripe[s].state # "none" =>
       r.plan = stripe[s].plan /\ r.customer = stripe[s].customer

LEMMA Changing ==
  ASSUME NEW r \in StripeRecord, NEW st \in States
  PROVE  /\ [r EXCEPT !.state = st] \in StripeRecord
         /\ [r EXCEPT !.state = st].state = st
         /\ [r EXCEPT !.state = st].plan = r.plan
         /\ [r EXCEPT !.state = st].customer = r.customer
  BY DEF StripeRecord

(* A flag that is set or taken back, in the portal or by a call.           *)
LEMMA CancelIsChange ==
  ASSUME NEW s, stripe[s] \in StripeRecord, NEW flag \in BOOLEAN, Open(s),
         Emit(s, [stripe[s] EXCEPT !.cancel = flag], <<"updated">>)
  PROVE  IsChange(s, [stripe[s] EXCEPT !.cancel = flag], <<"updated">>)
  <1> DEFINE r == [stripe[s] EXCEPT !.cancel = flag]
             types == <<"updated">>
  <1>1. /\ r.state = stripe[s].state
        /\ r.plan = stripe[s].plan /\ r.customer = stripe[s].customer
    BY Cancelling
  <1>2. Emit(s, r, types) /\ stripe[s].state \in {"live", "past_due"}
    BY DEF Open
  <1>3. Len(types) = 1 /\ types[1] = "updated"
    OBVIOUS
  <1> HIDE DEF r, types
  <1>4. IsChange(s, r, types)
    BY <1>1, <1>2, <1>3 DEF IsChange, RowTypes
  <1>5. QED
    BY <1>4 DEF r, types

(* Stripe's own steps are such changes.                                    *)
LEMMA StripeSteps ==
  ASSUME TypeInv, NEW s \in Subs,
         PayCheckout(s) \/ Renew(s) \/ ChargeFails(s) \/ End(s) \/ PortalCancel(s)
  PROVE  /\ \E r \in StripeRecord, types \in Seq(Types) : IsChange(s, r, types)
         /\ sessions' \subseteq sessions
         /\ UNCHANGED <<rows, customers, call, fresh, misled, faults>>
  <1>1. stripe[s] \in StripeRecord
    BY DEF TypeInv, NewsTyped
  <1>2. CASE PayCheckout(s)
    <2> DEFINE started(t) == [state |-> "live", cancel |-> FALSE, plan |-> t.plan,
                              customer |-> t.customer]
               types == <<"checkout", "paid">>
    <2>1. PICK t \in sessions :
            /\ stripe[s].state = "none"
            /\ sessions' = sessions \ {t}
            /\ Emit(s, started(t), types)
            /\ UNCHANGED <<rows, customers, call, fresh, misled, faults>>
      BY <1>2 DEF PayCheckout
    <2>2. t.plan \in Plans /\ t.customer \in Customers
      BY DEF TypeInv, OthersTyped
    <2>3. /\ started(t) \in StripeRecord
          /\ started(t).state = "live" /\ started(t).cancel = FALSE
          /\ started(t).plan = t.plan /\ started(t).customer = t.customer
      BY <2>2 DEF StripeRecord, States
    <2>4. /\ types \in Seq(Types) /\ Len(types) = 2
          /\ types[1] = "checkout" /\ types[2] = "paid"
      BY DEF Types
    <2> HIDE DEF started, types
    <2>5. IsChange(s, started(t), types)
      BY <2>1, <2>2, <2>3, <2>4 DEF IsChange, RowTypes
    <2>6. QED
      BY <2>1, <2>3, <2>4, <2>5
  <1>3. CASE Renew(s)
    <2> DEFINE r == [stripe[s] EXCEPT !.state = "live"]
               types == <<"updated", "paid">>
    <2>1. Emit(s, r, types) /\ stripe[s].state \in {"live", "past_due"}
      BY <1>3 DEF Renew, Open
    <2>2. /\ r \in StripeRecord /\ r.state = "live"
          /\ r.plan = stripe[s].plan /\ r.customer = stripe[s].customer
      BY <1>1, Changing DEF States
    <2>3. types \in Seq(Types) /\ Len(types) = 2 /\ types[1] = "updated" /\ types[2] = "paid"
      BY DEF Types
    <2> HIDE DEF r, types
    <2>4. IsChange(s, r, types)
      BY <2>1, <2>2, <2>3 DEF IsChange, RowTypes
    <2>5. QED
      BY <1>3, <2>2, <2>3, <2>4 DEF Renew
  <1>4. CASE ChargeFails(s)
    <2> DEFINE r == [stripe[s] EXCEPT !.state = "past_due"]
               types == <<"failed", "updated">>
    <2>1. Emit(s, r, types) /\ stripe[s].state = "live"
      BY <1>4 DEF ChargeFails
    <2>2. /\ r \in StripeRecord /\ r.state = "past_due"
          /\ r.plan = stripe[s].plan /\ r.customer = stripe[s].customer
      BY <1>1, Changing DEF States
    <2>3. types \in Seq(Types) /\ Len(types) = 2 /\ types[1] = "failed" /\ types[2] = "updated"
      BY DEF Types
    <2> HIDE DEF r, types
    <2>4. IsChange(s, r, types)
      BY <2>1, <2>2, <2>3 DEF IsChange, RowTypes
    <2>5. QED
      BY <1>4, <2>2, <2>3, <2>4 DEF ChargeFails
  <1>5. CASE End(s)
    <2> DEFINE r == [stripe[s] EXCEPT !.state = "ended"]
               types == <<"deleted">>
    <2>1. Emit(s, r, types) /\ stripe[s].state \in {"live", "past_due"}
      BY <1>5 DEF End, Open
    <2>2. /\ r \in StripeRecord /\ r.state = "ended"
          /\ r.plan = stripe[s].plan /\ r.customer = stripe[s].customer
      BY <1>1, Changing DEF States
    <2>3. types \in Seq(Types) /\ Len(types) = 1 /\ types[1] = "deleted"
      BY DEF Types
    <2> HIDE DEF r, types
    <2>4. IsChange(s, r, types)
      BY <2>1, <2>2, <2>3 DEF IsChange, RowTypes
    <2>5. QED
      BY <1>5, <2>2, <2>3, <2>4 DEF End
  <1>6. CASE PortalCancel(s)
    <2>1. IsChange(s, [stripe[s] EXCEPT !.cancel = TRUE], <<"updated">>)
      <3>1. Emit(s, [stripe[s] EXCEPT !.cancel = TRUE], <<"updated">>) /\ Open(s)
        BY <1>6 DEF PortalCancel
      <3>2. QED
        BY <1>1, <3>1, CancelIsChange
    <2>2. <<"updated">> \in Seq(Types)
      BY DEF Types
    <2>3. [stripe[s] EXCEPT !.cancel = TRUE] \in StripeRecord
      BY <1>1, Cancelling
    <2>4. QED
      BY <1>6, <2>1, <2>2, <2>3 DEF PortalCancel
  <1>7. QED
    BY <1>2, <1>3, <1>4, <1>5, <1>6

(* What a call may become.                                                 *)
LEMMA CallEdits ==
  ASSUME NEW k \in CallRecord
  PROVE  /\ [k EXCEPT !.pc = "done"] \in CallRecord
         /\ [k EXCEPT !.pc = "done"].pc = "done"
   BY DEF CallRecord

LEMMA NewCalls ==
  /\ IdleCall \in CallRecord /\ IdleCall.pc = "idle"
  /\ EndedCall \in CallRecord /\ EndedCall.pc = "done"
  <1>1. IdleCall \in CallRecord /\ IdleCall.pc = "idle"
    BY NoneIsNothing DEF IdleCall, CallRecord, States
  <1>2. QED
    BY <1>1, CallEdits DEF EndedCall

(* The calls of the subscription page.                                     *)
LEMMA CallsKeepTypes ==
  ASSUME TypeInv, NEW c \in Calls,
         \/ StartCheckout(c) \/ CreateCustomer(c) \/ AttachCustomer(c)
         \/ CreateSession(c) \/ StartCancel(c, TRUE) \/ StartCancel(c, FALSE)
         \/ CancelRow(c) \/ CallFails(c)
  PROVE  TypeInv'
  <1>0. /\ call[c] \in CallRecord /\ row.customer \in Customers \cup {None}
        /\ row.sub \in Subs \cup {None} /\ IdleCall \in CallRecord /\ EndedCall \in CallRecord
        /\ call \in [Calls -> CallRecord]
    BY NewCalls DEF TypeInv, CallsTyped, TablesTyped, RowRecord
  <1>1. CASE StartCheckout(c)
    <2>1. PICK p \in Plans :
            call' = [call EXCEPT ![c] = [IdleCall EXCEPT !.plan = p,
              !.pc = IF row.customer = None THEN "create" ELSE "session",
              !.customer = row.customer]]
      BY <1>1 DEF StartCheckout
    <2>2. CallsTyped'
      BY <1>0, <2>1 DEF TypeInv, CallsTyped, IdleCall, CallRecord
    <2>3. QED
      BY <1>1, <2>2 DEF StartCheckout, rows, external, TypeInv, NewsTyped, TablesTyped,
                        OthersTyped
  <1>2. CASE CreateCustomer(c)
    <2>1. customers + 1 \in Customers /\ customers + 1 \in 0..MaxCustomers
      BY <1>2, NoneIsNothing DEF CreateCustomer, TypeInv, OthersTyped, Customers
    <2>2. PICK n \in Customers :
            call' = [call EXCEPT ![c].pc = "attach", ![c].customer = n]
      BY <1>2, <2>1 DEF CreateCustomer
    <2>3. CallsTyped'
      <3>1. call[c].plan \in Plans
        BY <1>2 DEF CreateCustomer, TypeInv, CallsTyped
      <3>2. QED
        BY <1>0, <2>2, <3>1 DEF TypeInv, CallsTyped, CallRecord
    <2>4. QED
      BY <1>2, <2>1, <2>3 DEF CreateCustomer, rows, TypeInv, NewsTyped, TablesTyped, OthersTyped
  <1>3. CASE AttachCustomer(c)
    <2>1. call[c].customer \in Customers
      BY <1>3 DEF AttachCustomer, TypeInv, CallsTyped
    <2>2. TablesTyped'
      BY <1>3, <2>1 DEF AttachCustomer, TypeInv, TablesTyped, RowRecord
    <2>3. CallsTyped'
      BY <1>0, <1>3 DEF AttachCustomer, TypeInv, CallsTyped, CallRecord
    <2>4. misled' \in BOOLEAN
      BY <1>3 DEF AttachCustomer
    <2>5. QED
      BY <1>3, <2>2, <2>3, <2>4 DEF AttachCustomer, external, TypeInv, NewsTyped, OthersTyped
  <1>4. CASE CreateSession(c)
    <2>1. call[c].customer \in Customers /\ call[c].plan \in Plans
      BY <1>4 DEF CreateSession, TypeInv, CallsTyped
    <2>2. CallsTyped'
      BY <1>0, <1>4, NewCalls DEF CreateSession, TypeInv, CallsTyped
    <2>3. QED
      BY <1>4, <2>1, <2>2 DEF CreateSession, rows, TypeInv, NewsTyped, TablesTyped, OthersTyped
  <1>5. ASSUME NEW cancel \in BOOLEAN, StartCancel(c, cancel)  PROVE TypeInv'
    <2>1. /\ row.sub \in Subs
          /\ call' = [call EXCEPT ![c] = [IdleCall EXCEPT !.pc = "stripe",
                                            !.sub = row.sub, !.cancel = cancel]]
      BY <1>0, <1>5 DEF StartCancel
    <2>2. CallsTyped'
      <3> DEFINE k == [IdleCall EXCEPT !.pc = "stripe", !.sub = row.sub, !.cancel = cancel]
      <3>1. k \in CallRecord /\ k.pc = "stripe" /\ k.sub = row.sub
        BY <1>0, <1>5, <2>1 DEF CallRecord
      <3>2. call' = [call EXCEPT ![c] = k]
        BY <2>1
      <3> HIDE DEF k
      <3>3. QED
        BY <1>0, <2>1, <3>1, <3>2 DEF TypeInv, CallsTyped
    <2>3. QED
      BY <1>5, <2>2 DEF StartCancel, rows, external, TypeInv, NewsTyped, TablesTyped,
                        OthersTyped
  <1>6. CASE CancelRow(c)
    <2>1. TablesTyped'
      BY <1>6 DEF CancelRow, TypeInv, TablesTyped, RowRecord
    <2>2. call[c].seen \in 0..MaxEvents
      BY <1>0 DEF CallRecord
    <2>3. fresh' \in [row : 0..MaxEvents, user : 0..MaxEvents]
      BY <1>6, <2>2 DEF CancelRow, TypeInv, OthersTyped
    <2>4. CallsTyped'
      BY <1>0, <1>6, NewCalls DEF CancelRow, TypeInv, CallsTyped
    <2>5. misled' \in BOOLEAN
      BY <1>6 DEF CancelRow
    <2>6. QED
      BY <1>6, <2>1, <2>3, <2>4, <2>5 DEF CancelRow, external, TypeInv, NewsTyped, OthersTyped
  <1>7. CASE CallFails(c)
    <2>1. CallsTyped'
      BY <1>0, <1>7, NewCalls DEF CallFails, TypeInv, CallsTyped
    <2>2. QED
      BY <1>7, <2>1 DEF CallFails, Fault, rows, external, TypeInv, NewsTyped, TablesTyped,
                        OthersTyped
  <1>8. QED
    BY <1>1, <1>2, <1>3, <1>4, <1>5, <1>6, <1>7

(* Stripe takes the call's change, or has nothing to change.               *)
LEMMA UpdateKeepsTypes ==
  ASSUME TypeInv, NEW c \in Calls, UpdateStripe(c)
  PROVE  TypeInv'
  <1> DEFINE s == call[c].sub
  <1>0. /\ s \in Subs /\ call[c] \in CallRecord /\ stripe[s] \in StripeRecord
        /\ call[c].cancel \in BOOLEAN
    BY DEF UpdateStripe, TypeInv, CallsTyped, NewsTyped, CallRecord
  <1>1. NewsTyped' /\ Len(events') \in 0..MaxEvents
    <2>1. CASE Emit(s, [stripe[s] EXCEPT !.cancel = call[c].cancel], <<"updated">>)
      <3>1. [stripe[s] EXCEPT !.cancel = call[c].cancel] \in StripeRecord
        BY <1>0, Cancelling
      <3>2. /\ <<"updated">> \in Seq(Types)
            /\ \A k \in 1..Len(<<"updated">>) : <<"updated">>[k] # "checkout"
        BY DEF Types
      <3>3. QED
        BY <1>0, <2>1, <3>1, <3>2, EmitTyped DEF TypeInv
    <2>2. CASE UNCHANGED <<stripe, events, delivery>>
      BY <2>2, EventsCounted DEF TypeInv, NewsTyped
    <2>3. QED
      BY <2>1, <2>2 DEF UpdateStripe
  <1>2. CallsTyped'
    <2>1. stripe[s].state \in States /\ call[c].plan \in Plans \cup {None}
      BY <1>0 DEF StripeRecord, CallRecord
    <2>2. CASE Open(s)
      <3>1. PICK n \in 0..MaxEvents, st \in States :
              call' = [call EXCEPT ![c] = [call[c] EXCEPT !.pc = "row", !.seen = n, !.answer = st]]
        BY <1>1, <2>1, <2>2 DEF UpdateStripe
      <3>2. /\ [call[c] EXCEPT !.pc = "row", !.seen = n, !.answer = st] \in CallRecord
            /\ [call[c] EXCEPT !.pc = "row", !.seen = n, !.answer = st].pc = "row"
            /\ [call[c] EXCEPT !.pc = "row", !.seen = n, !.answer = st].sub = s
        BY <1>0 DEF CallRecord
      <3>3. QED
        BY <1>0, <3>1, <3>2 DEF TypeInv, CallsTyped
    <2>3. CASE ~Open(s)
      <3>1. call' = [call EXCEPT ![c] = EndedCall]
        BY <2>3 DEF UpdateStripe
      <3>2. EndedCall \in CallRecord /\ EndedCall.pc = "done"
        BY NewCalls
      <3>3. QED
        BY <3>1, <3>2 DEF TypeInv, CallsTyped
    <2>4. QED
      BY <2>2, <2>3
  <1>3. QED
    BY <1>1, <1>2 DEF UpdateStripe, rows, TypeInv, TablesTyped, OthersTyped

-----------------------------------------------------------------------------
(* The webhook handlers.                                                   *)

(* An event that is being handled was emitted.                             *)
LEMMA HandledEvent ==
  ASSUME NewsTyped, NEW i \in EventIds, delivery[i] # "none"
  PROVE  /\ i \in 1..Len(events) /\ i \in 1..MaxEvents
         /\ events[i] \in EventRecord
         /\ Sub(i) = events[i].sub /\ Sub(i) \in Subs
         /\ Owner(i) = stripe[Sub(i)].customer /\ Owner(i) \in Customers \cup {None}
         /\ events[i].now \in StripeRecord
  <1>1. i \in 1..Len(events) /\ i \in 1..MaxEvents
    BY LenProperties, NoneIsNothing DEF NewsTyped, EventIds
  <1>2. events[i] \in EventRecord
    BY <1>1, ElementOfSeq DEF NewsTyped
  <1>3. events[i].sub \in Subs /\ events[i].now \in StripeRecord
    BY <1>2 DEF EventRecord
  <1>4. stripe[events[i].sub].customer \in Customers \cup {None}
    BY <1>3 DEF NewsTyped, StripeRecord
  <1>5. QED
    BY <1>1, <1>2, <1>3, <1>4 DEF Sub, Owner

(* A step of a handler that writes no row.                                 *)
LEMMA DeliveryKeepsNews ==
  ASSUME NewsTyped, NEW i \in EventIds, delivery[i] # "none", NEW d \in DeliveryStates,
         delivery' = [delivery EXCEPT ![i] = d], UNCHANGED external,
         d = "row" => events[i].type \in {"checkout", "updated", "deleted"},
         d = "user" => events[i].type \in {"checkout", "deleted"},
         d = "payment" => events[i].type \in {"checkout", "paid", "failed"}
  PROVE  NewsTyped'
  <1>1. stripe' = stripe /\ events' = events
    BY DEF external
  <1>2. \A j \in EventIds : delivery'[j] = IF j = i THEN d ELSE delivery[j]
    BY DEF NewsTyped
  <1>3. QED
    BY <1>1, <1>2 DEF NewsTyped

LEMMA StatusMapped ==
  ASSUME NEW r  PROVE StatusOf(r) \in {"active", "canceled", "expired"}
  BY DEF StatusOf

LEMMA RowFromTyped ==
  ASSUME TypeInv, NEW i \in EventIds, delivery[i] = "row"
  PROVE  RowFrom(i) \in RowRecord
  <1>1. /\ i \in 1..Len(events) /\ Sub(i) = events[i].sub /\ Sub(i) \in Subs
        /\ Owner(i) \in Customers \cup {None}
    BY HandledEvent DEF TypeInv
  <1>2. events[i].type \in {"checkout", "updated", "deleted"}
    BY DEF TypeInv, NewsTyped
  <1>3. events[i].type = "checkout" => events[i].now.plan \in Plans
    BY <1>1 DEF TypeInv, NewsTyped
  <1>4. row \in RowRecord
    BY DEF TypeInv, TablesTyped
  <1>5. CASE events[i].type = "checkout"
    BY <1>1, <1>3, <1>5 DEF RowFrom, RowRecord
  <1>6. CASE events[i].type = "updated"
    BY <1>4, <1>6, StatusMapped DEF RowFrom, RowRecord
  <1>7. CASE events[i].type = "deleted"
    BY <1>4, <1>7 DEF RowFrom, RowRecord
  <1>8. QED
    BY <1>2, <1>5, <1>6, <1>7

LEMMA WriteTyped ==
  ASSUME OthersTyped, NEW i \in 1..MaxEvents, NEW table \in {"row", "user"}, NEW sub,
         Write(i, table, sub)
  PROVE  /\ misled' \in BOOLEAN
         /\ fresh' \in [row : 0..MaxEvents, user : 0..MaxEvents]
  <1>1. misled' \in BOOLEAN
    BY DEF Write
  <1>2. i \in 0..MaxEvents /\ fresh' = [fresh EXCEPT ![table] = i]
    BY NoneIsNothing DEF Write
  <1>3. QED
    BY <1>1, <1>2 DEF OthersTyped

LEMMA HandlersKeepTypes ==
  ASSUME TypeInv, NEW i \in EventIds, Deliver(i) \/ Handle(i) \/ HandlerFails(i)
  PROVE  TypeInv'
  <1>0. delivery \in [EventIds -> DeliveryStates]
    BY DEF TypeInv, NewsTyped
  <1>1. CASE Deliver(i)
    <2>1. /\ FirstStep(i) \in {"payment", "row"}
          /\ delivery[i] = "pending" /\ UNCHANGED external
      BY <1>1 DEF Deliver, FirstStep
    <2>2. events[i].type \in Types
      BY <2>1, HandledEvent DEF TypeInv, EventRecord, Types
    <2>3. NewsTyped'
      BY <1>1, <2>1, <2>2, DeliveryKeepsNews DEF Deliver, FirstStep, TypeInv, DeliveryStates, Types
    <2>4. QED
      BY <1>1, <2>3 DEF Deliver, rows, external, TypeInv, CallsTyped, TablesTyped, OthersTyped
  <1>2. CASE UpdateRow(i)
    <2>1. delivery[i] = "row" /\ i \in 1..MaxEvents /\ UNCHANGED external
          /\ events[i].type \in {"checkout", "updated", "deleted"}
      BY <1>2, HandledEvent DEF UpdateRow, TypeInv, NewsTyped
    <2>2. row' \in RowRecord
      BY <1>2, <2>1, RowFromTyped DEF UpdateRow
    <2>3. misled' \in BOOLEAN /\ fresh' \in [row : 0..MaxEvents, user : 0..MaxEvents]
      BY <1>2, <2>1, WriteTyped DEF UpdateRow, TypeInv
    <2>4. NewsTyped'
      BY <1>2, <2>1, DeliveryKeepsNews DEF UpdateRow, TypeInv, DeliveryStates
    <2>5. QED
      BY <1>2, <2>2, <2>3, <2>4 DEF UpdateRow, external, TypeInv, CallsTyped, TablesTyped,
                                    OthersTyped
  <1>3. CASE UpdateUser(i)
    <2>1. /\ delivery[i] = "user" /\ i \in 1..MaxEvents /\ UNCHANGED external
          /\ events[i].type \in {"checkout", "deleted"}
          /\ Sub(i) \in Subs /\ Owner(i) \in Customers \cup {None}
          /\ i \in 1..Len(events)
      BY <1>3, HandledEvent DEF UpdateUser, TypeInv, NewsTyped
    <2>2. user' \in UserRecord
      BY <1>3, <2>1 DEF UpdateUser, TypeInv, NewsTyped, TablesTyped, UserRecord
    <2>3. misled' \in BOOLEAN /\ fresh' \in [row : 0..MaxEvents, user : 0..MaxEvents]
      BY <1>3, <2>1, WriteTyped DEF UpdateUser, TypeInv
    <2>4. NewsTyped'
      BY <1>3, <2>1, DeliveryKeepsNews DEF UpdateUser, TypeInv, DeliveryStates
    <2>5. QED
      BY <1>3, <2>2, <2>3, <2>4 DEF UpdateUser, external, TypeInv, CallsTyped, TablesTyped,
                                    OthersTyped
  <1>4. CASE InsertPayment(i) \/ Respond(i) \/ HandlerFails(i)
    <2>1. PICK d \in {"pending", "respond", "acked"} :
            delivery' = [delivery EXCEPT ![i] = d]
      BY <1>4 DEF InsertPayment, Respond, HandlerFails
    <2>2. delivery[i] # "none" /\ UNCHANGED external
      BY <1>4 DEF InsertPayment, Respond, HandlerFails, Working
    <2>3. NewsTyped'
      BY <2>1, <2>2, DeliveryKeepsNews DEF TypeInv, DeliveryStates
    <2>4. QED
      BY <1>4, <2>3 DEF InsertPayment, Respond, HandlerFails, Fault, rows, external, TypeInv,
                        CallsTyped, TablesTyped, OthersTyped
  <1>5. QED
    BY <1>1, <1>2, <1>3, <1>4 DEF Handle

LEMMA TypeStep ==
  ASSUME TypeInv, [Next]_vars
  PROVE  TypeInv'
  <1>1. ASSUME NEW s \in Subs,
               PayCheckout(s) \/ Renew(s) \/ ChargeFails(s) \/ End(s) \/ PortalCancel(s)
        PROVE  TypeInv'
    <2>1. /\ \E r \in StripeRecord, types \in Seq(Types) : IsChange(s, r, types)
          /\ sessions' \subseteq sessions
          /\ UNCHANGED <<rows, customers, call, fresh, misled, faults>>
      BY <1>1, StripeSteps
    <2>2. NewsTyped'
      BY <2>1, EmitTyped DEF IsChange, TypeInv
    <2>3. QED
      BY <2>1, <2>2 DEF rows, TypeInv, CallsTyped, TablesTyped, OthersTyped
  <1>2. ASSUME NEW c \in Calls, UpdateStripe(c)  PROVE TypeInv'
    BY <1>2, UpdateKeepsTypes
  <1>3. ASSUME NEW c \in Calls,
               \/ StartCheckout(c) \/ CreateCustomer(c) \/ AttachCustomer(c)
               \/ CreateSession(c) \/ StartCancel(c, TRUE) \/ StartCancel(c, FALSE)
               \/ CancelRow(c) \/ CallFails(c)
        PROVE  TypeInv'
    BY <1>3, CallsKeepTypes
  <1>4. ASSUME NEW i \in EventIds, Deliver(i) \/ Handle(i) \/ HandlerFails(i)
        PROVE  TypeInv'
    BY <1>4, HandlersKeepTypes
  <1>5. CASE UNCHANGED vars
    BY <1>5 DEF vars, rows, external, TypeInv, NewsTyped, CallsTyped, TablesTyped, OthersTyped
  <1>6. QED
    BY <1>1, <1>2, <1>3, <1>4, <1>5 DEF Next

LEMMA TypeInit == Init => TypeInv
  <1> SUFFICES ASSUME Init PROVE TypeInv
    OBVIOUS
  <1>1. NewsTyped
    <2>1. <<>> \in Seq(EventRecord) /\ Len(<<>>) = 0
      BY EmptySeq
    <2>2. [state |-> "none", cancel |-> FALSE, plan |-> None, customer |-> None]
            \in StripeRecord
      BY DEF StripeRecord, States
    <2>3. stripe \in [Subs -> StripeRecord]
      BY <2>2 DEF Init
    <2>4. delivery \in [EventIds -> DeliveryStates] /\ \A i \in EventIds : delivery[i] = "none"
      BY DEF Init, DeliveryStates
    <2>5. events \in Seq(EventRecord) /\ Len(events) = 0 /\ Len(events) <= MaxEvents
      BY <2>1, NoneIsNothing DEF Init
    <2>6. QED
      BY <2>3, <2>4, <2>5 DEF NewsTyped
  <1>2. CallsTyped
    BY NewCalls DEF Init, CallsTyped
  <1>3. TablesTyped /\ OthersTyped
    <2>1. row \in RowRecord /\ user \in UserRecord /\ payments \subseteq EventIds
      BY DEF Init, RowRecord, UserRecord
    <2>2. fresh \in [row : 0..MaxEvents, user : 0..MaxEvents] /\ customers \in 0..MaxCustomers
      BY NoneIsNothing DEF Init
    <2>3. sessions \subseteq [customer : Customers, plan : Plans]
          /\ misled \in BOOLEAN /\ faults \in Nat
      BY DEF Init
    <2>4. QED
      BY <2>1, <2>2, <2>3 DEF TablesTyped, OthersTyped
  <1>4. QED
    BY <1>1, <1>2, <1>3 DEF TypeInv

LEMMA TypeHolds == Spec => []TypeInv
  <1>1. TypeInv /\ [Next]_vars => TypeInv'
    BY TypeStep
  <1>2. QED
    BY <1>1, TypeInit, PTL DEF Spec

(* Every reachable state is well typed: whatever the order of the events,  *)
(* no handler stores a status, a plan or a subscription that is not one.   *)
THEOREM TypeCorrect == Spec => []TypeOK
  <1>1. TypeInv => TypeOK
    BY DEF TypeInv, NewsTyped, CallsTyped, TablesTyped, OthersTyped, TypeOK
  <1>2. QED
    BY <1>1, TypeHolds, PTL

-----------------------------------------------------------------------------
(* What the events say.  Of each subscription a checkout comes first and   *)
(* an end last; its latest news for the row is what Stripe has.            *)

IsRowNews(i) == events[i].type \in RowTypes
IsUserNews(i) == events[i].type \in {"checkout", "deleted"}
Starts(i, s) == events[i].type = "checkout" /\ events[i].sub = s
Ends(i, s) == events[i].type = "deleted" /\ events[i].sub = s

(* Event e is the latest news that the row could have of s at event n.     *)
Latest(e, s, n) ==
  /\ e \in 1..Len(events) /\ e <= n
  /\ IsRowNews(e) /\ events[e].sub = s
  /\ \A j \in 1..Len(events) :
       j <= n /\ IsRowNews(j) /\ events[j].sub = s => j <= e

Told ==
  \A i \in 1..Len(events) :
    /\ delivery[i] # "none"
    /\ stripe[events[i].sub].state # "none"
    /\ events[i].now.plan = stripe[events[i].sub].plan
    /\ events[i].type = "checkout" =>
         events[i].now.state = "live" /\ events[i].now.cancel = FALSE

InOrder ==
  \A i, j \in 1..Len(events) :
    events[i].sub = events[j].sub =>
      /\ events[i].type = "checkout" => i <= j
      /\ events[j].type = "deleted" => i <= j

Complete ==
  \A s \in Subs :
    /\ stripe[s].state # "none" =>
         /\ \E i \in 1..Len(events) : Starts(i, s)
         /\ \E e \in 1..Len(events) :
              Latest(e, s, Len(events)) /\ events[e].now = stripe[s]
    /\ stripe[s].state = "ended" <=> \E i \in 1..Len(events) : Ends(i, s)

LastIsNoCheckout ==
  Len(events) > 0 => events[Len(events)].type # "checkout"

NewsInv == Told /\ InOrder /\ Complete /\ LastIsNoCheckout

LEMMA EventTyped ==
  ASSUME NewsTyped, NEW i \in 1..Len(events)
  PROVE  /\ i \in EventIds /\ i \in Nat /\ i <= Len(events)
         /\ events[i] \in EventRecord /\ events[i].sub \in Subs
         /\ events[i].now \in StripeRecord
  <1>1. Len(events) \in Nat /\ events[i] \in EventRecord
    BY LenProperties, ElementOfSeq DEF NewsTyped
  <1>2. i \in EventIds
    BY <1>1, NoneIsNothing DEF NewsTyped, EventIds
  <1>3. QED
    BY <1>1, <1>2 DEF EventRecord

(* After a change an event is an earlier one or one of its own.            *)
LEMMA OldOrNew ==
  ASSUME NewsTyped, NEW s \in Subs, NEW r \in StripeRecord, NEW types \in Seq(Types),
         Emit(s, r, types)
  PROVE  /\ Len(events) \in Nat /\ Len(types) \in Nat
         /\ Len(events') = Len(events) + Len(types) /\ Len(events') <= MaxEvents
         /\ \A i \in 1..Len(events) : i \in 1..Len(events') /\ events'[i] = events[i]
         /\ \A i \in 1..Len(events') :
              \/ i \in 1..Len(events)
              \/ /\ i > Len(events) /\ i - Len(events) \in 1..Len(types)
                 /\ events'[i].type = types[i - Len(events)]
                 /\ events'[i].sub = s /\ events'[i].now = r
         /\ \A k \in 1..Len(types) :
              /\ Len(events) + k \in 1..Len(events')
              /\ events'[Len(events) + k].type = types[k]
              /\ events'[Len(events) + k].sub = s /\ events'[Len(events) + k].now = r
  <1>1. /\ Len(events) \in Nat /\ Len(types) \in Nat
        /\ Len(events') = Len(events) + Len(types) /\ Len(events') <= MaxEvents
        /\ \A i \in 1..Len(events) : events'[i] = events[i]
        /\ \A k \in 1..Len(types) :
             events'[Len(events) + k] = [type |-> types[k], sub |-> s, now |-> r]
    BY Emitted DEF NewsTyped
  <1>2. ASSUME NEW k \in 1..Len(types)
        PROVE  /\ Len(events) + k \in 1..Len(events')
               /\ events'[Len(events) + k].type = types[k]
               /\ events'[Len(events) + k].sub = s /\ events'[Len(events) + k].now = r
    <2>1. events'[Len(events) + k] = [type |-> types[k], sub |-> s, now |-> r]
      BY <1>1
    <2>2. Len(events) + k \in 1..Len(events')
      BY <1>1
    <2>3. QED
      BY <2>1, <2>2
  <1>3. ASSUME NEW i \in 1..Len(events'), i \notin 1..Len(events)
        PROVE  /\ i > Len(events) /\ i - Len(events) \in 1..Len(types)
               /\ events'[i].type = types[i - Len(events)]
               /\ events'[i].sub = s /\ events'[i].now = r
    <2>1. i > Len(events) /\ i - Len(events) \in 1..Len(types)
      BY <1>1, <1>3
    <2>2. PICK k \in 1..Len(types) : k = i - Len(events)
      BY <2>1
    <2>3. i = Len(events) + k
      BY <1>1, <2>2
    <2>4. QED
      BY <1>2, <2>1, <2>2, <2>3
  <1>4. \A i \in 1..Len(events) : i \in 1..Len(events')
    BY <1>1
  <1>5. \A i \in 1..Len(events') :
          \/ i \in 1..Len(events)
          \/ /\ i > Len(events) /\ i - Len(events) \in 1..Len(types)
             /\ events'[i].type = types[i - Len(events)]
             /\ events'[i].sub = s /\ events'[i].now = r
    BY <1>3
  <1>6. QED
    BY <1>1, <1>2, <1>4, <1>5

LEMMA ChangeKeepsNews ==
  ASSUME NewsTyped, NewsInv, NEW s \in Subs, NEW r \in StripeRecord,
         NEW types \in Seq(Types), IsChange(s, r, types)
  PROVE  NewsInv'
  <1> DEFINE n == Len(events)
             n1 == Len(events')
             m == Len(types)
             Old(i) == i \in 1..n
             New(i) == /\ i > n /\ i - n \in 1..m
                       /\ events'[i].type = types[i - n]
                       /\ events'[i].sub = s /\ events'[i].now = r
  <1>1. /\ n \in Nat /\ m \in Nat /\ n1 = n + m /\ n1 <= MaxEvents
        /\ \A i \in 1..n : i \in 1..n1 /\ events'[i] = events[i]
        /\ \A i \in 1..n1 : Old(i) \/ New(i)
        /\ \A k \in 1..m : /\ n + k \in 1..n1 /\ events'[n + k].type = types[k]
                           /\ events'[n + k].sub = s /\ events'[n + k].now = r
    BY OldOrNew DEF IsChange
  <1>2. /\ \A i \in 1..n : events[i].sub \in Subs
        /\ stripe' = [stripe EXCEPT ![s] = r] /\ stripe'[s] = r
        /\ \A q \in Subs : q # s => stripe'[q] = stripe[q]
    BY EventTyped DEF IsChange, Emit, NewsTyped
  <1>3. /\ m >= 1 /\ types[m] # "checkout" /\ r.state # "none"
        /\ stripe[s].state # "ended"
        /\ \A k \in 1..m :
             /\ types[k] = "checkout" =>
                  k = 1 /\ stripe[s].state = "none" /\ r.state = "live" /\ r.cancel = FALSE
             /\ types[k] = "deleted" => k = m
        /\ stripe[s].state = "none" => types[1] = "checkout"
        /\ stripe[s].state # "none" => r.plan = stripe[s].plan
    BY DEF IsChange
  <1>4. /\ r.state = "ended" <=> \E k \in 1..m : types[k] = "deleted"
        /\ \E k \in 1..m :
             types[k] \in RowTypes /\ \A j \in 1..m : types[j] \in RowTypes => j <= k
    BY DEF IsChange
  <1>5. \A i \in 1..n : events[i].sub = s =>
          stripe[s].state \notin {"none", "ended"} /\ events[i].type # "deleted"
    BY <1>3 DEF NewsInv, Told, Complete, Ends
  <1>6. Told'
    <2> SUFFICES ASSUME NEW i \in 1..n1
                 PROVE  /\ delivery'[i] # "none"
                        /\ stripe'[events'[i].sub].state # "none"
                        /\ events'[i].now.plan = stripe'[events'[i].sub].plan
                        /\ events'[i].type = "checkout" =>
                             events'[i].now.state = "live" /\ events'[i].now.cancel = FALSE
      BY DEF Told
    <2>1. i \in EventIds /\ delivery'[i] = IF i \in (n + 1)..(n + m) THEN "pending" ELSE delivery[i]
      BY <1>1, NoneIsNothing DEF EventIds, IsChange, Emit
    <2>2. CASE Old(i)
      <3>1. /\ delivery[i] # "none" /\ stripe[events[i].sub].state # "none"
            /\ events[i].now.plan = stripe[events[i].sub].plan
            /\ events[i].type = "checkout" =>
                 events[i].now.state = "live" /\ events[i].now.cancel = FALSE
        BY <2>2 DEF NewsInv, Told
      <3>2. delivery'[i] = delivery[i] /\ events'[i] = events[i]
        BY <1>1, <2>1, <2>2
      <3>3. CASE events[i].sub = s
        BY <1>2, <1>3, <2>2, <3>1, <3>2, <3>3
      <3>4. CASE events[i].sub # s
        BY <1>2, <2>2, <3>1, <3>2, <3>4
      <3>5. QED
        BY <3>3, <3>4
    <2>3. CASE New(i)
      BY <1>1, <1>2, <1>3, <2>1, <2>3
    <2>4. QED
      BY <1>1, <2>2, <2>3
  <1>7. InOrder'
    <2> SUFFICES ASSUME NEW i \in 1..n1, NEW j \in 1..n1, events'[i].sub = events'[j].sub
                 PROVE  /\ events'[i].type = "checkout" => i <= j
                        /\ events'[j].type = "deleted" => i <= j
      BY DEF InOrder
    <2>1. CASE Old(i) /\ Old(j)
      BY <1>1, <2>1 DEF NewsInv, InOrder
    <2>2. CASE New(i) /\ Old(j)
      <3>1. events[j].sub = s /\ events'[j] = events[j]
        BY <1>1, <2>2
      <3>2. stripe[s].state # "none" /\ events[j].type # "deleted"
        BY <1>5, <2>2, <3>1
      <3>3. QED
        BY <1>3, <2>2, <3>1, <3>2
    <2>3. CASE Old(i) /\ New(j)
      BY <1>1, <2>3
    <2>4. CASE New(i) /\ New(j)
      BY <1>1, <1>3, <2>4
    <2>5. QED
      BY <1>1, <2>1, <2>2, <2>3, <2>4
  <1>8. Complete'
    <2> SUFFICES ASSUME NEW q \in Subs
                 PROVE  /\ stripe'[q].state # "none" =>
                             /\ \E i \in 1..n1 : Starts(i, q)'
                             /\ \E e \in 1..n1 : Latest(e, q, Len(events))'
                                                 /\ events'[e].now = stripe'[q]
                        /\ stripe'[q].state = "ended" <=> \E i \in 1..n1 : Ends(i, q)'
      BY DEF Complete
    <2>1. CASE q # s
      <3>1. stripe'[q] = stripe[q]
        BY <1>2, <2>1
      <3>2. \A i \in 1..n1 : events'[i].sub = q => Old(i)
        BY <1>1, <2>1
      <3>3. ASSUME stripe[q].state # "none"
            PROVE  /\ \E i \in 1..n1 : Starts(i, q)'
                   /\ \E e \in 1..n1 : Latest(e, q, Len(events))'
                                       /\ events'[e].now = stripe'[q]
        <4>1. PICK i \in 1..n : Starts(i, q)
          BY <3>3 DEF NewsInv, Complete
        <4>2. PICK e \in 1..n : Latest(e, q, n) /\ events[e].now = stripe[q]
          BY <3>3 DEF NewsInv, Complete
        <4>3. Starts(i, q)'
          BY <1>1, <4>1 DEF Starts
        <4>4. Latest(e, q, Len(events))'
          BY <1>1, <3>2, <4>2 DEF Latest, IsRowNews
        <4>5. QED
          BY <1>1, <3>1, <4>2, <4>3, <4>4
      <3>4. (\E i \in 1..n1 : Ends(i, q)') <=> (\E i \in 1..n : Ends(i, q))
        BY <1>1, <3>2 DEF Ends
      <3>5. QED
        BY <3>1, <3>3, <3>4 DEF NewsInv, Complete
    <2>2. CASE q = s
      <3>1. \E i \in 1..n1 : Starts(i, q)'
        <4>1. CASE stripe[s].state = "none"
          <5>1. 1 \in 1..m /\ types[1] = "checkout"
            BY <1>1, <1>3, <4>1
          <5>2. /\ n + 1 \in 1..n1 /\ events'[n + 1].type = "checkout"
                /\ events'[n + 1].sub = s
            BY <1>1, <5>1
          <5>3. QED
            BY <2>2, <5>2 DEF Starts
        <4>2. CASE stripe[s].state # "none"
          <5>1. PICK i \in 1..n : Starts(i, s)
            BY <4>2 DEF NewsInv, Complete
          <5>2. QED
            BY <1>1, <2>2, <5>1 DEF Starts
        <4>3. QED
          BY <4>1, <4>2
      <3>2. \E e \in 1..n1 : Latest(e, q, Len(events))' /\ events'[e].now = stripe'[q]
        <4>1. PICK k \in 1..m :
                types[k] \in RowTypes /\ \A j \in 1..m : types[j] \in RowTypes => j <= k
          BY <1>4
        <4>2. PICK e \in 1..n1 :
                /\ e = n + k /\ events'[e].type = types[k]
                /\ events'[e].sub = s /\ events'[e].now = r
          BY <1>1
        <4>3. ASSUME NEW j \in 1..n1, events'[j].type \in RowTypes  PROVE j <= e
          <5>1. CASE Old(j)
            BY <1>1, <4>2, <5>1
          <5>2. CASE New(j)
            <6>1. j - n \in 1..m /\ types[j - n] \in RowTypes
              BY <4>3, <5>2
            <6>2. j - n <= k
              BY <4>1, <6>1
            <6>3. QED
              BY <1>1, <4>2, <6>2
          <5>3. QED
            BY <1>1, <5>1, <5>2
        <4>4. e <= n1
          BY <1>1
        <4>5. Latest(e, q, Len(events))'
          BY <2>2, <4>1, <4>2, <4>3, <4>4 DEF Latest, IsRowNews
        <4>6. events'[e].now = stripe'[q]
          BY <1>2, <2>2, <4>2
        <4>7. QED
          BY <4>5, <4>6
      <3>3. (\E i \in 1..n1 : Ends(i, q)') <=> \E k \in 1..m : types[k] = "deleted"
        <4>1. ASSUME NEW i \in 1..n1, Ends(i, s)'  PROVE \E k \in 1..m : types[k] = "deleted"
          <5>1. ~Old(i)
            BY <1>1, <1>5, <4>1 DEF Ends
          <5>2. New(i) /\ events'[i].type = "deleted"
            BY <1>1, <4>1, <5>1 DEF Ends
          <5>3. QED
            BY <5>2
        <4>2. ASSUME NEW k \in 1..m, types[k] = "deleted"  PROVE \E i \in 1..n1 : Ends(i, s)'
          BY <1>1, <4>2 DEF Ends
        <4>3. QED
          BY <2>2, <4>1, <4>2
      <3>4. QED
        BY <1>2, <1>4, <2>2, <3>1, <3>2, <3>3
    <2>3. QED
      BY <2>1, <2>2
  <1>9. LastIsNoCheckout'
    <2>1. n1 = n + m /\ events'[n1].type = types[m]
      BY <1>1, <1>3
    <2>2. QED
      BY <1>3, <2>1 DEF LastIsNoCheckout
  <1>10. QED
    BY <1>6, <1>7, <1>8, <1>9 DEF NewsInv

(* No other step says or unsays anything.                                  *)
LEMMA NewsKept ==
  ASSUME NewsTyped, NewsInv, UNCHANGED <<stripe, events>>,
         \A i \in EventIds : delivery[i] # "none" => delivery'[i] # "none"
  PROVE  NewsInv'
  <1>1. Told'
    BY EventTyped DEF NewsInv, Told
  <1>2. InOrder' /\ Complete' /\ LastIsNoCheckout'
    BY DEF NewsInv, InOrder, Complete, LastIsNoCheckout, Starts, Ends, Latest, IsRowNews
  <1>3. QED
    BY <1>1, <1>2 DEF NewsInv

(* A dashboard call that reaches Stripe changes the subscription, or finds *)
(* nothing to change.                                                      *)
LEMMA CallChanges ==
  ASSUME TypeInv, NEW c \in Calls, UpdateStripe(c)
  PROVE  \/ \E s \in Subs, r \in StripeRecord, types \in Seq(Types) : IsChange(s, r, types)
         \/ UNCHANGED <<stripe, events, delivery>>
  <1> DEFINE s == call[c].sub
             r == [stripe[s] EXCEPT !.cancel = call[c].cancel]
  <1>1. /\ s \in Subs /\ call[c] \in CallRecord /\ stripe[s] \in StripeRecord
        /\ call[c].cancel \in BOOLEAN
    BY DEF UpdateStripe, TypeInv, CallsTyped, NewsTyped, CallRecord
  <1>2. CASE Open(s) /\ Emit(s, r, <<"updated">>)
    <2>1. IsChange(s, r, <<"updated">>)
      BY <1>1, <1>2, CancelIsChange
    <2>2. r \in StripeRecord
      BY <1>1, Cancelling
    <2>3. <<"updated">> \in Seq(Types)
      BY DEF Types
    <2>4. QED
      BY <1>1, <2>1, <2>2, <2>3
  <1>3. QED
    BY <1>2 DEF UpdateStripe

(* What a step of a webhook handler does to the deliveries.                *)
LEMMA HandlerMoves ==
  ASSUME TypeInv, NEW i \in EventIds, Deliver(i) \/ Handle(i) \/ HandlerFails(i)
  PROVE  /\ delivery[i] # "none" /\ UNCHANGED <<external, call>>
         /\ \E d \in DeliveryStates \ {"none"} : delivery' = [delivery EXCEPT ![i] = d]
         /\ \A j \in EventIds : delivery[j] # "none" => delivery'[j] # "none"
  <1>1. PICK d \in DeliveryStates \ {"none"} : delivery' = [delivery EXCEPT ![i] = d]
    BY DEF Deliver, Handle, HandlerFails, UpdateRow, UpdateUser, InsertPayment, Respond,
           FirstStep, DeliveryStates
  <1>2. delivery[i] # "none" /\ UNCHANGED <<external, call>>
    BY DEF Deliver, Handle, HandlerFails, UpdateRow, UpdateUser, InsertPayment, Respond, Working
  <1>3. \A j \in EventIds : delivery[j] # "none" => delivery'[j] # "none"
    BY <1>1 DEF TypeInv, NewsTyped
  <1>4. QED
    BY <1>1, <1>2, <1>3

OtherCall(c) ==
  \/ StartCheckout(c) \/ CreateCustomer(c) \/ AttachCustomer(c)
  \/ CreateSession(c) \/ StartCancel(c, TRUE) \/ StartCancel(c, FALSE)
  \/ CancelRow(c) \/ CallFails(c)

LEMMA OtherCallsSayNothing ==
  ASSUME NEW c \in Calls, OtherCall(c)
  PROVE  UNCHANGED <<stripe, events, delivery>>
  BY DEF OtherCall, StartCheckout, CreateCustomer, AttachCustomer, CreateSession, StartCancel,
         CancelRow, CallFails, external

LEMMA NewsStep ==
  ASSUME TypeInv, NewsInv, [Next]_vars
  PROVE  NewsInv'
  <1>0. NewsTyped
    BY DEF TypeInv
  <1>1. ASSUME NEW s \in Subs,
               PayCheckout(s) \/ Renew(s) \/ ChargeFails(s) \/ End(s) \/ PortalCancel(s)
        PROVE  NewsInv'
    BY <1>0, <1>1, StripeSteps, ChangeKeepsNews
  <1>2. ASSUME NEW c \in Calls, UpdateStripe(c)  PROVE NewsInv'
    <2>1. CASE \E s \in Subs, r \in StripeRecord, types \in Seq(Types) : IsChange(s, r, types)
      BY <1>0, <2>1, ChangeKeepsNews
    <2>2. CASE UNCHANGED <<stripe, events, delivery>>
      BY <1>0, <2>2, NewsKept
    <2>3. QED
      BY <1>2, <2>1, <2>2, CallChanges
  <1>3. ASSUME NEW c \in Calls, OtherCall(c)  PROVE NewsInv'
    BY <1>0, <1>3, OtherCallsSayNothing, NewsKept
  <1>4. ASSUME NEW i \in EventIds, Deliver(i) \/ Handle(i) \/ HandlerFails(i)
        PROVE  NewsInv'
    BY <1>0, <1>4, HandlerMoves, NewsKept DEF external
  <1>5. CASE UNCHANGED vars
    BY <1>0, <1>5, NewsKept DEF vars, external
  <1>6. QED
    BY <1>1, <1>2, <1>3, <1>4, <1>5 DEF Next, OtherCall

LEMMA NewsInit == Init => NewsInv
  <1> SUFFICES ASSUME Init PROVE NewsInv
    OBVIOUS
  <1>1. events = <<>> /\ Len(events) = 0 /\ \A s \in Subs : stripe[s].state = "none"
    BY EmptySeq DEF Init
  <1>2. Told /\ InOrder /\ LastIsNoCheckout
    BY <1>1 DEF Told, InOrder, LastIsNoCheckout
  <1>3. Complete
    BY <1>1 DEF Complete
  <1>4. QED
    BY <1>2, <1>3 DEF NewsInv

-----------------------------------------------------------------------------
(* The customers.  The row gets its customer before there is a session and *)
(* so before any subscription; unless a second call overwrites it, which   *)
(* misleads and takes a second customer, all belong to that one.           *)

Made(k) == k \in Customers /\ k <= customers

CustomersMade ==
  /\ row.customer # None => Made(row.customer)
  /\ \A c \in Calls : call[c].pc \in {"attach", "session"} => Made(call[c].customer)
  /\ \A t \in sessions : Made(t.customer)
  /\ \A s \in Subs : stripe[s].state # "none" => Made(stripe[s].customer)

RowHasCustomer ==
  row.customer = None =>
    /\ sessions = {}
    /\ \A c \in Calls : call[c].pc # "session"
    /\ \A s \in Subs : stripe[s].state = "none"

OneCustomer ==
  /\ \A c \in Calls : call[c].pc = "session" => call[c].customer = row.customer
  /\ \A t \in sessions : t.customer = row.customer
  /\ \A s \in Subs : stripe[s].state # "none" => stripe[s].customer = row.customer

CustomerInv == CustomersMade /\ RowHasCustomer /\ (~misled => OneCustomer)

LEMMA CustomersKept ==
  ASSUME CustomerInv, row'.customer = row.customer, UNCHANGED <<customers, sessions, stripe>>,
         misled => misled',
         \A c \in Calls : call'[c] = call[c] \/ call'[c].pc \notin {"attach", "session"}
  PROVE  CustomerInv'
  <1>1. CustomersMade'
    BY DEF CustomerInv, CustomersMade, Made
  <1>2. RowHasCustomer'
    BY DEF CustomerInv, RowHasCustomer
  <1>3. ~misled' => OneCustomer'
    BY DEF CustomerInv, OneCustomer
  <1>4. QED
    BY <1>1, <1>2, <1>3 DEF CustomerInv

LEMMA ChangeKeepsCustomers ==
  ASSUME TypeInv, CustomerInv, NEW s \in Subs, NEW r \in StripeRecord,
         NEW types \in Seq(Types), IsChange(s, r, types), sessions' \subseteq sessions,
         UNCHANGED <<row, customers, misled>>,
         \A c \in Calls : call'[c] = call[c] \/ call'[c].pc \notin {"attach", "session"}
  PROVE  CustomerInv'
  <1>1. \A q \in Subs : stripe'[q] = IF q = s THEN r ELSE stripe[q]
    BY DEF IsChange, Emit, TypeInv, NewsTyped
  <1>2. /\ stripe[s].state = "none" => \E t \in sessions : r.customer = t.customer
        /\ stripe[s].state # "none" => r.customer = stripe[s].customer
    BY DEF IsChange
  <1>3. row.customer # None /\ Made(r.customer) /\ (~misled => r.customer = row.customer)
    <2>1. CASE stripe[s].state = "none"
      BY <1>2, <2>1 DEF CustomerInv, CustomersMade, RowHasCustomer, OneCustomer
    <2>2. CASE stripe[s].state # "none"
      BY <1>2, <2>2 DEF CustomerInv, CustomersMade, RowHasCustomer, OneCustomer
    <2>3. QED
      BY <2>1, <2>2
  <1>4. CustomersMade'
    BY <1>1, <1>3 DEF CustomerInv, CustomersMade, Made
  <1>5. RowHasCustomer'
    BY <1>3 DEF RowHasCustomer
  <1>6. ~misled' => OneCustomer'
    BY <1>1, <1>3 DEF CustomerInv, OneCustomer
  <1>7. QED
    BY <1>4, <1>5, <1>6 DEF CustomerInv

LEMMA CallsKeepCustomers ==
  ASSUME TypeInv, CustomerInv, NEW c \in Calls, OtherCall(c)
  PROVE  CustomerInv'
  <1>0. /\ call \in [Calls -> CallRecord] /\ call[c] \in CallRecord
        /\ row.customer \in Customers \cup {None} /\ customers \in Nat
        /\ EndedCall.pc = "done" /\ IdleCall \in CallRecord
        /\ stripe' = stripe
    BY NewCalls, NoneIsNothing, OtherCallsSayNothing
       DEF TypeInv, CallsTyped, TablesTyped, OthersTyped, RowRecord
  <1>1. CASE StartCheckout(c)
    <2>1. PICK p \in Plans :
            call' = [call EXCEPT ![c] = [IdleCall EXCEPT !.plan = p,
              !.pc = IF row.customer = None THEN "create" ELSE "session",
              !.customer = row.customer]]
      BY <1>1 DEF StartCheckout
    <2>2. /\ \A d \in Calls : d # c => call'[d] = call[d]
          /\ call'[c].pc = IF row.customer = None THEN "create" ELSE "session"
          /\ call'[c].customer = row.customer
      BY <1>0, <2>1 DEF CallRecord
    <2>3. UNCHANGED <<row, customers, sessions, stripe, misled>>
      BY <1>1 DEF StartCheckout, rows, external
    <2>4. CustomersMade'
      BY <2>2, <2>3 DEF CustomerInv, CustomersMade, Made
    <2>5. RowHasCustomer'
      BY <2>2, <2>3 DEF CustomerInv, RowHasCustomer
    <2>6. ~misled' => OneCustomer'
      BY <2>2, <2>3 DEF CustomerInv, OneCustomer
    <2>7. QED
      BY <2>4, <2>5, <2>6 DEF CustomerInv
  <1>2. CASE CreateCustomer(c)
    <2>1. /\ customers' = customers + 1 /\ customers < MaxCustomers
          /\ UNCHANGED <<row, sessions, stripe, misled>>
      BY <1>2 DEF CreateCustomer, rows
    <2>2. /\ \A d \in Calls : d # c => call'[d] = call[d]
          /\ call'[c].pc = "attach" /\ call'[c].customer = customers + 1
      BY <1>0, <1>2 DEF CreateCustomer, CallRecord
    <2>3. \A k \in Customers : k <= customers => k <= customers'
      BY <1>0, <2>1, NoneIsNothing DEF Customers
    <2>4. customers + 1 \in Customers /\ customers + 1 <= customers'
      BY <1>0, <2>1, NoneIsNothing DEF Customers
    <2>5. CustomersMade'
      BY <2>1, <2>2, <2>3, <2>4 DEF CustomerInv, CustomersMade, Made
    <2>6. RowHasCustomer'
      BY <2>1, <2>2 DEF CustomerInv, RowHasCustomer
    <2>7. ~misled' => OneCustomer'
      BY <2>1, <2>2 DEF CustomerInv, OneCustomer
    <2>8. QED
      BY <2>5, <2>6, <2>7 DEF CustomerInv
  <1>3. CASE AttachCustomer(c)
    <2>1. /\ Made(call[c].customer) /\ call[c].customer # None
          /\ misled' = (misled \/ row.customer # None)
          /\ UNCHANGED <<customers, sessions, stripe>>
      BY <1>3, NoneIsNothing DEF AttachCustomer, external, CustomerInv, CustomersMade, Made
    <2>2. /\ \A d \in Calls : d # c => call'[d] = call[d]
          /\ call'[c].pc = "session" /\ call'[c].customer = call[c].customer
          /\ row'.customer = call[c].customer
      BY <1>0, <1>3 DEF AttachCustomer, CallRecord, TypeInv, TablesTyped, RowRecord
    <2>3. CustomersMade'
      BY <2>1, <2>2 DEF CustomerInv, CustomersMade, Made
    <2>4. RowHasCustomer'
      BY <2>1, <2>2 DEF RowHasCustomer
    <2>5. ASSUME ~misled'  PROVE OneCustomer'
      <3>1. /\ sessions = {} /\ (\A d \in Calls : call[d].pc # "session")
            /\ \A s \in Subs : stripe[s].state = "none"
        BY <2>1, <2>5 DEF CustomerInv, RowHasCustomer
      <3>2. QED
        BY <2>1, <2>2, <3>1 DEF OneCustomer
    <2>6. QED
      BY <2>3, <2>4, <2>5 DEF CustomerInv
  <1>4. CASE CreateSession(c)
    <2> DEFINE t == [customer |-> call[c].customer, plan |-> call[c].plan]
    <2>1. /\ sessions' = sessions \cup {t} /\ t.customer = call[c].customer
          /\ call[c].pc = "session" /\ UNCHANGED <<row, customers, stripe, misled>>
          /\ \A d \in Calls : call'[d] = call[d] \/ call'[d].pc = "done"
      BY <1>0, <1>4 DEF CreateSession, rows
    <2> HIDE DEF t
    <2>2. row.customer # None
      BY <2>1 DEF CustomerInv, RowHasCustomer
    <2>3. CustomersMade'
      BY <2>1 DEF CustomerInv, CustomersMade, Made
    <2>4. RowHasCustomer'
      BY <2>1, <2>2 DEF RowHasCustomer
    <2>5. ~misled' => OneCustomer'
      BY <2>1 DEF CustomerInv, OneCustomer
    <2>6. QED
      BY <2>3, <2>4, <2>5 DEF CustomerInv
  <1>5. ASSUME NEW cancel \in BOOLEAN, StartCancel(c, cancel)  PROVE CustomerInv'
    <2>1. /\ UNCHANGED <<row, customers, sessions, stripe, misled>>
          /\ call' = [call EXCEPT ![c] = [IdleCall EXCEPT !.pc = "stripe",
                                            !.sub = row.sub, !.cancel = cancel]]
      BY <1>5 DEF StartCancel, rows, external
    <2>2. \A d \in Calls : call'[d] = call[d] \/ call'[d].pc = "stripe"
      BY <1>0, <1>5, <2>1 DEF CallRecord
    <2>3. QED
      BY <2>1, <2>2, CustomersKept
  <1>6. CASE CancelRow(c)
    <2>1. /\ UNCHANGED <<customers, sessions, stripe>> /\ row'.customer = row.customer
          /\ \A d \in Calls : call'[d] = call[d] \/ call'[d].pc = "done"
      BY <1>0, <1>6 DEF CancelRow, external, TypeInv, TablesTyped, RowRecord
    <2>2. misled => misled'
      BY <1>6 DEF CancelRow
    <2>3. QED
      BY <2>1, <2>2, CustomersKept
  <1>7. CASE CallFails(c)
    <2>1. /\ UNCHANGED <<row, customers, sessions, stripe, misled>>
          /\ \A d \in Calls : call'[d] = call[d] \/ call'[d].pc = "done"
      BY <1>0, <1>7 DEF CallFails, rows, external
    <2>2. QED
      BY <2>1, CustomersKept
  <1>8. QED
    BY <1>1, <1>2, <1>3, <1>4, <1>5, <1>6, <1>7 DEF OtherCall

LEMMA HandlersKeepCustomers ==
  ASSUME TypeInv, NewsInv, CustomerInv, NEW i \in EventIds,
         Deliver(i) \/ Handle(i) \/ HandlerFails(i)
  PROVE  CustomerInv'
  <1>0. UNCHANGED <<stripe, customers, sessions, events, call>> /\ delivery[i] # "none"
    BY HandlerMoves DEF external
  <1>1. CASE UpdateRow(i) /\ events[i].type = "checkout"
    <2>1. /\ i \in 1..Len(events) /\ Sub(i) \in Subs /\ Sub(i) = events[i].sub
          /\ Owner(i) = stripe[Sub(i)].customer
      BY <1>0, HandledEvent DEF TypeInv
    <2>2. stripe[Sub(i)].state # "none"
      BY <2>1 DEF NewsInv, Told
    <2>3. row'.customer = Owner(i)
      BY <1>1 DEF UpdateRow, RowFrom
    <2>4. Made(Owner(i)) /\ Owner(i) # None
      BY <2>1, <2>2, NoneIsNothing DEF CustomerInv, CustomersMade, Made
    <2>5. misled => misled'
      BY <1>1 DEF UpdateRow, Write
    <2>6. CustomersMade'
      BY <1>0, <2>3, <2>4 DEF CustomerInv, CustomersMade, Made
    <2>7. RowHasCustomer'
      BY <2>3, <2>4 DEF RowHasCustomer
    <2>8. ~misled' => OneCustomer'
      BY <1>0, <2>1, <2>2, <2>3, <2>5 DEF CustomerInv, OneCustomer
    <2>9. QED
      BY <2>6, <2>7, <2>8 DEF CustomerInv
  <1>2. CASE UpdateRow(i) /\ events[i].type # "checkout"
    <2>1. events[i].type \in {"updated", "deleted"}
      BY <1>2 DEF UpdateRow, TypeInv, NewsTyped
    <2>2. row'.customer = row.customer
      BY <1>2, <2>1 DEF UpdateRow, RowFrom, TypeInv, TablesTyped, RowRecord
    <2>3. misled => misled'
      BY <1>2 DEF UpdateRow, Write
    <2>4. QED
      BY <1>0, <2>2, <2>3, CustomersKept
  <1>3. CASE ~UpdateRow(i)
    <2>1. row' = row
      BY <1>3 DEF Deliver, Handle, HandlerFails, UpdateUser, InsertPayment, Respond, rows
    <2>2. misled => misled'
      BY <1>3 DEF Deliver, Handle, HandlerFails, UpdateUser, InsertPayment, Respond, Write
    <2>3. QED
      BY <1>0, <2>1, <2>2, CustomersKept
  <1>4. QED
    BY <1>1, <1>2, <1>3

LEMMA CustomerStep ==
  ASSUME TypeInv, NewsInv, CustomerInv, [Next]_vars
  PROVE  CustomerInv'
  <1>1. ASSUME NEW s \in Subs,
               PayCheckout(s) \/ Renew(s) \/ ChargeFails(s) \/ End(s) \/ PortalCancel(s)
        PROVE  CustomerInv'
    BY <1>1, StripeSteps, ChangeKeepsCustomers DEF rows
  <1>2. ASSUME NEW c \in Calls, UpdateStripe(c)  PROVE CustomerInv'
    <2>1. /\ \A d \in Calls : call'[d] = call[d] \/ call'[d].pc \notin {"attach", "session"}
          /\ UNCHANGED <<row, customers, sessions, misled>>
      BY <1>2, NewCalls DEF UpdateStripe, rows, TypeInv, CallsTyped, CallRecord
    <2>2. CASE \E s \in Subs, r \in StripeRecord, types \in Seq(Types) : IsChange(s, r, types)
      BY <2>1, <2>2, ChangeKeepsCustomers
    <2>3. CASE UNCHANGED <<stripe, events, delivery>>
      BY <2>1, <2>3, CustomersKept
    <2>4. QED
      BY <1>2, <2>2, <2>3, CallChanges
  <1>3. ASSUME NEW c \in Calls, OtherCall(c)  PROVE CustomerInv'
    BY <1>3, CallsKeepCustomers
  <1>4. ASSUME NEW i \in EventIds, Deliver(i) \/ Handle(i) \/ HandlerFails(i)
        PROVE  CustomerInv'
    BY <1>4, HandlersKeepCustomers
  <1>5. CASE UNCHANGED vars
    BY <1>5, CustomersKept DEF vars, external, rows
  <1>6. QED
    BY <1>1, <1>2, <1>3, <1>4, <1>5 DEF Next, OtherCall

LEMMA CustomerInit == Init => CustomerInv
  <1> SUFFICES ASSUME Init PROVE CustomerInv
    OBVIOUS
  <1>1. /\ row.customer = None /\ sessions = {} /\ \A s \in Subs : stripe[s].state = "none"
        /\ \A c \in Calls : call[c].pc = "idle"
    BY NewCalls DEF Init
  <1>2. QED
    BY <1>1 DEF CustomerInv, CustomersMade, RowHasCustomer, OneCustomer

(* A user with one customer, or whose row was never overwritten, is found  *)
(* by every event that was emitted.                                        *)
LEMMA AlwaysKnown ==
  ASSUME TypeInv, NewsInv, CustomerInv, customers < 2 \/ ~misled,
         NEW i \in EventIds, delivery[i] # "none"
  PROVE  Known(i) /\ row.customer = Owner(i)
  <1>1. /\ i \in 1..Len(events) /\ Sub(i) \in Subs /\ Sub(i) = events[i].sub
        /\ Owner(i) = stripe[Sub(i)].customer
    BY HandledEvent DEF TypeInv
  <1>2. stripe[Sub(i)].state # "none"
    BY <1>1 DEF NewsInv, Told
  <1>3. Made(Owner(i)) /\ row.customer # None /\ Made(row.customer)
    BY <1>1, <1>2 DEF CustomerInv, CustomersMade, RowHasCustomer
  <1>4. customers < 2 => row.customer = Owner(i)
    BY <1>3, NoneIsNothing DEF Made, Customers, TypeInv, OthersTyped
  <1>5. ~misled => row.customer = Owner(i)
    BY <1>1, <1>2 DEF CustomerInv, OneCustomer
  <1>6. QED
    BY <1>4, <1>5 DEF Known

-----------------------------------------------------------------------------
(* Payments.  A paid invoice that is answered has its row in payments: it  *)
(* is stored before the answer, and with one customer it is never skipped. *)

PaidInv ==
  customers < 2 =>
    \A i \in EventIds :
      delivery[i] \in {"respond", "acked"} /\ events[i].type = "paid" => i \in payments

PaymentInv == TypeInv /\ NewsInv /\ CustomerInv /\ PaidInv

LEMMA PaidStep ==
  ASSUME PaymentInv, [Next]_vars
  PROVE  PaidInv'
  <1>0. TypeInv /\ NewsInv /\ CustomerInv /\ PaidInv /\ customers \in Nat
    BY NoneIsNothing DEF PaymentInv, TypeInv, OthersTyped
  <1>1. ASSUME NEW s \in Subs, NEW r \in StripeRecord, NEW types \in Seq(Types),
               IsChange(s, r, types), UNCHANGED <<customers, payments>>
        PROVE  PaidInv'
    <2>1. /\ \A i \in 1..Len(events) : events'[i] = events[i]
          /\ \A i \in EventIds : delivery'[i] # "pending" => delivery'[i] = delivery[i]
      BY <1>0, <1>1, OldOrNew DEF IsChange, Emit, TypeInv
    <2>2. \A i \in EventIds : delivery[i] # "none" => i \in 1..Len(events)
      BY <1>0, HandledEvent DEF TypeInv
    <2>3. QED
      BY <1>0, <1>1, <2>1, <2>2 DEF PaidInv
  <1>2. ASSUME UNCHANGED <<events, delivery, payments>>, customers <= customers',
               customers' \in Nat
        PROVE  PaidInv'
    BY <1>0, <1>2 DEF PaidInv
  <1>3. ASSUME NEW s \in Subs,
               PayCheckout(s) \/ Renew(s) \/ ChargeFails(s) \/ End(s) \/ PortalCancel(s)
        PROVE  PaidInv'
    BY <1>0, <1>1, <1>3, StripeSteps DEF rows
  <1>4. ASSUME NEW c \in Calls, UpdateStripe(c)  PROVE PaidInv'
    <2>1. UNCHANGED <<customers, payments>>
      BY <1>4 DEF UpdateStripe, rows
    <2>2. QED
      BY <1>0, <1>1, <1>2, <1>4, <2>1, CallChanges
  <1>5. ASSUME NEW c \in Calls, OtherCall(c)  PROVE PaidInv'
    <2>1. UNCHANGED payments /\ (customers' = customers \/ customers' = customers + 1)
      BY <1>5 DEF OtherCall, StartCheckout, CreateCustomer, AttachCustomer, CreateSession,
                  StartCancel, CancelRow, CallFails, rows, external
    <2>2. QED
      BY <1>0, <1>2, <1>5, <2>1, OtherCallsSayNothing
  <1>6. ASSUME NEW i \in EventIds, Deliver(i) \/ Handle(i) \/ HandlerFails(i)
        PROVE  PaidInv'
    <2>1. /\ UNCHANGED <<customers, events>> /\ payments \subseteq payments'
          /\ \A j \in EventIds : j # i => delivery'[j] = delivery[j]
          /\ delivery[i] # "none"
      BY <1>0, <1>6, HandlerMoves
         DEF external, Deliver, Handle, HandlerFails, UpdateRow, UpdateUser, InsertPayment,
             Respond, rows, TypeInv, NewsTyped
    <2>2. ASSUME customers < 2, delivery'[i] \in {"respond", "acked"}, events[i].type = "paid"
          PROVE  i \in payments'
      <3>1. delivery \in [EventIds -> DeliveryStates]
        BY <1>0 DEF TypeInv, NewsTyped
      <3>2. CASE Deliver(i)
        BY <1>0, <2>1, <2>2, <3>1, <3>2, AlwaysKnown DEF Deliver, FirstStep
      <3>3. CASE UpdateRow(i) \/ UpdateUser(i)
        BY <1>0, <2>2, <3>3 DEF UpdateRow, UpdateUser, TypeInv, NewsTyped
      <3>4. CASE InsertPayment(i)
        BY <3>4 DEF InsertPayment
      <3>5. CASE Respond(i)
        BY <1>0, <2>2, <3>5 DEF Respond, PaidInv, rows
      <3>6. CASE HandlerFails(i)
        BY <2>2, <3>1, <3>6 DEF HandlerFails
      <3>7. QED
        BY <1>6, <3>2, <3>3, <3>4, <3>5, <3>6 DEF Handle
    <2>3. QED
      BY <1>0, <2>1, <2>2 DEF PaidInv
  <1>7. CASE UNCHANGED vars
    BY <1>0, <1>2, <1>7 DEF vars, external, rows
  <1>8. QED
    BY <1>3, <1>4, <1>5, <1>6, <1>7 DEF Next, OtherCall

LEMMA PaymentsHold == Spec => []PaymentInv
  <1>1. Init => PaymentInv
    <2>1. Init => PaidInv
      BY DEF Init, PaidInv
    <2>2. QED
      BY <2>1, TypeInit, NewsInit, CustomerInit DEF PaymentInv
  <1>2. PaymentInv /\ [Next]_vars => PaymentInv'
    BY TypeStep, NewsStep, CustomerStep, PaidStep DEF PaymentInv
  <1>3. QED
    BY <1>1, <1>2, PTL DEF Spec

(* Whatever fails between the statements of a handler, an acknowledged     *)
(* paid invoice is in the payment history of a user with one customer.     *)
THEOREM PaymentsRecorded == Spec => []PaymentRecorded
  <1>1. PaymentInv => PaymentRecorded
    <2> SUFFICES ASSUME PaymentInv, NEW i \in DOMAIN events, events[i].type = "paid",
                        delivery[i] = "acked", customers < 2
                 PROVE  i \in payments
      BY DEF PaymentRecorded
    <2>1. i \in EventIds
      BY EventTyped, LenProperties DEF PaymentInv, TypeInv, NewsTyped
    <2>2. QED
      BY <2>1 DEF PaymentInv, PaidInv
  <1>2. QED
    BY <1>1, PaymentsHold, PTL

-----------------------------------------------------------------------------
(* What the calls know.  A call that is about to write the row knows what  *)
(* Stripe had of its subscription at the last event that Stripe had        *)
(* emitted by then, which is never a checkout.                             *)

CallKnows(c) ==
  /\ call[c].seen \in 1..Len(events) /\ events[call[c].seen].type # "checkout"
  /\ \A j \in 1..Len(events) : Ends(j, call[c].sub) => call[c].seen < j
  /\ call[c].answer \in {"live", "past_due"}
  /\ \E e \in 1..Len(events) :
       /\ Latest(e, call[c].sub, call[c].seen)
       /\ events[e].now.state = call[c].answer /\ events[e].now.cancel = call[c].cancel

CallsKnow == \A c \in Calls : call[c].pc = "row" => CallKnows(c)

(* What was the latest news at event m stays so when more are emitted.     *)
LEMMA LatestStays ==
  ASSUME NewsTyped, NEW s \in Subs, NEW r \in StripeRecord, NEW types \in Seq(Types),
         IsChange(s, r, types), NEW e, NEW q, NEW m \in Nat, m <= Len(events),
         Latest(e, q, m)
  PROVE  Latest(e, q, m)'
  <1>1. /\ Len(events) \in Nat
        /\ \A i \in 1..Len(events) : i \in 1..Len(events') /\ events'[i] = events[i]
        /\ \A i \in 1..Len(events') : i \in 1..Len(events) \/ i > Len(events)
    BY OldOrNew DEF IsChange
  <1>2. Len(events') \in Nat
    BY OldOrNew DEF IsChange
  <1>3. e \in 1..Len(events') /\ e <= m /\ events'[e].type \in RowTypes /\ events'[e].sub = q
    BY <1>1 DEF Latest, IsRowNews
  <1>4. ASSUME NEW j \in 1..Len(events'), j <= m, events'[j].type \in RowTypes,
               events'[j].sub = q
        PROVE  j <= e
    <2>1. j \in 1..Len(events)
      BY <1>1, <1>2, <1>4
    <2>2. QED
      BY <1>1, <1>4, <2>1 DEF Latest, IsRowNews
  <1>5. QED
    BY <1>3, <1>4 DEF Latest, IsRowNews

LEMMA ChangeKeepsKnowledge ==
  ASSUME NewsTyped, NEW c \in Calls, CallKnows(c), call'[c] = call[c],
         NEW s \in Subs, NEW r \in StripeRecord, NEW types \in Seq(Types),
         IsChange(s, r, types)
  PROVE  CallKnows(c)'
  <1> DEFINE m == call[c].seen
             q == call[c].sub
  <1>1. /\ Len(events) \in Nat
        /\ \A i \in 1..Len(events) : i \in 1..Len(events') /\ events'[i] = events[i]
        /\ \A i \in 1..Len(events') : i \in 1..Len(events) \/ i > Len(events)
    BY OldOrNew DEF IsChange
  <1>2. m \in 1..Len(events) /\ m \in Nat /\ m <= Len(events) /\ events[m].type # "checkout"
    BY <1>1 DEF CallKnows
  <1>3. m \in 1..Len(events') /\ events'[m].type # "checkout"
    BY <1>1, <1>2
  <1>4. ASSUME NEW j \in 1..Len(events'), events'[j].type = "deleted", events'[j].sub = q
        PROVE  m < j
    <2>1. CASE j \in 1..Len(events)
      BY <1>1, <1>4, <2>1 DEF CallKnows, Ends
    <2>2. CASE j > Len(events)
      BY <1>1, <1>2, <2>2
    <2>3. QED
      BY <1>1, <2>1, <2>2
  <1>5. PICK e \in 1..Len(events) :
          /\ Latest(e, q, m)
          /\ events[e].now.state = call[c].answer /\ events[e].now.cancel = call[c].cancel
    BY DEF CallKnows
  <1>6. e \in 1..Len(events') /\ events'[e].now = events[e].now
    BY <1>1
  <1>7. Latest(e, q, m)' /\ call'[c].seen = m /\ call'[c].sub = q
    <2>1. PICK mm \in Nat : mm = m
      BY <1>2
    <2>2. PICK qq : qq = q
      OBVIOUS
    <2>3. Latest(e, qq, mm)'
      <3>1. Latest(e, qq, mm)
        BY <1>5, <2>1, <2>2
      <3>2. QED
        BY <1>2, <2>1, <3>1, LatestStays
    <2>4. m' = mm /\ q' = qq
      BY <2>1, <2>2
    <2>5. QED
      BY <2>1, <2>2, <2>3, <2>4 DEF Latest, IsRowNews
  <1>8. call'[c].answer \in {"live", "past_due"}
    BY DEF CallKnows
  <1>9. QED
    BY <1>3, <1>4, <1>5, <1>6, <1>7, <1>8 DEF CallKnows, Ends

(* Stripe's answer is what its latest news say, by the time it answers.    *)
LEMMA AnswerIsNews ==
  ASSUME TypeInv, NewsInv', NEW c \in Calls, UpdateStripe(c), call'[c].pc = "row"
  PROVE  CallKnows(c)'
  <1> DEFINE s == call[c].sub
  <1>0. /\ s \in Subs /\ call[c] \in CallRecord /\ stripe[s] \in StripeRecord
        /\ stripe \in [Subs -> StripeRecord] /\ call \in [Calls -> CallRecord]
        /\ call[c].cancel \in BOOLEAN /\ EndedCall.pc = "done"
    BY NewCalls DEF UpdateStripe, TypeInv, CallsTyped, NewsTyped, CallRecord
  <1>1. /\ Open(s)
        /\ call' = [call EXCEPT ![c] = [call[c] EXCEPT !.pc = "row", !.seen = Len(events'),
                                                       !.answer = stripe[s].state]]
    BY <1>0 DEF UpdateStripe
  <1>2. /\ call'[c].seen = Len(events') /\ call'[c].answer = stripe[s].state
        /\ call'[c].sub = s /\ call'[c].cancel = call[c].cancel
    BY <1>0, <1>1 DEF CallRecord
  <1>3. stripe'[s].state = stripe[s].state /\ stripe'[s].cancel = call[c].cancel
    <2>1. CASE Emit(s, [stripe[s] EXCEPT !.cancel = call[c].cancel], <<"updated">>)
      <3>1. stripe'[s] = [stripe[s] EXCEPT !.cancel = call[c].cancel]
        BY <1>0, <2>1 DEF Emit
      <3>2. QED
        BY <1>0, <3>1 DEF StripeRecord
    <2>2. CASE UNCHANGED stripe /\ stripe[s].cancel = call[c].cancel
      BY <2>2
    <2>3. QED
      BY <1>1, <2>1, <2>2 DEF UpdateStripe
  <1>4. stripe'[s].state \in {"live", "past_due"}
    BY <1>1, <1>3 DEF Open
  <1>5. /\ \A j \in 1..Len(events') : ~Ends(j, s)'
        /\ \E e \in 1..Len(events') : Latest(e, s, Len(events))' /\ events'[e].now = stripe'[s]
    <2>1. Complete'
      BY DEF NewsInv
    <2>2. stripe'[s].state # "none" /\ stripe'[s].state # "ended"
      BY <1>4
    <2>3. \A j \in 1..Len(events') : ~Ends(j, s)'
      BY <1>0, <1>2, <2>1, <2>2 DEF Complete, Ends
    <2>4. \E e \in 1..Len(events') : Latest(e, s, Len(events))' /\ events'[e].now = stripe'[s]
      <3>1. PICK q \in Subs : q = s
        BY <1>0
      <3>2. PICK e \in 1..Len(events') :
              Latest(e, q, Len(events))' /\ events'[e].now = stripe'[q]
        BY <2>1, <2>2, <3>1 DEF Complete
      <3>3. Latest(e, s, Len(events))'
        BY <1>2, <3>1, <3>2 DEF Latest, IsRowNews
      <3>4. QED
        BY <3>1, <3>2, <3>3
    <2>5. QED
      BY <2>3, <2>4
  <1>6. PICK e \in 1..Len(events') : Latest(e, s, Len(events))' /\ events'[e].now = stripe'[s]
    BY <1>5
  <1>7. Len(events') \in 1..Len(events') /\ events'[Len(events')].type # "checkout"
    <2>1. Len(events') \in Nat
      BY UpdateKeepsTypes, LenProperties DEF TypeInv, NewsTyped
    <2>2. Len(events') > 0
      BY <1>6, <2>1
    <2>3. QED
      BY <2>1, <2>2 DEF NewsInv, LastIsNoCheckout
  <1>8. \E x \in 1..Len(events') :
          /\ Latest(x, call[c].sub, call[c].seen)'
          /\ events'[x].now.state = call'[c].answer /\ events'[x].now.cancel = call'[c].cancel
    <2>1. Latest(e, call[c].sub, call[c].seen)'
      BY <1>2, <1>6 DEF Latest, IsRowNews
    <2>2. QED
      BY <1>2, <1>3, <1>6, <2>1
  <1>9. QED
    BY <1>2, <1>3, <1>4, <1>5, <1>7, <1>8 DEF CallKnows, Ends

LEMMA KnowledgeStep ==
  ASSUME TypeInv, NewsInv, CallsKnow, [Next]_vars
  PROVE  CallsKnow'
  <1>0. NewsTyped /\ NewsInv' /\ call \in [Calls -> CallRecord]
    BY NewsStep DEF TypeInv, CallsTyped
  <1>1. ASSUME NEW d \in Calls, call'[d] = call[d], call[d].pc = "row",
               UNCHANGED <<events>>
        PROVE  CallKnows(d)'
    BY <1>1 DEF CallsKnow, CallKnows, Ends, Latest, IsRowNews
  <1>2. ASSUME NEW s \in Subs,
               PayCheckout(s) \/ Renew(s) \/ ChargeFails(s) \/ End(s) \/ PortalCancel(s)
        PROVE  CallsKnow'
    <2>1. /\ \E q \in Subs, r \in StripeRecord, types \in Seq(Types) : IsChange(q, r, types)
          /\ call' = call
      BY <1>2, StripeSteps
    <2>2. QED
      BY <1>0, <2>1, ChangeKeepsKnowledge DEF CallsKnow
  <1>3. ASSUME NEW c \in Calls, UpdateStripe(c)  PROVE CallsKnow'
    <2>1. \A d \in Calls : d # c => call'[d] = call[d]
      BY <1>0, <1>3 DEF UpdateStripe
    <2>2. ASSUME NEW d \in Calls, d # c, call'[d].pc = "row"  PROVE CallKnows(d)'
      <3>1. call'[d] = call[d] /\ CallKnows(d)
        BY <2>1, <2>2 DEF CallsKnow
      <3>2. CASE \E s \in Subs, r \in StripeRecord, types \in Seq(Types) : IsChange(s, r, types)
        BY <1>0, <3>1, <3>2, ChangeKeepsKnowledge
      <3>3. CASE UNCHANGED <<stripe, events, delivery>>
        BY <1>1, <2>2, <3>1, <3>3
      <3>4. QED
        BY <1>3, <3>2, <3>3, CallChanges
    <2>3. QED
      BY <1>0, <1>3, <2>2, AnswerIsNews DEF CallsKnow
  <1>4. ASSUME NEW c \in Calls, OtherCall(c)  PROVE CallsKnow'
    <2>1. UNCHANGED <<stripe, events, delivery>>
      BY <1>4, OtherCallsSayNothing
    <2>2. \A d \in Calls : call'[d] = call[d] \/ call'[d].pc # "row"
      <3>1. ASSUME NEW cancel \in BOOLEAN, StartCancel(c, cancel)
            PROVE  \A d \in Calls : call'[d] = call[d] \/ call'[d].pc = "stripe"
        <4>1. call' = [call EXCEPT ![c] = [IdleCall EXCEPT !.pc = "stripe",
                                             !.sub = row.sub, !.cancel = cancel]]
          BY <3>1 DEF StartCancel
        <4>2. IdleCall \in CallRecord
          BY NewCalls
        <4>3. QED
          BY <1>0, <4>1, <4>2 DEF CallRecord
      <3>2. CASE StartCheckout(c)
        <4>1. IdleCall \in CallRecord
          BY NewCalls
        <4>2. \A d \in Calls : call'[d] = call[d] \/ call'[d].pc \in {"create", "session"}
          BY <1>0, <3>2, <4>1 DEF StartCheckout, CallRecord
        <4>3. QED
          BY <4>2
      <3>3. CASE CreateCustomer(c) \/ AttachCustomer(c)
        BY <1>0, <3>3 DEF CreateCustomer, AttachCustomer, CallRecord
      <3>4. CASE CreateSession(c) \/ CancelRow(c) \/ CallFails(c)
        BY <1>0, <3>4, NewCalls DEF CreateSession, CancelRow, CallFails
      <3>5. QED
        BY <1>4, <3>1, <3>2, <3>3, <3>4 DEF OtherCall
    <2>3. QED
      BY <1>1, <2>1, <2>2 DEF CallsKnow
  <1>5. ASSUME NEW i \in EventIds, Deliver(i) \/ Handle(i) \/ HandlerFails(i)
        PROVE  CallsKnow'
    <2>1. UNCHANGED <<events, call>>
      BY <1>5, HandlerMoves DEF TypeInv, external
    <2>2. QED
      BY <1>1, <2>1 DEF CallsKnow
  <1>6. CASE UNCHANGED vars
    BY <1>1, <1>6 DEF vars, external, CallsKnow
  <1>7. QED
    BY <1>2, <1>3, <1>4, <1>5, <1>6 DEF Next, OtherCall

LEMMA KnowledgeInit == Init => CallsKnow
  BY NewCalls DEF Init, CallsKnow

-----------------------------------------------------------------------------
(* What a table shows.  A table that was last written from event n shows   *)
(* sub: it started by then, has not ended by then, and every other         *)
(* subscription that started by then had ended before sub started.         *)

Follows(sub, n) ==
  /\ sub # None =>
       /\ \E i \in 1..Len(events) : i <= n /\ Starts(i, sub)
       /\ \A j \in 1..Len(events) : Ends(j, sub) => n < j
  /\ \A i \in 1..Len(events) :
       i <= n /\ events[i].type = "checkout" /\ events[i].sub # sub =>
         \E j \in 1..Len(events) :
           /\ Ends(j, events[i].sub) /\ j <= n
           /\ \A k \in 1..Len(events) : Starts(k, sub) => j < k

(* The next event in order for the table: a write that does not mislead.   *)
Fits(i, sub, n) ==
  /\ Follows(sub, n) /\ n <= i
  /\ \A k \in 1..Len(events) : k < i /\ IsUserNews(k) => k <= n
  /\ i = n \/ sub = events[i].sub \/ (events[i].type = "checkout" /\ sub = None)

LEMMA FollowsCheckout ==
  ASSUME NewsTyped, NewsInv, NEW n \in Nat, NEW i \in 1..Len(events), NEW sub,
         Fits(i, sub, n), events[i].type = "checkout"
  PROVE  Follows(events[i].sub, i)
  <1> DEFINE s == events[i].sub
  <1>0. i \in Nat /\ Len(events) \in Nat /\ s \in Subs /\ s # None
    BY EventTyped, LenProperties, NoneIsNothing DEF NewsTyped
  <1>1. \A k \in 1..Len(events) : Starts(k, s) => k = i
    BY <1>0 DEF NewsInv, InOrder, Starts
  <1>2. \A j \in 1..Len(events) : Ends(j, s) => i < j
    BY <1>0 DEF NewsInv, InOrder, Ends
  <1>3. ASSUME NEW x \in 1..Len(events), x <= i, events[x].type = "checkout",
               events[x].sub # s
        PROVE  \E j \in 1..Len(events) : /\ Ends(j, events[x].sub) /\ j <= i
                                         /\ \A k \in 1..Len(events) : Starts(k, s) => j < k
    <2>1. x < i /\ x <= n
      BY <1>0, <1>3 DEF Fits, IsUserNews
    <2>2. events[x].sub # sub
      <3>1. SUFFICES ASSUME events[x].sub = sub  PROVE FALSE
        OBVIOUS
      <3>2. sub # None /\ sub # s
        BY <1>3, <3>1, EventTyped, NoneIsNothing
      <3>3. i = n
        BY <3>2 DEF Fits
      <3>4. PICK j \in 1..Len(events) : Ends(j, s) /\ j <= n
        BY <3>2, <3>3, <1>0 DEF Fits, Follows
      <3>5. QED
        BY <1>0, <1>2, <3>3, <3>4
    <2>3. PICK j \in 1..Len(events) : Ends(j, events[x].sub) /\ j <= n
      BY <1>3, <2>1, <2>2 DEF Fits, Follows
    <2>4. j < i
      <3>1. j # i
        BY <2>3 DEF Ends
      <3>2. QED
        BY <1>0, <2>3, <3>1 DEF Fits
    <2>5. QED
      BY <1>0, <1>1, <2>3, <2>4
  <1>4. Starts(i, s) /\ i <= i
    BY <1>0 DEF Starts
  <1>5. QED
    BY <1>2, <1>3, <1>4 DEF Follows

LEMMA FollowsUpdate ==
  ASSUME NewsTyped, NewsInv, NEW n \in Nat, NEW i \in 1..Len(events), NEW sub,
         Fits(i, sub, n), events[i].type = "updated"
  PROVE  sub = events[i].sub /\ Follows(sub, i)
  <1> DEFINE s == events[i].sub
  <1>0. i \in Nat /\ Len(events) \in Nat /\ s \in Subs /\ s # None
    BY EventTyped, LenProperties, NoneIsNothing DEF NewsTyped
  <1>1. \A j \in 1..Len(events) : Ends(j, s) => i < j
    <2>1. ASSUME NEW j \in 1..Len(events), Ends(j, s)  PROVE i < j
      <3>1. i <= j /\ i # j
        BY <2>1 DEF NewsInv, InOrder, Ends
      <3>2. QED
        BY <1>0, <3>1
    <2>2. QED
      BY <2>1
  <1>2. sub = s
    <2>1. SUFFICES ASSUME sub # s  PROVE FALSE
      OBVIOUS
    <2>2. i = n
      BY <2>1 DEF Fits
    <2>3. PICK x \in 1..Len(events) : Starts(x, s)
      BY <1>0 DEF NewsInv, Told, Complete
    <2>4. x <= n /\ events[x].type = "checkout" /\ events[x].sub = s
      BY <2>2, <2>3 DEF NewsInv, InOrder, Starts
    <2>5. PICK j \in 1..Len(events) : Ends(j, s) /\ j <= n
      BY <2>1, <2>4 DEF Fits, Follows
    <2>6. QED
      BY <1>0, <1>1, <2>2, <2>5
  <1>3. ASSUME NEW x \in 1..Len(events), x <= i, events[x].type = "checkout",
               events[x].sub # s
        PROVE  \E j \in 1..Len(events) : /\ Ends(j, events[x].sub) /\ j <= i
                                         /\ \A k \in 1..Len(events) : Starts(k, s) => j < k
    <2>1. x < i /\ x <= n
      BY <1>0, <1>3 DEF Fits, IsUserNews
    <2>2. PICK j \in 1..Len(events) :
            /\ Ends(j, events[x].sub) /\ j <= n
            /\ \A k \in 1..Len(events) : Starts(k, s) => j < k
      BY <1>2, <1>3, <2>1 DEF Fits, Follows
    <2>3. j <= i
      BY <1>0, <2>2 DEF Fits
    <2>4. QED
      BY <2>2, <2>3
  <1>4. \E x \in 1..Len(events) : x <= i /\ Starts(x, s)
    <2>1. PICK x \in 1..Len(events) : x <= n /\ Starts(x, s)
      BY <1>0, <1>2 DEF Fits, Follows
    <2>2. x <= i
      BY <1>0, <2>1 DEF Fits
    <2>3. QED
      BY <2>1, <2>2
  <1>5. QED
    BY <1>1, <1>2, <1>3, <1>4 DEF Follows

LEMMA FollowsEnd ==
  ASSUME NewsTyped, NewsInv, NEW n \in Nat, NEW i \in 1..Len(events), NEW sub,
         Fits(i, sub, n), events[i].type = "deleted"
  PROVE  Follows(None, i)
  <1> DEFINE s == events[i].sub
  <1>0. i \in Nat /\ Len(events) \in Nat /\ s \in Subs /\ s # None
    BY EventTyped, LenProperties, NoneIsNothing DEF NewsTyped
  <1>1. Ends(i, s) /\ \A j \in 1..Len(events) : Ends(j, s) => j = i
    BY <1>0 DEF NewsInv, InOrder, Ends
  <1>2. \A k \in 1..Len(events) : ~Starts(k, None)
    BY EventTyped, NoneIsNothing DEF Starts
  <1>3. ASSUME NEW x \in 1..Len(events), x <= i, events[x].type = "checkout"
        PROVE  \E j \in 1..Len(events) : Ends(j, events[x].sub) /\ j <= i
    <2>1. x < i /\ x <= n
      BY <1>0, <1>3 DEF Fits, IsUserNews
    <2>2. CASE events[x].sub = s
      BY <1>0, <1>1, <2>2
    <2>3. CASE events[x].sub # s /\ events[x].sub # sub
      <3>1. PICK j \in 1..Len(events) : Ends(j, events[x].sub) /\ j <= n
        BY <1>3, <2>1, <2>3 DEF Fits, Follows
      <3>2. j <= i
        BY <1>0, <3>1 DEF Fits
      <3>3. QED
        BY <3>1, <3>2
    <2>4. CASE events[x].sub # s /\ events[x].sub = sub
      <3>1. i = n
        BY <2>4 DEF Fits
      <3>2. PICK y \in 1..Len(events) : Starts(y, s)
        BY <1>0 DEF NewsInv, Told, Complete
      <3>3. y <= n /\ events[y].type = "checkout" /\ events[y].sub = s
        BY <3>1, <3>2 DEF NewsInv, InOrder, Starts
      <3>4. PICK j \in 1..Len(events) :
              Ends(j, s) /\ \A k \in 1..Len(events) : Starts(k, sub) => j < k
        BY <2>4, <3>3 DEF Fits, Follows
      <3>5. Starts(x, sub)
        BY <1>3, <2>4 DEF Starts
      <3>6. i < x
        BY <1>1, <3>4, <3>5
      <3>7. QED
        BY <1>0, <2>1, <3>6
    <2>5. QED
      BY <2>2, <2>3, <2>4
  <1>4. QED
    BY <1>2, <1>3 DEF Follows

(* Skipping to event m, which says nothing new of what the table shows.    *)
LEMMA FollowsSkip ==
  ASSUME NewsTyped, NEW n \in Nat, NEW m \in 1..Len(events), NEW sub, sub # None,
         Follows(sub, n), n <= m,
         \A k \in 1..Len(events) : k < m /\ IsUserNews(k) => k <= n,
         events[m].type # "checkout",
         \A j \in 1..Len(events) : Ends(j, sub) => m < j
  PROVE  Follows(sub, m)
  <1>0. m \in Nat /\ Len(events) \in Nat
    BY LenProperties DEF NewsTyped
  <1>1. ASSUME NEW x \in 1..Len(events), x <= m, events[x].type = "checkout",
               events[x].sub # sub
        PROVE  \E j \in 1..Len(events) : /\ Ends(j, events[x].sub) /\ j <= m
                                         /\ \A k \in 1..Len(events) : Starts(k, sub) => j < k
    <2>1. x # m
      BY <1>1
    <2>2. x < m /\ x <= n
      BY <1>0, <1>1, <2>1 DEF IsUserNews
    <2>3. PICK j \in 1..Len(events) :
            /\ Ends(j, events[x].sub) /\ j <= n
            /\ \A k \in 1..Len(events) : Starts(k, sub) => j < k
      BY <1>1, <2>2 DEF Follows
    <2>4. j <= m
      BY <1>0, <2>3
    <2>5. QED
      BY <2>3, <2>4
  <1>2. \E x \in 1..Len(events) : x <= m /\ Starts(x, sub)
    <2>1. PICK x \in 1..Len(events) : x <= n /\ Starts(x, sub)
      BY DEF Follows
    <2>2. x <= m
      BY <1>0, <2>1
    <2>3. QED
      BY <2>1, <2>2
  <1>3. QED
    BY <1>1, <1>2 DEF Follows

(* Later events change nothing about what the table shows.                 *)
LEMMA FollowsStays ==
  ASSUME NewsTyped, NEW s \in Subs, NEW r \in StripeRecord, NEW types \in Seq(Types),
         IsChange(s, r, types), NEW sub, NEW n \in Nat, n <= Len(events), Follows(sub, n)
  PROVE  Follows(sub, n)'
  <1>1. /\ Len(events) \in Nat /\ Len(events') \in Nat
        /\ \A i \in 1..Len(events) : i \in 1..Len(events') /\ events'[i] = events[i]
        /\ \A i \in 1..Len(events') : i \in 1..Len(events) \/ i > Len(events)
    BY OldOrNew DEF IsChange
  <1>2. \A k \in 1..Len(events) : /\ Starts(k, sub)' <=> Starts(k, sub)
                                  /\ Ends(k, sub)' <=> Ends(k, sub)
    BY <1>1 DEF Starts, Ends
  <1>3. ASSUME sub # None
        PROVE  /\ \E i \in 1..Len(events') : i <= n /\ Starts(i, sub)'
               /\ \A j \in 1..Len(events') : Ends(j, sub)' => n < j
    <2>1. PICK i \in 1..Len(events) : i <= n /\ Starts(i, sub)
      BY <1>3 DEF Follows
    <2>2. i \in 1..Len(events') /\ Starts(i, sub)'
      BY <1>1, <1>2, <2>1
    <2>3. \A j \in 1..Len(events) : Ends(j, sub)' => n < j
      BY <1>2, <1>3 DEF Follows
    <2>4. \A j \in 1..Len(events') : Ends(j, sub)' => n < j
      BY <1>1, <2>3
    <2>5. QED
      BY <2>1, <2>2, <2>4
  <1>4. ASSUME NEW i \in 1..Len(events'), i <= n, events'[i].type = "checkout",
               events'[i].sub # sub
        PROVE  \E j \in 1..Len(events') :
                 /\ Ends(j, events[i].sub)' /\ j <= n
                 /\ \A k \in 1..Len(events') : Starts(k, sub)' => j < k
    <2>1. i \in 1..Len(events) /\ events'[i] = events[i]
      BY <1>1, <1>4
    <2>2. PICK j \in 1..Len(events) :
            /\ Ends(j, events[i].sub) /\ j <= n
            /\ \A k \in 1..Len(events) : Starts(k, sub) => j < k
      BY <1>4, <2>1 DEF Follows
    <2>3. Ends(j, events[i].sub)' /\ j \in 1..Len(events')
      BY <1>1, <2>1, <2>2 DEF Ends
    <2>4. \A k \in 1..Len(events') : Starts(k, sub)' => j < k
      BY <1>1, <1>2, <2>2
    <2>5. QED
      BY <2>2, <2>3, <2>4
  <1>5. QED
    BY <1>3, <1>4 DEF Follows

-----------------------------------------------------------------------------
(* The tables follow the events.  A handler never looks at what is newer,  *)
(* so the tables may fall behind: an older event is still to be written    *)
(* over a newer one, and that write will mislead.  As long as no write has *)
(* misled, a table that is not behind shows the news up to its last event. *)

RowFollows ==
  /\ Follows(row.sub, fresh.row)
  /\ row.sub = None => row.plan = "free"
  /\ row.sub # None =>
       \E e \in 1..Len(events) :
         /\ Latest(e, row.sub, fresh.row)
         /\ row.status = StatusOf(events[e].now)
         /\ row.plan = events[e].now.plan

UserFollows ==
  /\ Follows(user.sub, fresh.user)
  /\ user.sub = None => user.tier = "free"
  /\ user.sub # None =>
       /\ user.tier = stripe[user.sub].plan
       /\ user.customer = stripe[user.sub].customer

RowBehind ==
  \E k \in EventIds : /\ delivery[k] \in {"pending", "row"}
                      /\ IsRowNews(k) /\ k < fresh.row

UserBehind ==
  \E k \in EventIds : /\ delivery[k] \in {"pending", "row", "user"}
                      /\ IsUserNews(k) /\ k < fresh.user

(* What a handler has written is no newer than the table.                  *)
Written ==
  /\ fresh.row <= Len(events) /\ fresh.user <= Len(events)
  /\ \A i \in EventIds :
       /\ delivery[i] \in {"user", "payment", "respond", "acked"} /\ IsRowNews(i)
            => i <= fresh.row
       /\ delivery[i] \in {"payment", "respond", "acked"} /\ IsUserNews(i)
            => i <= fresh.user

ShowInv ==
  ~misled =>
    /\ Written
    /\ RowBehind \/ RowFollows
    /\ UserBehind \/ UserFollows

ConvergeInv == TypeInv /\ NewsInv /\ CustomerInv /\ CallsKnow /\ ShowInv

LEMMA FreshTyped ==
  ASSUME TypeInv
  PROVE  fresh.row \in Nat /\ fresh.user \in Nat
  BY NoneIsNothing DEF TypeInv, OthersTyped

(* The state of the two tables besides what Stripe and its events say.     *)
shown == <<row.sub, row.status, row.plan, user, fresh>>

(* Events, tables and what was written stay as they are.                   *)
LEMMA ShowKept ==
  ASSUME ShowInv, misled => misled', UNCHANGED <<stripe, events, delivery, shown>>
  PROVE  ShowInv'
  <1>1. SUFFICES ASSUME ~misled'  PROVE Written' /\ (RowBehind' \/ RowFollows')
                                                 /\ (UserBehind' \/ UserFollows')
    BY DEF ShowInv
  <1>2. Written /\ (RowBehind \/ RowFollows) /\ (UserBehind \/ UserFollows)
    BY <1>1 DEF ShowInv
  <1>3. Written'
    BY <1>2 DEF Written, IsRowNews, IsUserNews, shown
  <1>4. /\ RowBehind => RowBehind'
        /\ UserBehind => UserBehind'
    BY DEF RowBehind, UserBehind, IsRowNews, IsUserNews, shown
  <1>5. RowFollows => RowFollows'
    BY DEF RowFollows, Follows, Starts, Ends, Latest, IsRowNews, StatusOf, shown
  <1>6. UserFollows => UserFollows'
    <2>1. UNCHANGED <<stripe, events, user, fresh>>
      BY DEF shown
    <2>2. Follows(user.sub, fresh.user) => Follows(user.sub, fresh.user)'
      BY <2>1 DEF Follows, Starts, Ends
    <2>3. QED
      BY <2>1, <2>2 DEF UserFollows
  <1>7. QED
    BY <1>2, <1>3, <1>4, <1>5, <1>6

(* A change at Stripe leaves the tables what they are: its news are to be  *)
(* delivered.                                                              *)
LEMMA ChangeKeepsShow ==
  ASSUME TypeInv, NewsInv, ShowInv, NEW s \in Subs, NEW r \in StripeRecord,
         NEW types \in Seq(Types), IsChange(s, r, types), UNCHANGED <<rows, fresh, misled>>
  PROVE  ShowInv'
  <1>0. NewsTyped /\ fresh.row \in Nat /\ fresh.user \in Nat /\ UNCHANGED <<row, user>>
    BY FreshTyped DEF TypeInv, rows
  <1>1. SUFFICES ASSUME ~misled  PROVE Written' /\ (RowBehind' \/ RowFollows')
                                                /\ (UserBehind' \/ UserFollows')
    BY DEF ShowInv
  <1>2. Written /\ (RowBehind \/ RowFollows) /\ (UserBehind \/ UserFollows)
    BY <1>1 DEF ShowInv
  <1>3. /\ Len(events) \in Nat /\ Len(events') \in Nat /\ Len(events) <= Len(events')
        /\ \A i \in 1..Len(events) : i \in 1..Len(events') /\ events'[i] = events[i]
        /\ \A i \in EventIds :
             \/ i \in 1..Len(events) /\ delivery'[i] = delivery[i]
             \/ delivery'[i] \in {"none", "pending"}
    <2>1. /\ Len(events) \in Nat /\ Len(types) \in Nat /\ Len(events') = Len(events) + Len(types)
          /\ \A i \in 1..Len(events) : i \in 1..Len(events') /\ events'[i] = events[i]
      BY <1>0, OldOrNew DEF IsChange
    <2>2. \A i \in EventIds :
             \/ i \in 1..Len(events) /\ delivery'[i] = delivery[i]
             \/ delivery'[i] \in {"none", "pending"}
      <3>1. \A i \in EventIds :
              delivery'[i] = IF i \in (Len(events) + 1)..(Len(events) + Len(types))
                             THEN "pending" ELSE delivery[i]
        BY DEF IsChange, Emit
      <3>2. \A i \in EventIds : delivery[i] = "none" \/ i \in 1..Len(events)
        BY <1>0, HandledEvent
      <3>3. \A i \in 1..Len(events) : i \notin (Len(events) + 1)..(Len(events) + Len(types))
        BY <2>1
      <3>4. QED
        BY <3>1, <3>2, <3>3
    <2>3. QED
      BY <2>1, <2>2
  <1>4. \A i \in 1..Len(events) : i \in EventIds /\ delivery[i] # "none"
                                  /\ delivery'[i] \in {delivery[i], "pending"}
    <2>1. \A i \in 1..Len(events) : i \in EventIds /\ delivery[i] # "none"
      BY <1>0, EventTyped DEF NewsInv, Told
    <2>2. \A i \in EventIds : delivery'[i] \in {delivery[i], "pending"}
      BY DEF IsChange, Emit
    <2>3. QED
      BY <2>1, <2>2
  <1>5. Written'
    <2>1. fresh'.row <= Len(events') /\ fresh'.user <= Len(events')
      BY <1>0, <1>2, <1>3 DEF Written
    <2>2. QED
      BY <1>2, <1>3, <2>1 DEF Written, IsRowNews, IsUserNews
  <1>6. \A k \in EventIds : delivery[k] # "none" /\ delivery[k] # "acked"
          /\ delivery[k] # "respond" => k \in 1..Len(events)
    BY <1>0, HandledEvent
  <1>7. RowBehind => RowBehind'
    <2>1. SUFFICES ASSUME NEW k \in EventIds, delivery[k] \in {"pending", "row"},
                          IsRowNews(k), k < fresh.row
                   PROVE  RowBehind'
      BY DEF RowBehind
    <2>2. k \in 1..Len(events) /\ delivery'[k] \in {"pending", "row"}
      BY <1>4, <1>6, <2>1
    <2>3. QED
      BY <1>3, <2>1, <2>2 DEF RowBehind, IsRowNews
  <1>8. UserBehind => UserBehind'
    <2>1. SUFFICES ASSUME NEW k \in EventIds, delivery[k] \in {"pending", "row", "user"},
                          IsUserNews(k), k < fresh.user
                   PROVE  UserBehind'
      BY DEF UserBehind
    <2>2. k \in 1..Len(events) /\ delivery'[k] \in {"pending", "row", "user"}
      BY <1>4, <1>6, <2>1
    <2>3. QED
      BY <1>3, <2>1, <2>2 DEF UserBehind, IsUserNews
  <1>9. ASSUME RowFollows  PROVE RowFollows'
    <2>1. PICK n \in Nat, sub \in {row.sub} : n = fresh.row
      BY <1>0
    <2>2. n <= Len(events) /\ Follows(sub, n)
      BY <1>2, <1>9, <2>1 DEF Written, RowFollows
    <2>3. Follows(sub, n)'
      BY <1>0, <2>2, FollowsStays
    <2>4. n = fresh'.row /\ sub = row'.sub
      BY <1>0, <2>1
    <2>5. Follows(row.sub, fresh.row)'
      BY <2>3, <2>4 DEF Follows, Starts, Ends
    <2>6. ASSUME row.sub # None
          PROVE  \E e \in 1..Len(events') :
                   /\ Latest(e, row.sub, fresh.row)'
                   /\ row.status = StatusOf(events'[e].now)
                   /\ row.plan = events'[e].now.plan
      <3>1. PICK e \in 1..Len(events) :
              /\ Latest(e, row.sub, fresh.row)
              /\ row.status = StatusOf(events[e].now)
              /\ row.plan = events[e].now.plan
        BY <1>9, <2>6 DEF RowFollows
      <3>2. Latest(e, sub, n)
        BY <2>1, <3>1
      <3>3. Latest(e, sub, n)'
        BY <1>0, <2>2, <3>2, LatestStays
      <3>4. Latest(e, row.sub, fresh.row)'
        BY <2>4, <3>3 DEF Latest, IsRowNews
      <3>5. QED
        BY <1>3, <3>1, <3>4
    <2>7. QED
      BY <1>0, <1>9, <2>5, <2>6 DEF RowFollows, StatusOf
  <1>10. ASSUME UserFollows  PROVE UserFollows'
    <2>1. PICK n \in Nat, sub \in {user.sub} : n = fresh.user
      BY <1>0
    <2>2. n <= Len(events) /\ Follows(sub, n)
      BY <1>2, <1>10, <2>1 DEF Written, UserFollows
    <2>3. Follows(sub, n)'
      BY <1>0, <2>2, FollowsStays
    <2>4. n = fresh'.user /\ sub = user'.sub
      BY <1>0, <2>1
    <2>5. Follows(user.sub, fresh.user)'
      BY <2>3, <2>4 DEF Follows, Starts, Ends
    <2>6. ASSUME user.sub # None
          PROVE  /\ user.tier = stripe'[user.sub].plan
                 /\ user.customer = stripe'[user.sub].customer
      <3>1. PICK i \in 1..Len(events) : Starts(i, user.sub)
        BY <1>10, <2>6 DEF UserFollows, Follows
      <3>2. user.sub \in Subs /\ stripe[user.sub].state # "none"
        BY <1>0, <3>1, EventTyped DEF NewsInv, Told, Starts
      <3>3. stripe'[user.sub] = IF user.sub = s THEN r ELSE stripe[user.sub]
        BY <1>0, <3>2 DEF IsChange, Emit, NewsTyped
      <3>4. /\ stripe'[user.sub].plan = stripe[user.sub].plan
            /\ stripe'[user.sub].customer = stripe[user.sub].customer
        BY <3>2, <3>3 DEF IsChange
      <3>5. QED
        BY <1>10, <2>6, <3>4 DEF UserFollows
    <2>7. QED
      BY <1>0, <1>10, <2>5, <2>6 DEF UserFollows
  <1>11. QED
    BY <1>2, <1>5, <1>7, <1>8, <1>9, <1>10

(* A step of a handler that writes neither table.                          *)
LEMMA DeliveriesKeepShow ==
  ASSUME TypeInv, NewsInv, CustomerInv, ShowInv, NEW i \in EventIds,
         Deliver(i) \/ InsertPayment(i) \/ Respond(i) \/ HandlerFails(i)
  PROVE  ShowInv'
  <1>0. /\ delivery \in [EventIds -> DeliveryStates] /\ delivery[i] # "none"
        /\ UNCHANGED <<stripe, events, row, user, fresh, misled>>
        /\ \A j \in EventIds : j # i => delivery'[j] = delivery[j]
    BY HandlerMoves
       DEF TypeInv, NewsTyped, external, Deliver, Handle, HandlerFails, InsertPayment, Respond,
           rows
  <1>1. SUFFICES ASSUME ~misled  PROVE Written' /\ (RowBehind' \/ RowFollows')
                                                /\ (UserBehind' \/ UserFollows')
    BY <1>0 DEF ShowInv
  <1>2. Written /\ (RowBehind \/ RowFollows) /\ (UserBehind \/ UserFollows)
    BY <1>1 DEF ShowInv
  <1>3. /\ IsRowNews(i) => \/ delivery[i] = "pending" /\ delivery'[i] = "row"
                           \/ delivery'[i] = "pending"
                           \/ /\ delivery[i] \in {"payment", "respond"}
                              /\ delivery'[i] \in {"respond", "acked"}
        /\ IsUserNews(i) => IsRowNews(i)
    <2>1. CASE Deliver(i)
      <3>1. Known(i)
        BY <1>0, <1>1, AlwaysKnown
      <3>2. QED
        BY <1>0, <2>1, <3>1 DEF Deliver, FirstStep, IsRowNews, IsUserNews, RowTypes
    <2>2. CASE InsertPayment(i) \/ Respond(i) \/ HandlerFails(i)
      BY <1>0, <2>2 DEF InsertPayment, Respond, HandlerFails, IsRowNews, IsUserNews, RowTypes
    <2>3. QED
      BY <2>1, <2>2
  <1>4. Written'
    BY <1>0, <1>2, <1>3 DEF Written, IsRowNews, IsUserNews
  <1>5. RowBehind => RowBehind'
    BY <1>0, <1>3 DEF RowBehind, IsRowNews
  <1>6. UserBehind => UserBehind'
    <2>1. SUFFICES ASSUME NEW k \in EventIds, delivery[k] \in {"pending", "row", "user"},
                          IsUserNews(k), k < fresh.user
                   PROVE  UserBehind'
      BY DEF UserBehind
    <2>2. delivery'[k] \in {"pending", "row", "user"}
      BY <1>0, <1>3, <2>1
    <2>3. QED
      BY <1>0, <2>1, <2>2 DEF UserBehind, IsUserNews
  <1>7. RowFollows => RowFollows'
    BY <1>0 DEF RowFollows, Follows, Starts, Ends, Latest, IsRowNews, StatusOf
  <1>8. UserFollows => UserFollows'
    <2>1. Follows(user.sub, fresh.user) => Follows(user.sub, fresh.user)'
      BY <1>0 DEF Follows, Starts, Ends
    <2>2. QED
      BY <1>0, <2>1 DEF UserFollows
  <1>9. QED
    BY <1>2, <1>4, <1>5, <1>6, <1>7, <1>8

(* All that is older than an event which a table that is not behind takes  *)
(* next was written to it before.                                          *)
LEMMA OlderIsWritten ==
  ASSUME TypeInv, NewsInv, Written, NEW i \in 1..Len(events)
  PROVE  /\ (\A k \in 1..Len(events) : k < i /\ IsRowNews(k) =>
               delivery[k] \notin {"pending", "row"})
              => \A k \in 1..Len(events) : k < i /\ IsRowNews(k) => k <= fresh.row
         /\ (\A k \in 1..Len(events) : k < i /\ IsUserNews(k) =>
               delivery[k] \notin {"pending", "row", "user"})
              => \A k \in 1..Len(events) : k < i /\ IsUserNews(k) => k <= fresh.user
  <1>1. \A k \in 1..Len(events) : k \in EventIds /\ delivery[k] \in DeliveryStates \ {"none"}
    BY EventTyped DEF TypeInv, NewsTyped, NewsInv, Told
  <1>2. QED
    BY <1>1 DEF Written, DeliveryStates

LEMMA RowWriteShows ==
  ASSUME TypeInv, NewsInv, CustomerInv, ShowInv, NEW i \in EventIds, UpdateRow(i),
         ~misled', ~RowBehind'
  PROVE  RowFollows'
  <1> DEFINE n == fresh.row
             s == events[i].sub
  <1>0. /\ UNCHANGED <<stripe, events>> /\ ~misled /\ delivery[i] = "row"
        /\ i \in 1..Len(events) /\ i \in Nat /\ Sub(i) = s /\ s \in Subs /\ s # None
        /\ NewsTyped /\ n \in Nat /\ Written
        /\ delivery \in [EventIds -> DeliveryStates]
        /\ \A j \in EventIds : j # i => delivery'[j] = delivery[j]
    <2>1. ~misled
      BY DEF UpdateRow, Write
    <2>2. /\ i \in 1..Len(events) /\ i \in Nat /\ Sub(i) = s /\ s \in Subs /\ s # None
      BY HandledEvent, EventTyped, NoneIsNothing DEF UpdateRow, TypeInv
    <2>3. /\ UNCHANGED <<stripe, events>> /\ delivery[i] = "row"
          /\ NewsTyped /\ n \in Nat /\ delivery \in [EventIds -> DeliveryStates]
      BY FreshTyped DEF UpdateRow, TypeInv, NewsTyped, external
    <2>4. \A j \in EventIds : j # i => delivery'[j] = delivery[j]
      BY <2>3 DEF UpdateRow
    <2>5. QED
      BY <2>1, <2>2, <2>3, <2>4 DEF ShowInv
  <1>1. /\ fresh'.row = i /\ n <= i
        /\ i = n \/ row.sub = s \/ (events[i].type = "checkout" /\ row.sub = None)
    BY <1>0, FreshTyped DEF UpdateRow, Write, TypeInv, OthersTyped
  <1>2. \A k \in 1..Len(events) : k < i /\ IsRowNews(k) => delivery[k] \notin {"pending", "row"}
    <2>1. SUFFICES ASSUME NEW k \in 1..Len(events), k < i, IsRowNews(k),
                          delivery[k] \in {"pending", "row"}
                   PROVE  FALSE
      OBVIOUS
    <2>2. k \in EventIds /\ k # i /\ delivery'[k] = delivery[k]
      BY <1>0, <2>1, EventTyped
    <2>3. RowBehind'
      BY <1>0, <1>1, <2>1, <2>2 DEF RowBehind, IsRowNews
    <2>4. QED
      BY <2>3
  <1>3. \A k \in 1..Len(events) : k < i /\ IsRowNews(k) => k <= n
    BY <1>0, <1>2, OlderIsWritten
  <1>4. RowFollows
    <2>1. ~RowBehind
      <3>1. SUFFICES ASSUME NEW k \in EventIds, delivery[k] \in {"pending", "row"},
                            IsRowNews(k), k < n
                     PROVE  FALSE
        BY DEF RowBehind
      <3>2. k \in 1..Len(events) /\ k < i
        BY <1>0, <1>1, <3>1, HandledEvent
      <3>3. QED
        BY <1>2, <3>1, <3>2
    <2>2. QED
      BY <1>0, <2>1 DEF ShowInv
  <1>5. Fits(i, row.sub, n)
    <2>1. \A k \in 1..Len(events) : IsUserNews(k) => IsRowNews(k)
      BY DEF IsUserNews, IsRowNews, RowTypes
    <2>2. QED
      BY <1>1, <1>3, <1>4, <2>1 DEF Fits, RowFollows
  <1>6. Latest(i, s, i)' /\ Latest(i, s, i)
    <2>1. events[i].type \in RowTypes
      BY <1>0 DEF TypeInv, NewsTyped, RowTypes
    <2>2. QED
      BY <1>0, <2>1 DEF Latest, IsRowNews
  <1>7. events[i].now \in StripeRecord /\ row \in RowRecord
    BY <1>0, EventTyped DEF TypeInv, TablesTyped
  <1>8. \A sub : Follows(sub, i) => Follows(sub, i)'
    BY <1>0 DEF Follows, Starts, Ends
  <1>9. CASE events[i].type = "checkout"
    <2>1. Follows(s, i)'
      BY <1>0, <1>5, <1>8, <1>9, FollowsCheckout
    <2>2. row'.sub = s /\ row'.status = "active" /\ row'.plan = events[i].now.plan
      BY <1>9 DEF UpdateRow, RowFrom
    <2>3. StatusOf(events[i].now) = "active"
      BY <1>0, <1>9 DEF StatusOf, NewsInv, Told
    <2>4. QED
      BY <1>0, <1>1, <1>6, <2>1, <2>2, <2>3
         DEF RowFollows, Follows, Starts, Ends, Latest, IsRowNews, StatusOf
  <1>10. CASE events[i].type = "updated"
    <2>1. row.sub = s /\ Follows(s, i)'
      BY <1>0, <1>5, <1>8, <1>10, FollowsUpdate
    <2>2. row'.sub = s /\ row'.status = StatusOf(events[i].now) /\ row'.plan = row.plan
      BY <1>7, <1>10, <2>1 DEF UpdateRow, RowFrom, RowRecord
    <2>3. row.plan = events[i].now.plan
      <3>1. PICK e \in 1..Len(events) : Latest(e, s, n) /\ row.plan = events[e].now.plan
        BY <1>0, <1>4, <2>1 DEF RowFollows
      <3>2. events[e].sub = s
        BY <3>1 DEF Latest
      <3>3. QED
        BY <1>0, <3>1, <3>2 DEF NewsInv, Told
    <2>4. QED
      BY <1>0, <1>1, <1>6, <2>1, <2>2, <2>3
         DEF RowFollows, Follows, Starts, Ends, Latest, IsRowNews, StatusOf
  <1>11. CASE events[i].type = "deleted"
    <2>1. Follows(None, i)'
      BY <1>0, <1>5, <1>8, <1>11, FollowsEnd
    <2>2. row'.sub = None /\ row'.plan = "free"
      BY <1>7, <1>11 DEF UpdateRow, RowFrom, RowRecord
    <2>3. QED
      BY <1>1, <2>1, <2>2 DEF RowFollows, Follows, Starts, Ends
  <1>12. QED
    BY <1>0, <1>9, <1>10, <1>11 DEF TypeInv, NewsTyped

LEMMA RowWriteKeepsShow ==
  ASSUME TypeInv, NewsInv, CustomerInv, ShowInv, NEW i \in EventIds, UpdateRow(i)
  PROVE  ShowInv'
  <1>1. SUFFICES ASSUME ~misled'  PROVE Written' /\ (RowBehind' \/ RowFollows')
                                                 /\ (UserBehind' \/ UserFollows')
    BY DEF ShowInv
  <1>2. /\ ~misled /\ fresh.row <= i /\ fresh.row \in Nat /\ fresh.user \in Nat /\ i \in Nat
        /\ i <= Len(events) /\ fresh'.row = i /\ fresh'.user = fresh.user
        /\ UNCHANGED <<stripe, events, user>> /\ delivery[i] = "row"
        /\ delivery \in [EventIds -> DeliveryStates]
    BY <1>1, FreshTyped, HandledEvent, EventTyped
       DEF UpdateRow, Write, TypeInv, NewsTyped, OthersTyped, external
  <1>3. /\ \A j \in EventIds : j # i => delivery'[j] = delivery[j]
        /\ delivery'[i] = IF events[i].type = "updated" THEN "respond" ELSE "user"
    BY <1>2 DEF UpdateRow
  <1>4. Written /\ (UserBehind \/ UserFollows)
    BY <1>2 DEF ShowInv
  <1>5. Written'
    BY <1>2, <1>3, <1>4 DEF Written, IsRowNews, IsUserNews, EventIds
  <1>6. UserBehind => UserBehind'
    <2>1. SUFFICES ASSUME NEW k \in EventIds, delivery[k] \in {"pending", "row", "user"},
                          IsUserNews(k), k < fresh.user
                   PROVE  UserBehind'
      BY DEF UserBehind
    <2>2. delivery'[k] \in {"pending", "row", "user"}
      BY <1>3, <2>1 DEF IsUserNews
    <2>3. QED
      BY <1>2, <2>1, <2>2 DEF UserBehind, IsUserNews
  <1>7. UserFollows => UserFollows'
    <2>1. Follows(user.sub, fresh.user) => Follows(user.sub, fresh.user)'
      BY <1>2 DEF Follows, Starts, Ends
    <2>2. QED
      BY <1>2, <2>1 DEF UserFollows
  <1>8. QED
    BY <1>1, <1>4, <1>5, <1>6, <1>7, RowWriteShows

LEMMA UserWriteShows ==
  ASSUME TypeInv, NewsInv, CustomerInv, ShowInv, NEW i \in EventIds, UpdateUser(i),
         ~misled', ~UserBehind'
  PROVE  UserFollows'
  <1> DEFINE n == fresh.user
             s == events[i].sub
  <1>0. /\ UNCHANGED <<stripe, events>> /\ ~misled /\ delivery[i] = "user"
        /\ i \in 1..Len(events) /\ i \in Nat /\ Sub(i) = s /\ s \in Subs /\ s # None
        /\ Owner(i) = stripe[s].customer
        /\ NewsTyped /\ n \in Nat /\ Written
        /\ delivery \in [EventIds -> DeliveryStates]
        /\ \A j \in EventIds : j # i => delivery'[j] = delivery[j]
    <2>1. ~misled
      BY DEF UpdateUser, Write
    <2>2. /\ i \in 1..Len(events) /\ i \in Nat /\ Sub(i) = s /\ s \in Subs /\ s # None
          /\ Owner(i) = stripe[s].customer
      BY HandledEvent, EventTyped, NoneIsNothing DEF UpdateUser, TypeInv
    <2>3. /\ UNCHANGED <<stripe, events>> /\ delivery[i] = "user"
          /\ NewsTyped /\ n \in Nat /\ delivery \in [EventIds -> DeliveryStates]
      BY FreshTyped DEF UpdateUser, TypeInv, NewsTyped, external
    <2>4. \A j \in EventIds : j # i => delivery'[j] = delivery[j]
      BY <2>3 DEF UpdateUser
    <2>5. QED
      BY <2>1, <2>2, <2>3, <2>4 DEF ShowInv
  <1>1. /\ fresh'.user = i /\ n <= i
        /\ i = n \/ user.sub = s \/ (events[i].type = "checkout" /\ user.sub = None)
    BY <1>0, FreshTyped DEF UpdateUser, Write, TypeInv, OthersTyped
  <1>2. \A k \in 1..Len(events) :
          k < i /\ IsUserNews(k) => delivery[k] \notin {"pending", "row", "user"}
    <2>1. SUFFICES ASSUME NEW k \in 1..Len(events), k < i, IsUserNews(k),
                          delivery[k] \in {"pending", "row", "user"}
                   PROVE  FALSE
      OBVIOUS
    <2>2. k \in EventIds /\ k # i /\ delivery'[k] = delivery[k]
      BY <1>0, <2>1, EventTyped
    <2>3. UserBehind'
      BY <1>0, <1>1, <2>1, <2>2 DEF UserBehind, IsUserNews
    <2>4. QED
      BY <2>3
  <1>3. \A k \in 1..Len(events) : k < i /\ IsUserNews(k) => k <= n
    BY <1>0, <1>2, OlderIsWritten
  <1>4. UserFollows
    <2>1. ~UserBehind
      <3>1. SUFFICES ASSUME NEW k \in EventIds, delivery[k] \in {"pending", "row", "user"},
                            IsUserNews(k), k < n
                     PROVE  FALSE
        BY DEF UserBehind
      <3>2. k \in 1..Len(events) /\ k < i
        BY <1>0, <1>1, <3>1, HandledEvent
      <3>3. QED
        BY <1>2, <3>1, <3>2
    <2>2. QED
      BY <1>0, <2>1 DEF ShowInv
  <1>5. Fits(i, user.sub, n)
    BY <1>1, <1>3, <1>4 DEF Fits, UserFollows
  <1>6. user \in UserRecord
    BY DEF TypeInv, TablesTyped
  <1>7. \A sub : Follows(sub, i) => Follows(sub, i)'
    BY <1>0 DEF Follows, Starts, Ends
  <1>8. CASE events[i].type = "checkout"
    <2>1. Follows(s, i)'
      BY <1>0, <1>5, <1>7, <1>8, FollowsCheckout
    <2>2. user'.sub = s /\ user'.tier = events[i].now.plan /\ user'.customer = Owner(i)
      BY <1>0, <1>8 DEF UpdateUser
    <2>3. events[i].now.plan = stripe[s].plan
      BY <1>0 DEF NewsInv, Told
    <2>4. QED
      BY <1>0, <1>1, <2>1, <2>2, <2>3 DEF UserFollows, Follows, Starts, Ends
  <1>9. CASE events[i].type = "deleted"
    <2>1. Follows(None, i)'
      BY <1>0, <1>5, <1>7, <1>9, FollowsEnd
    <2>2. user'.sub = None /\ user'.tier = "free"
      BY <1>6, <1>9 DEF UpdateUser, UserRecord
    <2>3. QED
      BY <1>1, <2>1, <2>2 DEF UserFollows, Follows, Starts, Ends
  <1>10. QED
    BY <1>0, <1>8, <1>9 DEF TypeInv, NewsTyped

LEMMA UserWriteKeepsShow ==
  ASSUME TypeInv, NewsInv, CustomerInv, ShowInv, NEW i \in EventIds, UpdateUser(i)
  PROVE  ShowInv'
  <1>1. SUFFICES ASSUME ~misled'  PROVE Written' /\ (RowBehind' \/ RowFollows')
                                                 /\ (UserBehind' \/ UserFollows')
    BY DEF ShowInv
  <1>2. /\ ~misled /\ fresh.user <= i /\ fresh.row \in Nat /\ fresh.user \in Nat /\ i \in Nat
        /\ i <= Len(events) /\ fresh'.user = i /\ fresh'.row = fresh.row
        /\ UNCHANGED <<stripe, events, row>> /\ delivery[i] = "user"
        /\ delivery \in [EventIds -> DeliveryStates]
    BY <1>1, FreshTyped, HandledEvent, EventTyped
       DEF UpdateUser, Write, TypeInv, NewsTyped, OthersTyped, external
  <1>3. /\ \A j \in EventIds : j # i => delivery'[j] = delivery[j]
        /\ delivery'[i] = IF events[i].type = "checkout" THEN "payment" ELSE "respond"
    BY <1>2 DEF UpdateUser
  <1>4. Written /\ (RowBehind \/ RowFollows)
    BY <1>2 DEF ShowInv
  <1>5. Written'
    BY <1>2, <1>3, <1>4 DEF Written, IsRowNews, IsUserNews, EventIds
  <1>6. RowBehind => RowBehind'
    BY <1>2, <1>3 DEF RowBehind, IsRowNews
  <1>7. RowFollows => RowFollows'
    BY <1>2 DEF RowFollows, Follows, Starts, Ends, Latest, IsRowNews, StatusOf
  <1>8. QED
    BY <1>1, <1>4, <1>5, <1>6, <1>7, UserWriteShows

(* The write of a call that cancels or resumes.                            *)
LEMMA CancelKeepsShow ==
  ASSUME TypeInv, NewsInv, CallsKnow, ShowInv, NEW c \in Calls, CancelRow(c)
  PROVE  ShowInv'
  <1> DEFINE n == fresh.row
             m == call[c].seen
             s == call[c].sub
  <1>1. SUFFICES ASSUME ~misled'  PROVE Written' /\ (RowBehind' \/ RowFollows')
                                                 /\ (UserBehind' \/ UserFollows')
    BY DEF ShowInv
  <1>2. CallKnows(c)
    BY DEF CancelRow, CallsKnow
  <1>3. /\ ~misled /\ n <= m /\ row.sub = s /\ (call[c].cancel \/ call[c].answer # "past_due")
        /\ UNCHANGED <<stripe, events, delivery, user>>
        /\ n \in Nat /\ m \in Nat /\ m \in 1..Len(events) /\ m <= Len(events)
        /\ fresh.user \in Nat /\ NewsTyped /\ call[c].cancel \in BOOLEAN
    <2>1. m \in 1..Len(events)
      BY <1>2 DEF CallKnows
    <2>2. n \in Nat /\ fresh.user \in Nat /\ NewsTyped /\ m \in Nat /\ m <= Len(events)
      BY <2>1, FreshTyped, EventTyped DEF TypeInv
    <2>3. ~misled /\ n <= m /\ row.sub = s /\ (call[c].cancel \/ call[c].answer # "past_due")
      BY <1>1, <2>2 DEF CancelRow
    <2>4. UNCHANGED <<stripe, events, delivery, user>> /\ call[c].cancel \in BOOLEAN
      BY DEF CancelRow, external, TypeInv, CallsTyped, CallRecord
    <2>5. QED
      BY <2>1, <2>2, <2>3, <2>4
  <1>4. fresh'.row = m /\ fresh'.user = fresh.user
    BY DEF CancelRow, TypeInv, OthersTyped
  <1>5. Written /\ (RowBehind \/ RowFollows) /\ (UserBehind \/ UserFollows)
    BY <1>3 DEF ShowInv
  <1>6. Written'
    <2>1. \A i \in EventIds : i <= n => i <= m
      BY <1>3 DEF EventIds
    <2>2. QED
      BY <1>3, <1>4, <1>5, <2>1 DEF Written, IsRowNews, IsUserNews
  <1>7. UserBehind => UserBehind'
    BY <1>3, <1>4 DEF UserBehind, IsUserNews
  <1>8. UserFollows => UserFollows'
    <2>1. Follows(user.sub, fresh.user) => Follows(user.sub, fresh.user)'
      BY <1>3, <1>4 DEF Follows, Starts, Ends
    <2>2. QED
      BY <1>3, <2>1 DEF UserFollows
  <1>9. ASSUME ~RowBehind'  PROVE RowFollows'
    <2>1. \A k \in 1..Len(events) : k < m /\ IsRowNews(k) => delivery[k] \notin {"pending", "row"}
      <3>1. SUFFICES ASSUME NEW k \in 1..Len(events), k < m, IsRowNews(k),
                            delivery[k] \in {"pending", "row"}
                     PROVE  FALSE
        OBVIOUS
      <3>2. k \in EventIds
        BY <1>3, EventTyped
      <3>3. RowBehind'
        BY <1>3, <1>4, <3>1, <3>2 DEF RowBehind, IsRowNews
      <3>4. QED
        BY <1>9, <3>3
    <2>2. \A k \in 1..Len(events) : k < m /\ IsRowNews(k) => k <= n
      BY <1>3, <1>5, <2>1, OlderIsWritten
    <2>3. RowFollows
      <3>1. SUFFICES ASSUME RowBehind  PROVE FALSE
        BY <1>5
      <3>2. PICK k \in EventIds : delivery[k] \in {"pending", "row"} /\ IsRowNews(k) /\ k < n
        BY <3>1 DEF RowBehind
      <3>3. k \in 1..Len(events) /\ k < m
        BY <1>3, <3>2, HandledEvent
      <3>4. QED
        BY <2>1, <3>2, <3>3
    <2>4. s # None
      BY NoneIsNothing DEF CancelRow, TypeInv, CallsTyped
    <2>5. Follows(s, m)
      <3>1. \A k \in 1..Len(events) : k < m /\ IsUserNews(k) => k <= n
        BY <2>2 DEF IsUserNews, IsRowNews, RowTypes
      <3>2. /\ events[m].type # "checkout"
            /\ \A j \in 1..Len(events) : Ends(j, s) => m < j
        BY <1>2 DEF CallKnows
      <3>3. Follows(s, n)
        BY <1>3, <2>3 DEF RowFollows
      <3>4. QED
        BY <1>3, <2>4, <3>1, <3>2, <3>3, FollowsSkip
    <2>6. PICK e \in 1..Len(events) :
            /\ Latest(e, s, m)
            /\ events[e].now.state = call[c].answer /\ events[e].now.cancel = call[c].cancel
      BY <1>2 DEF CallKnows
    <2>7. /\ row'.sub = s /\ row'.plan = row.plan
          /\ row'.status = IF call[c].cancel THEN "canceled" ELSE "active"
      BY <1>3 DEF CancelRow, TypeInv, TablesTyped, RowRecord
    <2>8. row'.status = StatusOf(events[e].now)
      <3>1. ~call[c].cancel => events[e].now.state = "live"
        BY <1>2, <1>3, <2>6 DEF CallKnows
      <3>2. QED
        BY <2>6, <2>7, <3>1 DEF StatusOf
    <2>9. row.plan = events[e].now.plan
      <3>1. PICK x \in 1..Len(events) : Latest(x, s, n) /\ row.plan = events[x].now.plan
        BY <1>3, <2>3, <2>4 DEF RowFollows
      <3>2. events[x].sub = s /\ events[e].sub = s
        BY <2>6, <3>1 DEF Latest
      <3>3. QED
        BY <3>1, <3>2 DEF NewsInv, Told
    <2>10. PICK mm \in Nat, ss \in {s} : mm = m
      BY <1>3
    <2>11. Follows(ss, mm)' /\ Latest(e, ss, mm)'
      BY <1>3, <2>5, <2>6, <2>10 DEF Follows, Starts, Ends, Latest, IsRowNews
    <2>12. row'.sub = ss /\ fresh'.row = mm
      BY <1>4, <2>7, <2>10
    <2>13. QED
      BY <1>3, <2>4, <2>7, <2>8, <2>9, <2>10, <2>11, <2>12
         DEF RowFollows, Follows, Starts, Ends, Latest, IsRowNews, StatusOf
  <1>10. QED
    BY <1>5, <1>6, <1>7, <1>8, <1>9

LEMMA ShowStep ==
  ASSUME ConvergeInv, [Next]_vars
  PROVE  ShowInv'
  <1>0. TypeInv /\ NewsInv /\ CustomerInv /\ CallsKnow /\ ShowInv
    BY DEF ConvergeInv
  <1>1. ASSUME NEW s \in Subs,
               PayCheckout(s) \/ Renew(s) \/ ChargeFails(s) \/ End(s) \/ PortalCancel(s)
        PROVE  ShowInv'
    <2>1. /\ \E q \in Subs, r \in StripeRecord, types \in Seq(Types) : IsChange(q, r, types)
          /\ UNCHANGED <<rows, fresh, misled>>
      BY <1>0, <1>1, StripeSteps
    <2>2. QED
      BY <1>0, <2>1, ChangeKeepsShow
  <1>2. ASSUME NEW c \in Calls, UpdateStripe(c)  PROVE ShowInv'
    <2>1. UNCHANGED <<rows, fresh, misled>>
      BY <1>2 DEF UpdateStripe
    <2>2. CASE \E q \in Subs, r \in StripeRecord, types \in Seq(Types) : IsChange(q, r, types)
      BY <1>0, <2>1, <2>2, ChangeKeepsShow
    <2>3. CASE UNCHANGED <<stripe, events, delivery>>
      BY <1>0, <2>1, <2>3, ShowKept DEF rows, shown
    <2>4. QED
      BY <1>0, <1>2, <2>2, <2>3, CallChanges
  <1>3. ASSUME NEW c \in Calls, OtherCall(c)  PROVE ShowInv'
    <2>1. UNCHANGED <<stripe, events, delivery>>
      BY <1>3, OtherCallsSayNothing
    <2>2. CASE CancelRow(c)
      BY <1>0, <2>2, CancelKeepsShow
    <2>3. CASE ~CancelRow(c)
      <3>1. UNCHANGED shown
        <4>1. CASE AttachCustomer(c)
          <5>1. row \in RowRecord
            BY <1>0 DEF TypeInv, TablesTyped
          <5>2. row'.sub = row.sub /\ row'.status = row.status /\ row'.plan = row.plan
            BY <4>1, <5>1 DEF AttachCustomer, RowRecord
          <5>3. QED
            BY <4>1, <5>2 DEF AttachCustomer, shown
        <4>2. CASE ~AttachCustomer(c)
          BY <1>3, <2>3, <4>2 DEF OtherCall, StartCheckout, CreateCustomer, CreateSession,
                                  StartCancel, CallFails, rows, shown
        <4>3. QED
          BY <4>1, <4>2
      <3>2. misled => misled'
        BY <1>3, <2>3 DEF OtherCall, StartCheckout, CreateCustomer, AttachCustomer,
                          CreateSession, StartCancel, CallFails
      <3>3. QED
        BY <1>0, <2>1, <3>1, <3>2, ShowKept
    <2>4. QED
      BY <2>2, <2>3
  <1>4. ASSUME NEW i \in EventIds, Deliver(i) \/ Handle(i) \/ HandlerFails(i)
        PROVE  ShowInv'
    BY <1>0, <1>4, RowWriteKeepsShow, UserWriteKeepsShow, DeliveriesKeepShow DEF Handle
  <1>5. CASE UNCHANGED vars
    BY <1>0, <1>5, ShowKept DEF vars, external, rows, shown
  <1>6. QED
    BY <1>1, <1>2, <1>3, <1>4, <1>5 DEF Next, OtherCall

LEMMA ShowInit == Init => ShowInv
  <1> SUFFICES ASSUME Init PROVE ShowInv
    OBVIOUS
  <1>1. /\ events = <<>> /\ Len(events) = 0 /\ fresh.row = 0 /\ fresh.user = 0
        /\ \A i \in EventIds : delivery[i] = "none"
    BY EmptySeq DEF Init
  <1>2. Written
    BY <1>1 DEF Written
  <1>3. row.sub = None /\ row.plan = "free" /\ user.sub = None /\ user.tier = "free"
    BY DEF Init
  <1>4. Follows(None, 0)
    BY <1>1 DEF Follows
  <1>5. RowFollows /\ UserFollows
    BY <1>1, <1>3, <1>4 DEF RowFollows, UserFollows
  <1>6. QED
    BY <1>2, <1>5 DEF ShowInv

LEMMA ConvergeHolds == Spec => []ConvergeInv
  <1>1. Init => ConvergeInv
    BY TypeInit, NewsInit, CustomerInit, KnowledgeInit, ShowInit DEF ConvergeInv
  <1>2. ConvergeInv /\ [Next]_vars => ConvergeInv'
    BY TypeStep, NewsStep, CustomerStep, KnowledgeStep, ShowStep DEF ConvergeInv
  <1>3. QED
    BY <1>1, <1>2, PTL DEF Spec

(* When all is acknowledged, every event was written and no table is       *)
(* behind: the tables show the news up to the last event.                  *)
LEMMA SettledShows ==
  ASSUME ConvergeInv, Settled, ~misled
  PROVE  /\ RowFollows /\ UserFollows
         /\ \A i \in 1..Len(events) : /\ IsRowNews(i) => i <= fresh.row
                                      /\ IsUserNews(i) => i <= fresh.user
  <1>1. \A i \in 1..Len(events) : i \in EventIds /\ delivery[i] = "acked"
    BY EventTyped DEF ConvergeInv, TypeInv, NewsInv, Told, Settled, Acknowledged
  <1>2. ~RowBehind /\ ~UserBehind
    BY DEF RowBehind, UserBehind, Settled, Acknowledged
  <1>3. QED
    BY <1>1, <1>2 DEF ConvergeInv, ShowInv, Written

(* The rows of a settled user show Stripe's open subscription, or the free *)
(* plan when there is none, in both tables: for every number of events,    *)
(* calls, handlers and failures, unless a write misled.                    *)
THEOREM RowsConverge == Spec => []Converges
  <1>1. ConvergeInv => Converges
    <2>1. SUFFICES ASSUME ConvergeInv, Settled, ~misled
                   PROVE  /\ (\A s \in Subs : ~Open(s)) => RowsShowFree
                          /\ \A s \in Subs :
                               Open(s) /\ (\A q \in Subs : Open(q) => q = s) => RowsShow(s)
      <3>1. \A s \in Subs : {q \in Subs : Open(q)} = {s}
              => Open(s) /\ \A q \in Subs : Open(q) => q = s
        OBVIOUS
      <3>2. {q \in Subs : Open(q)} = {} => \A s \in Subs : ~Open(s)
        OBVIOUS
      <3>3. QED
        BY <3>1, <3>2 DEF Converges
    <2>2. /\ RowFollows /\ UserFollows /\ NewsTyped /\ NewsInv /\ TypeInv /\ OneCustomer
          /\ fresh.row \in Nat /\ fresh.user \in Nat
          /\ \A i \in 1..Len(events) : /\ IsRowNews(i) => i <= fresh.row
                                       /\ IsUserNews(i) => i <= fresh.user
      BY <2>1, SettledShows, FreshTyped DEF ConvergeInv, TypeInv, CustomerInv
    <2>3. \A i \in 1..Len(events) : \A s :
            /\ Starts(i, s) => IsRowNews(i) /\ IsUserNews(i) /\ s \in Subs
            /\ Ends(i, s) => IsRowNews(i) /\ IsUserNews(i)
      BY <2>2, EventTyped DEF Starts, Ends, IsRowNews, IsUserNews, RowTypes
    <2>4. \A i \in 1..Len(events) : i \in Nat
      OBVIOUS
    <2>5. ASSUME NEW sub, NEW n \in Nat, Follows(sub, n), sub # None,
                 \A i \in 1..Len(events) : IsUserNews(i) => i <= n
          PROVE  Open(sub) /\ sub \in Subs
      <3>1. PICK i \in 1..Len(events) : Starts(i, sub)
        BY <2>5 DEF Follows
      <3>2. sub \in Subs /\ stripe[sub].state # "none"
        BY <2>2, <2>3, <3>1 DEF NewsInv, Told, Starts
      <3>3. \A j \in 1..Len(events) : ~Ends(j, sub)
        BY <2>3, <2>4, <2>5 DEF Follows
      <3>4. stripe[sub].state # "ended"
        BY <2>2, <3>2, <3>3 DEF NewsInv, Complete
      <3>5. stripe[sub].state \in States
        BY <2>2, <3>2 DEF NewsTyped, StripeRecord
      <3>6. QED
        BY <3>2, <3>4, <3>5 DEF Open, States
    <2>6. ASSUME NEW sub, NEW n \in Nat, Follows(sub, n), NEW s \in Subs, Open(s),
                 \A i \in 1..Len(events) : IsUserNews(i) => i <= n,
                 \A q \in Subs : Open(q) => q = s
          PROVE  sub = s
      <3>1. CASE sub = None
        <4>1. PICK i \in 1..Len(events) : Starts(i, s)
          BY <2>2, <2>6 DEF NewsInv, Complete, Open
        <4>2. i <= n /\ events[i].type = "checkout" /\ events[i].sub = s /\ s # None
          BY <2>3, <2>6, <4>1, NoneIsNothing DEF Starts
        <4>3. \E j \in 1..Len(events) : Ends(j, s)
          BY <2>6, <3>1, <4>2 DEF Follows
        <4>4. stripe[s].state = "ended"
          BY <2>2, <4>3 DEF NewsInv, Complete
        <4>5. QED
          BY <2>6, <4>4 DEF Open
      <3>2. CASE sub # None
        BY <2>5, <2>6, <3>2
      <3>3. QED
        BY <3>1, <3>2
    <2>7. \A i \in 1..Len(events) : /\ IsUserNews(i) => i <= fresh.row
                                    /\ IsUserNews(i) => i <= fresh.user
      BY <2>2 DEF IsUserNews, IsRowNews, RowTypes
    <2>8. ASSUME \A s \in Subs : ~Open(s)  PROVE RowsShowFree
      <3>1. row.sub = None /\ user.sub = None
        BY <2>2, <2>5, <2>7, <2>8 DEF RowFollows, UserFollows
      <3>2. QED
        BY <2>2, <3>1 DEF RowFollows, UserFollows, RowsShowFree
    <2>9. ASSUME NEW s \in Subs, Open(s), \A q \in Subs : Open(q) => q = s
          PROVE  RowsShow(s)
      <3>1. row.sub = s /\ user.sub = s /\ s # None
        BY <2>2, <2>6, <2>7, <2>9, NoneIsNothing DEF RowFollows, UserFollows
      <3>2. stripe[s].state \in {"live", "past_due"} /\ stripe[s].customer = row.customer
        BY <2>2, <2>9 DEF Open, OneCustomer
      <3>3. PICK e \in 1..Len(events) :
              /\ Latest(e, s, fresh.row)
              /\ row.status = StatusOf(events[e].now) /\ row.plan = events[e].now.plan
        BY <2>2, <3>1 DEF RowFollows
      <3>4. PICK x \in 1..Len(events) : Latest(x, s, Len(events)) /\ events[x].now = stripe[s]
        BY <2>2, <3>2 DEF NewsInv, Complete
      <3>5. Len(events) \in Nat
        BY <2>2, LenProperties DEF NewsTyped
      <3>6. e = x
        <4>1. x <= e
          BY <2>2, <3>3, <3>4 DEF Latest
        <4>2. e <= x
          BY <3>3, <3>4, <3>5 DEF Latest
        <4>3. QED
          BY <4>1, <4>2
      <3>7. row.status = StatusOf(stripe[s]) /\ row.plan = stripe[s].plan
        BY <3>3, <3>4, <3>6
      <3>8. /\ row.status = "canceled" <=> stripe[s].cancel
            /\ row.status = "active" <=> ~stripe[s].cancel /\ stripe[s].state = "live"
        BY <3>7 DEF StatusOf
      <3>9. user = [tier |-> stripe[s].plan, customer |-> stripe[s].customer, sub |-> s]
        <4>1. user \in UserRecord
          BY <2>2 DEF TypeInv, TablesTyped
        <4>2. user.tier = stripe[s].plan /\ user.customer = stripe[s].customer /\ user.sub = s
          BY <2>2, <3>1 DEF UserFollows
        <4>3. QED
          BY <4>1, <4>2 DEF UserRecord
      <3>10. QED
        BY <3>1, <3>2, <3>7, <3>8, <3>9 DEF RowsShow
    <2>10. QED
      BY <2>8, <2>9
  <1>2. QED
    BY <1>1, ConvergeHolds, PTL

=============================================================================
