-------------------------- MODULE TokenQuotaProofs --------------------------
(***************************************************************************)
(* Proofs about TokenQuota: the counters of the days are what their        *)
(* reservations cost, and never exceed the quota.                          *)
(***************************************************************************)
EXTENDS TokenQuota, FiniteSetTheorems, TLAPS

(* What the local state of a request says of its reservation: the entry    *)
(* names the day of the request, nothing is reserved before it arrives,    *)
(* and a committed request is over.                                        *)
EntriesMatch ==
  \A r \in Requests :
    /\ pending[r] # None => pending[r] = request[r].day /\ request[r].pc # "idle"
    /\ r \in kept => pending[r] = None /\ request[r].pc = "done"

Balanced(d) == consumed[d] = Cost * Cardinality(ChargedOn(d))

(* A counter that expired stays so: no request is about to charge it.      *)
Expired(d) ==
  /\ d + 1 < today
  /\ consumed[d] = 0
  /\ \A r \in Requests : ~(request[r].pc = "reserve" /\ request[r].day = d)

RedisTyped ==
  /\ consumed \in [Days -> Nat]
  /\ pending \in [Requests -> Days \cup {None}]
  /\ kept \subseteq Requests

LedgerMatches ==
  /\ RedisTyped
  /\ EntriesMatch
  /\ \A d \in Days : Balanced(d) \/ Expired(d)
  /\ \A d \in Days : consumed[d] <= Quota

LocalTyped ==
  /\ today \in Days
  /\ request \in [Requests -> RequestRecord]
  /\ sweeper \in [Sweepers -> Requests \cup {None}]
  /\ swept \subseteq Requests
  /\ faults \in Nat

LedgerInv == LocalTyped /\ LedgerMatches

(* Requests advance without arriving.                                      *)
Advance ==
  \A q \in Requests :
    /\ request'[q].day = request[q].day
    /\ request'[q].pc \in {"idle", "reserve"} => request'[q].pc = request[q].pc
    /\ request[q].pc = "done" => request'[q].pc = "done"

-----------------------------------------------------------------------------
(* The requests charged to a day are finitely many.                        *)
LEMMA ChargedFinite ==
  ASSUME NEW d
  PROVE  IsFiniteSet(ChargedOn(d)) /\ Cardinality(ChargedOn(d)) \in Nat
  <1>1. ChargedOn(d) \subseteq Requests
    BY DEF ChargedOn
  <1>2. IsFiniteSet(ChargedOn(d))
    BY <1>1, FS_Subset, QuotaAssumption
  <1>3. QED
    BY <1>2, FS_CardinalityType

(* Cost times a cardinality grows by Cost with each element.               *)
LEMMA CostStep ==
  ASSUME NEW n \in Nat
  PROVE  Cost * (n + 1) = Cost * n + Cost /\ Cost * n \in Nat
  BY QuotaAssumption

(* A step that leaves Redis alone leaves the ledger alone.                 *)
LEMMA LedgerUnmoved ==
  ASSUME LedgerInv, Advance, today' = today, UNCHANGED redis
  PROVE  LedgerMatches'
  <1>1. \A d \in Days : ChargedOn(d)' = ChargedOn(d)
    BY DEF ChargedOn, Advance, redis
  <1>2. EntriesMatch'
    BY DEF LedgerInv, LedgerMatches, EntriesMatch, Advance, redis
  <1>3. \A d \in Days : (Balanced(d) \/ Expired(d))'
    BY <1>1 DEF LedgerInv, LedgerMatches, Balanced, Expired, Advance, redis
  <1>4. RedisTyped' /\ \A d \in Days : consumed'[d] <= Quota
    BY DEF LedgerInv, LedgerMatches, RedisTyped, Days, redis
  <1>5. QED
    BY <1>2, <1>3, <1>4 DEF LedgerMatches

(* A reservation is charged once, to its day, within the quota.            *)
LEMMA LedgerReserve ==
  ASSUME LedgerInv, Advance, today' = today,
         NEW r \in Requests, request[r].pc = "reserve", ReserveLua(r)
  PROVE  LedgerMatches'
  <1>0. PICK d0 \in Days : d0 = request[r].day
    BY DEF LedgerInv, LocalTyped, RequestRecord
  <1>1. CASE ~(pending[r] = None /\ Fits(r))
    BY <1>1, LedgerUnmoved DEF ReserveLua, redis
  <1>2. CASE pending[r] = None /\ Fits(r)
    <2>1. /\ consumed' = [consumed EXCEPT ![d0] = @ + Cost]
          /\ pending' = [pending EXCEPT ![r] = d0]
          /\ kept' = kept
      BY <1>0, <1>2 DEF ReserveLua
    <2>2. r \notin kept /\ d0 # None
      BY <1>0, QuotaAssumption DEF LedgerInv, LedgerMatches, EntriesMatch, Days
    <2>3. ChargedOn(d0)' = ChargedOn(d0) \cup {r} /\ r \notin ChargedOn(d0)
      BY <1>0, <1>2, <2>1, <2>2 DEF ChargedOn, Advance, LedgerInv, LedgerMatches, RedisTyped
    <2>4. \A d \in Days \ {d0} : ChargedOn(d)' = ChargedOn(d)
      BY <1>0, <2>1 DEF ChargedOn, Advance, LedgerInv, LedgerMatches, RedisTyped
    <2>5. Cardinality(ChargedOn(d0))' = Cardinality(ChargedOn(d0)) + 1
      BY <2>3, ChargedFinite, FS_AddElement
    <2>6. Balanced(d0)
      BY <1>0 DEF LedgerInv, LedgerMatches, Expired
    <2>7. Balanced(d0)'
      BY <1>0, <2>1, <2>5, <2>6, ChargedFinite, CostStep
      DEF Balanced, LedgerInv, LedgerMatches, RedisTyped
    <2>8. \A d \in Days : (Balanced(d) \/ Expired(d))'
      BY <2>1, <2>4, <2>7
      DEF Balanced, Expired, Advance, LedgerInv, LedgerMatches, RedisTyped
    <2>9. EntriesMatch'
      BY <1>0, <2>1, <2>2 DEF EntriesMatch, Advance, LedgerInv, LedgerMatches, RedisTyped
    <2>10. RedisTyped'
      BY <1>0, <2>1, QuotaAssumption DEF RedisTyped, LedgerInv, LedgerMatches
    <2>11. \A d \in Days : consumed'[d] <= Quota
      BY <1>0, <1>2, <2>1 DEF Fits, LedgerInv, LedgerMatches, RedisTyped
    <2>12. QED
      BY <2>8, <2>9, <2>10, <2>11 DEF LedgerMatches
  <1>3. QED
    BY <1>1, <1>2

(* A commit moves a charge from pending to kept.                           *)
LEMMA LedgerCommit ==
  ASSUME LedgerInv, Advance, today' = today,
         NEW r \in Requests, request'[r].pc = "done", CommitLua(r)
  PROVE  LedgerMatches'
  <1>1. \A d \in Days : ChargedOn(d)' = ChargedOn(d)
    BY DEF CommitLua, ChargedOn, Advance, LedgerInv, LedgerMatches, RedisTyped
  <1>2. EntriesMatch'
    BY DEF CommitLua, EntriesMatch, Advance, LedgerInv, LedgerMatches, RedisTyped
  <1>3. \A d \in Days : (Balanced(d) \/ Expired(d))'
    BY <1>1 DEF CommitLua, LedgerInv, LedgerMatches, Balanced, Expired, Advance
  <1>4. RedisTyped' /\ \A d \in Days : consumed'[d] <= Quota
    BY DEF CommitLua, LedgerInv, LedgerMatches, RedisTyped
  <1>5. QED
    BY <1>2, <1>3, <1>4 DEF LedgerMatches

(* A release takes one charge off the day it was made on, and nothing off  *)
(* a counter that is gone.                                                 *)
LEMMA LedgerRelease ==
  ASSUME LedgerInv, Advance, today' = today,
         NEW r \in Requests, ReleaseLua(r)
  PROVE  LedgerMatches'
  <1>1. CASE pending[r] = None
    <2>1. UNCHANGED redis
      BY <1>1 DEF ReleaseLua, redis, LedgerInv, LedgerMatches, RedisTyped
    <2>2. QED
      BY <2>1, LedgerUnmoved
  <1>2. CASE pending[r] # None
    <2>0. PICK d0 \in Days : d0 = pending[r] /\ d0 = request[r].day /\ r \notin kept
      BY <1>2 DEF LedgerInv, LedgerMatches, RedisTyped, EntriesMatch
    <2>1. /\ consumed' = [consumed EXCEPT ![d0] = IF @ < Cost THEN 0 ELSE @ - Cost]
          /\ pending' = [pending EXCEPT ![r] = None]
          /\ kept' = kept
      BY <1>2, <2>0 DEF ReleaseLua
    <2>2. ChargedOn(d0)' = ChargedOn(d0) \ {r} /\ r \in ChargedOn(d0)
      BY <1>2, <2>0, <2>1 DEF ChargedOn, Advance, LedgerInv, LedgerMatches, RedisTyped
    <2>3. \A d \in Days \ {d0} : ChargedOn(d)' = ChargedOn(d)
      BY <2>0, <2>1 DEF ChargedOn, Advance, LedgerInv, LedgerMatches, RedisTyped
    <2>4. /\ Cardinality(ChargedOn(d0) \ {r}) = Cardinality(ChargedOn(d0)) - 1
          /\ Cardinality(ChargedOn(d0) \ {r}) \in Nat
      BY <2>2, ChargedFinite, FS_RemoveElement, FS_CardinalityType
    <2>5. /\ Cardinality(ChargedOn(d0)) = Cardinality(ChargedOn(d0))' + 1
          /\ Cardinality(ChargedOn(d0))' \in Nat
      BY <2>2, <2>4, ChargedFinite
    <2>6. (Balanced(d0) \/ Expired(d0))'
      <3>1. CASE Balanced(d0)
        BY <2>0, <2>1, <2>5, <3>1, CostStep, QuotaAssumption
        DEF Balanced, LedgerInv, LedgerMatches, RedisTyped
      <3>2. CASE Expired(d0)
        BY <2>0, <2>1, <3>2, QuotaAssumption
        DEF Expired, Advance, LedgerInv, LedgerMatches, RedisTyped
      <3>3. QED
        BY <2>0, <3>1, <3>2 DEF LedgerInv, LedgerMatches
    <2>7. \A d \in Days \ {d0} : (Balanced(d) \/ Expired(d))'
      BY <2>1, <2>3
      DEF Balanced, Expired, Advance, LedgerInv, LedgerMatches, RedisTyped
    <2>8. EntriesMatch'
      BY <2>0, <2>1 DEF EntriesMatch, Advance, LedgerInv, LedgerMatches, RedisTyped
    <2>9. /\ RedisTyped'
          /\ \A d \in Days : consumed'[d] <= Quota
      BY <2>0, <2>1, QuotaAssumption DEF LedgerInv, LedgerMatches, RedisTyped
    <2>10. QED
      BY <2>6, <2>7, <2>8, <2>9 DEF LedgerMatches
  <1>3. QED
    BY <1>1, <1>2

-----------------------------------------------------------------------------
(* A request that moves on inside its handler advances.                    *)
LEMMA GoToAdvances ==
  ASSUME LedgerInv, NEW r \in Requests, NEW pc, GoTo(r, pc), request[r].pc # "done",
         pc \in {"admitted", "running", "commit", "release", "done"}
  PROVE  Advance /\ request'[r].pc = pc /\ request' \in [Requests -> RequestRecord]
  <1>1. /\ request \in [Requests -> RequestRecord]
        /\ request' = [request EXCEPT ![r].pc = pc]
    BY DEF GoTo, LedgerInv, LocalTyped
  <1>2. request' \in [Requests -> RequestRecord]
    BY <1>1 DEF RequestRecord
  <1>3. request'[r].pc = pc /\ request'[r].day = request[r].day
    BY <1>1 DEF RequestRecord
  <1>4. \A q \in Requests \ {r} : request'[q] = request[q]
    BY <1>1
  <1>5. QED
    BY <1>2, <1>3, <1>4 DEF Advance

(* Every step keeps the local state well typed.                            *)
LEMMA LocalStep ==
  ASSUME LedgerInv, [Next]_vars
  PROVE  LocalTyped'
  <1> USE DEF LedgerInv, LocalTyped
  <1>1. ASSUME NEW r \in Requests, Arrive(r)  PROVE LocalTyped'
    BY <1>1 DEF Arrive, RequestRecord
  <1>2. ASSUME NEW r \in Requests, Disconnect(r)  PROVE LocalTyped'
    <2>1. CASE request' = [request EXCEPT ![r].gone = TRUE]
      BY <1>2, <2>1 DEF Disconnect, RequestRecord
    <2>2. CASE request[r].pc = "running" /\ GoTo(r, "release")
      BY <1>2, <2>2, GoToAdvances DEF Disconnect
    <2>3. QED
      BY <1>2, <2>1, <2>2 DEF Disconnect
  <1>3. ASSUME NEW r \in Requests, Complete(r)  PROVE LocalTyped'
    BY <1>3 DEF Complete, RequestRecord
  <1>4. ASSUME NEW r \in Requests, Reserve(r)  PROVE LocalTyped'
    <2>1. PICK pc \in {"admitted", "done"} : GoTo(r, pc)
      BY <1>4 DEF Reserve
    <2>2. QED
      BY <1>4, <2>1, GoToAdvances DEF Reserve
  <1>5. ASSUME NEW r \in Requests, HandleReply(r)  PROVE LocalTyped'
    <2>1. PICK pc \in {"release", "running"} : GoTo(r, pc)
      BY <1>5 DEF HandleReply
    <2>2. QED
      BY <1>5, <2>1, GoToAdvances DEF HandleReply
  <1>6. ASSUME NEW r \in Requests, Commit(r) \/ Release(r) \/ ControllerThrows(r)
        PROVE  LocalTyped'
    BY <1>6, GoToAdvances DEF Commit, Release, ControllerThrows
  <1>7. ASSUME NEW r \in Requests,
               ReserveResent(r) \/ ReserveThrows(r) \/ ResolveThrows(r) \/ ApiDies(r)
        PROVE  LocalTyped'
    BY <1>7, GoToAdvances DEF ReserveResent, ReserveThrows, ResolveThrows, ApiDies, Fault
  <1>8. CASE \E s \in Sweepers : \/ SweepRelease(s) \/ SweepThrows(s)
                                 \/ \E r \in Requests : SweepRead(s, r)
    BY <1>8 DEF SweepRelease, SweepThrows, SweepRead, Fault
  <1>9. CASE NextDay \/ \E d \in Days : ExpireCounter(d)
    BY <1>9, QuotaAssumption DEF NextDay, ExpireCounter, Days
  <1>10. CASE UNCHANGED vars
    BY <1>10 DEF vars
  <1>11. QED
    BY <1>1, <1>2, <1>3, <1>4, <1>5, <1>6, <1>7, <1>8, <1>9, <1>10
    DEF Next, RequestStep, RouteEnds

(* Every step keeps the counters equal to what they stand for.             *)
LEMMA LedgerStep ==
  ASSUME LedgerInv, [Next]_vars
  PROVE  LedgerMatches'
  <1>1. ASSUME NEW r \in Requests, Arrive(r)  PROVE LedgerMatches'
    <2>1. /\ request[r].pc = "idle"
          /\ request' = [request EXCEPT ![r].pc = "reserve", ![r].day = today]
          /\ UNCHANGED <<today, consumed, pending, kept>>
      BY <1>1 DEF Arrive, redis
    <2>2. pending[r] = None /\ r \notin kept
      BY <2>1 DEF LedgerInv, LedgerMatches, EntriesMatch
    <2>3. \A d \in Days : ChargedOn(d)' = ChargedOn(d)
      BY <2>1, <2>2 DEF ChargedOn, LedgerInv, LocalTyped
    <2>4. EntriesMatch'
      BY <2>1, <2>2 DEF EntriesMatch, LedgerInv, LocalTyped, LedgerMatches
    <2>5. \A d \in Days : (Balanced(d) \/ Expired(d))'
      BY <2>1, <2>3 DEF Balanced, Expired, LedgerInv, LocalTyped, LedgerMatches, Days
    <2>6. RedisTyped' /\ \A d \in Days : consumed'[d] <= Quota
      BY <2>1 DEF LedgerInv, LedgerMatches, RedisTyped
    <2>7. QED
      BY <2>4, <2>5, <2>6 DEF LedgerMatches
  <1>2. ASSUME NEW r \in Requests, Reserve(r) \/ ReserveResent(r)
        PROVE  LedgerMatches'
    <2>1. today' = today /\ request[r].pc = "reserve" /\ ReserveLua(r)
      BY <1>2 DEF Reserve, ReserveResent
    <2>2. Advance
      <3>1. CASE Reserve(r)
        <4>1. PICK pc \in {"admitted", "done"} : GoTo(r, pc)
          BY <3>1 DEF Reserve
        <4>2. QED
          BY <2>1, <4>1, GoToAdvances
      <3>2. CASE ReserveResent(r)
        BY <3>2 DEF ReserveResent, Advance
      <3>3. QED
        BY <1>2, <3>1, <3>2
    <2>3. QED
      BY <2>1, <2>2, LedgerReserve
  <1>3. ASSUME NEW r \in Requests, ReserveThrows(r)  PROVE LedgerMatches'
    <2>1. Advance /\ today' = today /\ request[r].pc = "reserve"
      BY <1>3, GoToAdvances DEF ReserveThrows
    <2>2. ReserveLua(r) \/ UNCHANGED redis
      BY <1>3 DEF ReserveThrows
    <2>3. QED
      BY <2>1, <2>2, LedgerReserve, LedgerUnmoved
  <1>4. ASSUME NEW r \in Requests,
               HandleReply(r) \/ RouteEnds(r) \/ Disconnect(r) \/ ApiDies(r)
        PROVE  LedgerMatches'
    <2>1. today' = today /\ UNCHANGED redis
      BY <1>4 DEF HandleReply, RouteEnds, Complete, ControllerThrows, Disconnect, ApiDies
    <2>2. Advance
      <3>1. CASE HandleReply(r)
        <4>1. PICK pc \in {"release", "running"} : GoTo(r, pc)
          BY <3>1 DEF HandleReply
        <4>2. QED
          BY <3>1, <4>1, GoToAdvances DEF HandleReply
      <3>2. CASE ControllerThrows(r) \/ ApiDies(r)
        BY <3>2, GoToAdvances DEF ControllerThrows, ApiDies
      <3>3. CASE Complete(r)
        BY <3>3 DEF Complete, Advance, LedgerInv, LocalTyped, RequestRecord
      <3>4. CASE Disconnect(r)
        <4>1. CASE request' = [request EXCEPT ![r].gone = TRUE]
          BY <4>1 DEF Advance, LedgerInv, LocalTyped, RequestRecord
        <4>2. CASE request[r].pc = "running" /\ GoTo(r, "release")
          BY <4>2, GoToAdvances
        <4>3. QED
          BY <3>4, <4>1, <4>2 DEF Disconnect
      <3>5. QED
        BY <1>4, <3>1, <3>2, <3>3, <3>4 DEF RouteEnds
    <2>3. QED
      BY <2>1, <2>2, LedgerUnmoved
  <1>5. ASSUME NEW r \in Requests, Commit(r) \/ Release(r) \/ ResolveThrows(r)
        PROVE  LedgerMatches'
    <2>1. Advance /\ today' = today /\ request'[r].pc = "done"
      BY <1>5, GoToAdvances DEF Commit, Release, ResolveThrows
    <2>2. CommitLua(r) \/ ReleaseLua(r) \/ UNCHANGED redis
      BY <1>5 DEF Commit, Release, ResolveThrows
    <2>3. QED
      BY <2>1, <2>2, LedgerCommit, LedgerRelease, LedgerUnmoved
  <1>6. ASSUME NEW s \in Sweepers, SweepRelease(s) \/ SweepThrows(s)
        PROVE  LedgerMatches'
    <2>1. Advance /\ today' = today
      BY <1>6 DEF SweepRelease, SweepThrows, Advance, LedgerInv, LocalTyped
    <2>2. /\ sweeper[s] \in Requests
          /\ ReleaseLua(sweeper[s]) \/ UNCHANGED redis
      BY <1>6 DEF SweepRelease, SweepThrows, LedgerInv, LocalTyped
    <2>3. QED
      BY <2>1, <2>2, LedgerRelease, LedgerUnmoved
  <1>7. ASSUME NEW s \in Sweepers, NEW r \in Requests, SweepRead(s, r)
        PROVE  LedgerMatches'
    <2>1. Advance /\ today' = today /\ UNCHANGED redis
      BY <1>7 DEF SweepRead, Advance
    <2>2. QED
      BY <2>1, LedgerUnmoved
  <1>8. CASE NextDay
    <2>1. /\ today' = today + 1
          /\ UNCHANGED <<consumed, pending, kept, request>>
      BY <1>8 DEF NextDay, redis
    <2>2. \A d \in Days : ChargedOn(d)' = ChargedOn(d)
      BY <2>1 DEF ChargedOn
    <2>3. \A d \in Days : (Balanced(d) \/ Expired(d))'
      BY <2>1, <2>2, QuotaAssumption
      DEF Balanced, Expired, LedgerInv, LocalTyped, LedgerMatches, Days
    <2>4. QED
      BY <2>1, <2>3 DEF LedgerInv, LedgerMatches, EntriesMatch, RedisTyped
  <1>9. ASSUME NEW d \in Days, ExpireCounter(d)  PROVE LedgerMatches'
    <2>1. /\ consumed' = [consumed EXCEPT ![d] = 0]
          /\ UNCHANGED <<today, pending, kept, request>>
          /\ d + 1 < today
          /\ \A r \in Requests : ~(request[r].pc = "reserve" /\ request[r].day = d)
      BY <1>9 DEF ExpireCounter
    <2>2. \A e \in Days : ChargedOn(e)' = ChargedOn(e)
      BY <2>1 DEF ChargedOn
    <2>3. Expired(d)'
      BY <2>1 DEF Expired, LedgerInv, LedgerMatches, RedisTyped
    <2>4. \A e \in Days : (Balanced(e) \/ Expired(e))'
      BY <2>1, <2>2, <2>3 DEF Balanced, Expired, LedgerInv, LedgerMatches, RedisTyped
    <2>5. RedisTyped' /\ \A e \in Days : consumed'[e] <= Quota
      BY <2>1, QuotaAssumption DEF LedgerInv, LedgerMatches, RedisTyped
    <2>6. QED
      BY <2>1, <2>4, <2>5 DEF LedgerInv, LedgerMatches, EntriesMatch
  <1>10. CASE UNCHANGED vars
    <2>1. Advance /\ today' = today /\ UNCHANGED redis
      BY <1>10 DEF vars, redis, Advance
    <2>2. QED
      BY <2>1, LedgerUnmoved
  <1>11. QED
    BY <1>1, <1>2, <1>3, <1>4, <1>5, <1>6, <1>7, <1>8, <1>9, <1>10
    DEF Next, RequestStep

(* The invariant holds of every reachable state.                           *)
LEMMA LedgerHolds == Spec => []LedgerInv
  <1>1. Init => LedgerInv
    <2> SUFFICES ASSUME Init PROVE LedgerInv
      OBVIOUS
    <2>1. LocalTyped
      BY QuotaAssumption DEF Init, LocalTyped, IdleRequest, RequestRecord, Days
    <2>2. \A d \in Days : ChargedOn(d) = {}
      BY DEF Init, ChargedOn
    <2>3. \A d \in Days : Balanced(d)
      <3>1. Cost * 0 = 0
        BY QuotaAssumption
      <3>2. ASSUME NEW d \in Days  PROVE consumed[d] = 0 /\ Cardinality(ChargedOn(d)) = 0
        BY <2>2, FS_EmptySet DEF Init
      <3>3. QED
        BY <3>1, <3>2 DEF Balanced
    <2>4. RedisTyped /\ EntriesMatch /\ \A d \in Days : consumed[d] <= Quota
      BY QuotaAssumption DEF Init, RedisTyped, EntriesMatch
    <2>5. QED
      BY <2>1, <2>3, <2>4 DEF LedgerInv, LedgerMatches
  <1>2. LedgerInv /\ [Next]_vars => LedgerInv'
    BY LocalStep, LedgerStep DEF LedgerInv
  <1>3. QED
    BY <1>1, <1>2, PTL DEF Spec

-----------------------------------------------------------------------------
(* Charges and service.                                                    *)

(* What the point a request is at says of its service and its charge.      *)
Charged(r) ==
  /\ request[r].served => request[r].pc \in {"commit", "done"}
  /\ request[r].pc = "commit" => request[r].served
  /\ r \in kept => request[r].served
  /\ faults = 0 /\ request[r].pc \in {"admitted", "running", "commit"}
       => pending[r] # None \/ r \in swept
  /\ faults = 0 /\ request[r].pc = "done" /\ request[r].served
       => r \in kept \cup swept

ServiceInv == \A r \in Requests : Charged(r)

(* What no step does to the request q: move it from where it is, take its  *)
(* entry, forget that it was kept or swept, or undo a fault.               *)
LeavesAlone(q) ==
  /\ request'[q] = request[q]
  /\ pending'[q] = pending[q]
  /\ q \in kept' <=> q \in kept
  /\ q \in swept => q \in swept'
  /\ faults' = 0 => faults = 0

LEMMA ChargedUnmoved ==
  ASSUME NEW q \in Requests, Charged(q), LeavesAlone(q)
  PROVE  Charged(q)'
  BY DEF Charged, LeavesAlone

LEMMA FaultCounts ==
  ASSUME faults \in Nat, NEW kind, Fault(kind)
  PROVE  faults' # 0
  BY DEF Fault

(* What GoTo does to a request.                                            *)
LEMMA GoToMoves ==
  ASSUME LocalTyped, NEW r \in Requests, NEW pc, GoTo(r, pc)
  PROVE  /\ request'[r].pc = pc /\ request'[r].served = request[r].served
         /\ \A q \in Requests : q # r => request'[q] = request[q]
  BY DEF GoTo, LocalTyped, RequestRecord

(* The steps of one request, beside the others.                            *)
LEMMA ServiceOfOne ==
  ASSUME LedgerInv, ServiceInv, NEW r \in Requests,
         UNCHANGED swept, faults' = 0 => faults = 0,
         \A q \in Requests : q # r => /\ request'[q] = request[q]
                                      /\ pending'[q] = pending[q]
                                      /\ (q \in kept' <=> q \in kept),
         Charged(r)'
  PROVE  ServiceInv'
  <1>1. ASSUME NEW q \in Requests PROVE Charged(q)'
    <2>1. CASE q = r
      BY <2>1
    <2>2. CASE q # r
      BY <2>2, ChargedUnmoved DEF ServiceInv, LeavesAlone
    <2>3. QED
      BY <2>1, <2>2
  <1>2. QED
    BY <1>1 DEF ServiceInv

(* The scripts change the entry of one request.                            *)
LEMMA ScriptsOfOne ==
  ASSUME LedgerInv, NEW r \in Requests,
         ReserveLua(r) \/ CommitLua(r) \/ ReleaseLua(r) \/ UNCHANGED redis
  PROVE  \A q \in Requests : q # r => /\ pending'[q] = pending[q]
                                      /\ (q \in kept' <=> q \in kept)
  BY DEF ReserveLua, CommitLua, ReleaseLua, redis, LedgerInv, LedgerMatches, RedisTyped

LEMMA ServiceRequest ==
  ASSUME LedgerInv, ServiceInv, NEW r \in Requests,
         \/ Arrive(r) \/ RequestStep(r) \/ RouteEnds(r) \/ Disconnect(r)
         \/ ReserveResent(r) \/ ReserveThrows(r) \/ ResolveThrows(r) \/ ApiDies(r)
  PROVE  ServiceInv'
  <1>1. /\ Charged(r) /\ LocalTyped /\ faults \in Nat
        /\ pending \in [Requests -> Days \cup {None}] /\ None \notin Days
    BY QuotaAssumption DEF ServiceInv, LedgerInv, LocalTyped, LedgerMatches, RedisTyped, Days
  <1>2. CASE Arrive(r)
    <2>1. /\ request'[r].pc = "reserve" /\ request'[r].served = request[r].served
          /\ \A q \in Requests : q # r => request'[q] = request[q]
          /\ UNCHANGED <<pending, kept, swept, faults>> /\ request[r].pc = "idle"
      BY <1>1, <1>2 DEF Arrive, redis, LocalTyped, RequestRecord
    <2>2. QED
      BY <1>1, <2>1, ServiceOfOne DEF Charged
  <1>3. CASE Reserve(r)
    <2>1. /\ request[r].pc = "reserve" /\ ReserveLua(r) /\ UNCHANGED <<swept, faults>>
          /\ GoTo(r, IF Admitted(r) THEN "admitted" ELSE "done")
      BY <1>3 DEF Reserve
    <2>2. Admitted(r) => pending'[r] # None
      BY <1>1, <2>1 DEF Admitted, ReserveLua, LocalTyped, RequestRecord
    <2>3. Charged(r)'
      BY <1>1, <2>1, <2>2, GoToMoves DEF Charged, ReserveLua
    <2>4. QED
      BY <1>1, <2>1, <2>3, GoToMoves, ScriptsOfOne, ServiceOfOne
  <1>4. CASE ReserveResent(r)
    <2>1. /\ request[r].pc = "reserve" /\ ReserveLua(r) /\ UNCHANGED <<request, swept>>
          /\ faults' # 0
      BY <1>1, <1>4, FaultCounts DEF ReserveResent
    <2>2. Charged(r)'
      BY <1>1, <2>1 DEF Charged, ReserveLua
    <2>3. QED
      BY <2>1, <2>2, ScriptsOfOne, ServiceOfOne
  <1>5. CASE ReserveThrows(r)
    <2>1. /\ request[r].pc = "reserve" /\ (ReserveLua(r) \/ UNCHANGED redis)
          /\ GoTo(r, "done") /\ UNCHANGED swept /\ faults' # 0
      BY <1>1, <1>5, FaultCounts DEF ReserveThrows
    <2>2. Charged(r)'
      BY <1>1, <2>1, GoToMoves DEF Charged, ReserveLua, redis
    <2>3. QED
      BY <1>1, <2>1, <2>2, GoToMoves, ScriptsOfOne, ServiceOfOne
  <1>6. CASE HandleReply(r) \/ ControllerThrows(r)
    <2>1. PICK pc \in {"release", "running"} : GoTo(r, pc)
      BY <1>6 DEF HandleReply, ControllerThrows
    <2>2. /\ UNCHANGED <<redis, swept, faults>>
          /\ request[r].pc \in {"admitted", "running"}
      BY <1>6 DEF HandleReply, ControllerThrows
    <2>3. Charged(r)'
      BY <1>1, <2>1, <2>2, GoToMoves DEF Charged, redis
    <2>4. QED
      BY <1>1, <2>1, <2>2, <2>3, GoToMoves, ScriptsOfOne, ServiceOfOne
  <1>7. CASE Complete(r)
    <2>1. /\ request'[r].pc = "commit" /\ request'[r].served
          /\ \A q \in Requests : q # r => request'[q] = request[q]
          /\ UNCHANGED <<pending, kept, swept, faults>> /\ request[r].pc = "running"
      BY <1>1, <1>7 DEF Complete, redis, LocalTyped, RequestRecord
    <2>2. QED
      BY <1>1, <2>1, ServiceOfOne DEF Charged
  <1>8. CASE Disconnect(r)
    <2>1. UNCHANGED <<redis, swept, faults>>
      BY <1>8 DEF Disconnect
    <2>2. CASE request' = [request EXCEPT ![r].gone = TRUE]
      <3>1. /\ request'[r].pc = request[r].pc /\ request'[r].served = request[r].served
            /\ \A q \in Requests : q # r => request'[q] = request[q]
        BY <1>1, <2>2 DEF LocalTyped, RequestRecord
      <3>2. Charged(r)'
        BY <1>1, <2>1, <3>1 DEF Charged, redis
      <3>3. QED
        BY <2>1, <3>1, <3>2, ScriptsOfOne, ServiceOfOne
    <2>3. CASE request[r].pc = "running" /\ GoTo(r, "release")
      <3>1. Charged(r)'
        BY <1>1, <2>1, <2>3, GoToMoves DEF Charged, redis
      <3>2. QED
        BY <1>1, <2>1, <2>3, <3>1, GoToMoves, ScriptsOfOne, ServiceOfOne
    <2>4. QED
      BY <1>8, <2>2, <2>3 DEF Disconnect
  <1>9. CASE Commit(r)
    <2>1. /\ request[r].pc = "commit" /\ CommitLua(r) /\ GoTo(r, "done")
          /\ UNCHANGED <<swept, faults>>
      BY <1>9 DEF Commit
    <2>2. Charged(r)'
      BY <1>1, <2>1, GoToMoves DEF Charged, CommitLua
    <2>3. QED
      BY <1>1, <2>1, <2>2, GoToMoves, ScriptsOfOne, ServiceOfOne
  <1>10. CASE Release(r)
    <2>1. /\ request[r].pc = "release" /\ ReleaseLua(r) /\ GoTo(r, "done")
          /\ UNCHANGED <<swept, faults>>
      BY <1>10 DEF Release
    <2>2. Charged(r)'
      BY <1>1, <2>1, GoToMoves DEF Charged, ReleaseLua
    <2>3. QED
      BY <1>1, <2>1, <2>2, GoToMoves, ScriptsOfOne, ServiceOfOne
  <1>11. CASE ResolveThrows(r) \/ ApiDies(r)
    <2>1. /\ GoTo(r, "done") /\ UNCHANGED swept /\ faults' # 0
          /\ \/ CommitLua(r) /\ request[r].pc = "commit"
             \/ ReleaseLua(r) \/ UNCHANGED redis
      BY <1>1, <1>11, FaultCounts DEF ResolveThrows, ApiDies
    <2>2. Charged(r)'
      BY <1>1, <2>1, GoToMoves DEF Charged, CommitLua, ReleaseLua, redis
    <2>3. QED
      BY <1>1, <2>1, <2>2, GoToMoves, ScriptsOfOne, ServiceOfOne
  <1>12. QED
    BY <1>2, <1>3, <1>4, <1>5, <1>6, <1>7, <1>8, <1>9, <1>10, <1>11
    DEF RequestStep, RouteEnds

(* A sweep takes the entry of a request, and says so.                      *)
LEMMA ServiceSweep ==
  ASSUME LedgerInv, ServiceInv, NEW s \in Sweepers, SweepRelease(s) \/ SweepThrows(s)
  PROVE  ServiceInv'
  <1> DEFINE r == sweeper[s]
  <1>1. r \in Requests /\ request' = request /\ (faults' = 0 => faults = 0)
    BY FaultCounts DEF SweepRelease, SweepThrows, LedgerInv, LocalTyped
  <1>2. \/ UNCHANGED <<redis, swept>>
        \/ /\ ReleaseLua(r)
           /\ swept' = IF pending[r] = None THEN swept ELSE swept \cup {r}
    BY DEF SweepRelease, SweepThrows
  <1>3. UNCHANGED kept /\ (r \in swept' \/ pending'[r] = pending[r])
    BY <1>1, <1>2 DEF ReleaseLua, redis, LedgerInv, LedgerMatches, RedisTyped
  <1>4. \A q \in Requests : q # r => pending'[q] = pending[q]
    BY <1>1, <1>2, ScriptsOfOne DEF redis
  <1>5. \A q \in Requests : q \in swept => q \in swept'
    BY <1>2
  <1>6. ASSUME NEW q \in Requests PROVE Charged(q)'
    <2>1. CASE q = r
      BY <1>1, <1>3, <1>5, <2>1 DEF ServiceInv, Charged
    <2>2. CASE q # r
      BY <1>1, <1>3, <1>4, <1>5, <2>2, ChargedUnmoved DEF ServiceInv, LeavesAlone
    <2>3. QED
      BY <2>1, <2>2
  <1>7. QED
    BY <1>6 DEF ServiceInv

LEMMA ServiceStep ==
  ASSUME LedgerInv, ServiceInv, [Next]_vars
  PROVE  ServiceInv'
  <1>1. ASSUME UNCHANGED <<request, pending, kept, swept, faults>> PROVE ServiceInv'
    BY <1>1 DEF ServiceInv, Charged
  <1>2. CASE \E s \in Sweepers, r \in Requests : SweepRead(s, r)
    BY <1>1, <1>2 DEF SweepRead, redis
  <1>3. CASE NextDay \/ \E d \in Days : ExpireCounter(d)
    BY <1>1, <1>3 DEF NextDay, ExpireCounter, redis
  <1>4. CASE UNCHANGED vars
    BY <1>1, <1>4 DEF vars
  <1>5. QED
    BY <1>2, <1>3, <1>4, ServiceRequest, ServiceSweep DEF Next

(* The state is always well typed: in particular no refund recreates a     *)
(* counter that is gone below zero.                                        *)
THEOREM TypeCorrect == Spec => []TypeOK
  <1>1. LedgerInv => TypeOK
    BY DEF LedgerInv, LocalTyped, LedgerMatches, RedisTyped, TypeOK
  <1>2. QED
    BY <1>1, LedgerHolds, PTL

(* Nobody is charged twice or refunded twice, whatever is resent, lost or  *)
(* swept: a counter is what its reservations cost until it expires.        *)
THEOREM LedgerIsExact == Spec => []LedgerBalances
  <1>1. LedgerInv => LedgerBalances
    BY DEF LedgerInv, LedgerMatches, LedgerBalances, Balanced, Expired
  <1>2. QED
    BY <1>1, LedgerHolds, PTL

(* Any number of concurrent requests stays within the daily quota.         *)
THEOREM QuotaIsKept == Spec => []WithinQuota
  <1>1. LedgerInv => WithinQuota
    BY DEF LedgerInv, LedgerMatches, WithinQuota
  <1>2. QED
    BY <1>1, LedgerHolds, PTL

(* A charge stays exactly on what was served, whatever the interleaving,   *)
(* as far as no fault and no sweep came between.                           *)
THEOREM ChargesFollowService == Spec => []ChargeFollowsService
  <1>1. Init => ServiceInv
    BY DEF Init, ServiceInv, Charged, IdleRequest
  <1>2. LedgerInv /\ ServiceInv /\ [Next]_vars => ServiceInv'
    BY ServiceStep
  <1>3. ServiceInv => ChargeFollowsService
    BY DEF ServiceInv, Charged, ChargeFollowsService
  <1>4. QED
    BY <1>1, <1>2, <1>3, LedgerHolds, PTL DEF Spec

=============================================================================
