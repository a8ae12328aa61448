----------------------------- MODULE TokenQuota -----------------------------
(***************************************************************************)
(* The daily token quota: the Lua scripts of TokenAccountant over the day  *)
(* counters and the hash of pending reservations in Redis, the             *)
(* QuotaInterceptor that reserves before a decorated route runs and        *)
(* commits or releases after it, and the LeakReconciliationWorker that     *)
(* releases what was left behind.                                          *)
(*                                                                         *)
(* The requests are those of one user: users share no counter, and entries *)
(* of the hash are per request.  They cost the same: one route is          *)
(* decorated.  A missing counter reads as 0.  Each action is one script,   *)
(* or one local step of a request or of the sweep between two awaits.      *)
(***************************************************************************)
EXTENDS Naturals, FiniteSets

CONSTANTS
  Requests,             \* reqIds (random UUIDs, one per HTTP request)
  Sweepers,             \* sweeps under way, of all API instances
  None,                 \* no day, no request
  Cost, Quota,          \* @TokenCost of the route, DEFAULT_DAILY_QUOTA
  MaxDay,               \* bound: UTC days that pass
  FaultKinds, MaxFaults \* which faults may happen, and how many in all

ASSUME QuotaAssumption ==
  /\ IsFiniteSet(Requests)
  /\ Cost \in Nat \ {0} /\ Quota \in Nat /\ MaxDay \in Nat /\ MaxFaults \in Nat
  /\ None \notin Nat \cup Requests

VARIABLES
  today,     \* the current UTC day
  consumed,  \* tokens_consumed of each day
  pending,   \* pending_reservations: the day a reservation was charged to
  request,   \* local state of each request
  sweeper,   \* the item each sweep is about to release
  kept,      \* history: the requests a commit took out of the hash
  swept,     \* history: the requests a sweep took out of the hash
  faults     \* faults so far

vars == <<today, consumed, pending, request, sweeper, kept, swept, faults>>

Days == 0..MaxDay

RequestRecord ==
  [pc : {"idle", "reserve", "admitted", "running", "commit", "release", "done"},
   day : Days, gone : BOOLEAN, served : BOOLEAN]
IdleRequest == [pc |-> "idle", day |-> 0, gone |-> FALSE, served |-> FALSE]

TypeOK ==
  /\ today \in Days
  /\ consumed \in [Days -> Nat]
  /\ pending \in [Requests -> Days \cup {None}]
  /\ request \in [Requests -> RequestRecord]
  /\ sweeper \in [Sweepers -> Requests \cup {None}]
  /\ kept \subseteq Requests
  /\ swept \subseteq Requests
  /\ faults \in Nat

Init ==
  /\ today = 0
  /\ consumed = [d \in Days |-> 0]
  /\ pending = [r \in Requests |-> None]
  /\ request = [r \in Requests |-> IdleRequest]
  /\ sweeper = [s \in Sweepers |-> None]
  /\ kept = {}
  /\ swept = {}
  /\ faults = 0

(* A fault of a kind the scenario allows, within its budget.               *)
Fault(kind) ==
  /\ kind \in FaultKinds
  /\ faults < MaxFaults
  /\ faults' = faults + 1

GoTo(r, pc) == request' = [request EXCEPT ![r].pc = pc]
redis == <<consumed, pending, kept>>

-----------------------------------------------------------------------------
(* The scripts of TokenAccountant, each atomic in Redis.                   *)

(* Mutant of Fits: the cost of the request itself is not counted.          *)
FitsBefore(r) == consumed[request[r].day] < Quota

Fits(r) == consumed[request[r].day] + Cost <= Quota

(* RESERVE_LUA: a request that is pending already is admitted as it is.    *)
ReserveLua(r) ==
  LET d == request[r].day IN
  /\ IF pending[r] = None /\ Fits(r)
     THEN /\ consumed' = [consumed EXCEPT ![d] = @ + Cost]
          /\ pending' = [pending EXCEPT ![r] = d]
     ELSE UNCHANGED <<consumed, pending>>
  /\ UNCHANGED kept

Admitted(r) == pending[r] # None \/ Fits(r)

(* COMMIT_LUA.                                                             *)
CommitLua(r) ==
  /\ pending' = [pending EXCEPT ![r] = None]
  /\ kept' = IF pending[r] = None THEN kept ELSE kept \cup {r}
  /\ UNCHANGED consumed

(* Mutants of ReleaseLua: a missing counter is recreated below zero; the   *)
(* refund goes to today's counter; an entry whose counter is gone is left  *)
(* in the hash.                                                            *)
ReleaseUnfloored(r) ==
  /\ consumed' = IF pending[r] = None THEN consumed
                 ELSE [consumed EXCEPT ![pending[r]] = @ - Cost]
  /\ pending' = [pending EXCEPT ![r] = None]
  /\ UNCHANGED kept
ReleaseToday(r) ==
  /\ consumed' = IF pending[r] = None THEN consumed
                 ELSE [consumed EXCEPT ![today] = IF @ < Cost THEN 0 ELSE @ - Cost]
  /\ pending' = [pending EXCEPT ![r] = None]
  /\ UNCHANGED kept
ReleaseIfCounted(r) ==
  /\ IF pending[r] = None \/ consumed[pending[r]] = 0
     THEN UNCHANGED <<consumed, pending>>
     ELSE /\ consumed' = [consumed EXCEPT ![pending[r]] =
                            IF @ < Cost THEN 0 ELSE @ - Cost]
          /\ pending' = [pending EXCEPT ![r] = None]
  /\ UNCHANGED kept

(* RELEASE_LUA: removing the entry is a one-shot mutex; the counter that   *)
(* was charged gets the cost back, down to zero at most.                   *)
ReleaseLua(r) ==
  /\ consumed' = IF pending[r] = None THEN consumed
                 ELSE [consumed EXCEPT ![pending[r]] =
                         IF @ < Cost THEN 0 ELSE @ - Cost]
  /\ pending' = [pending EXCEPT ![r] = None]
  /\ UNCHANGED kept

-----------------------------------------------------------------------------
(* QuotaInterceptor.intercept                                              *)

(* The key of the day is computed when the request arrives.                *)
Arrive(r) ==
  /\ request[r].pc = "idle"
  /\ request' = [request EXCEPT ![r].pc = "reserve", ![r].day = today]
  /\ UNCHANGED <<redis, today, sweeper, swept, faults>>

(* A refused request is answered with 402 and is over.                     *)
Reserve(r) ==
  /\ request[r].pc = "reserve"
  /\ ReserveLua(r)
  /\ GoTo(r, IF Admitted(r) THEN "admitted" ELSE "done")
  /\ UNCHANGED <<today, sweeper, swept, faults>>

(* The connection drops after the script ran: the client sends it again.   *)
ReserveResent(r) ==
  /\ request[r].pc = "reserve"
  /\ Fault("resend")
  /\ ReserveLua(r)
  /\ UNCHANGED <<request, today, sweeper, swept>>

(* reserve throws, whether or not the script ran: 503, nothing is undone.  *)
ReserveThrows(r) ==
  /\ request[r].pc = "reserve"
  /\ Fault("redis")
  /\ ReserveLua(r) \/ UNCHANGED redis
  /\ GoTo(r, "done")
  /\ UNCHANGED <<today, sweeper, swept>>

(* The reply: the route runs, unless the client has gone meanwhile.        *)
HandleReply(r) ==
  /\ request[r].pc = "admitted"
  /\ GoTo(r, IF request[r].gone THEN "release" ELSE "running")
  /\ UNCHANGED <<redis, today, sweeper, swept, faults>>

(* Mutant of Disconnect: without the latch resolved, finalize releases a   *)
(* reservation that is being committed.                                    *)
DisconnectUnlatched(r) ==
  /\ \/ /\ request[r].pc \in {"reserve", "admitted"}
        /\ request' = [request EXCEPT ![r].gone = TRUE]
     \/ /\ request[r].pc \in {"running", "commit"}
        /\ GoTo(r, "release")
  /\ UNCHANGED <<redis, today, sweeper, swept, faults>>

(* The client disconnects: noted while the reservation is under way;       *)
(* finalize releases a running request; after that it changes nothing.     *)
Disconnect(r) ==
  /\ \/ /\ request[r].pc \in {"reserve", "admitted"} /\ ~request[r].gone
        /\ request' = [request EXCEPT ![r].gone = TRUE]
     \/ /\ request[r].pc = "running"
        /\ GoTo(r, "release")
  /\ UNCHANGED <<redis, today, sweeper, swept, faults>>

Complete(r) ==
  /\ request[r].pc = "running"
  /\ request' = [request EXCEPT ![r].pc = "commit", ![r].served = TRUE]
  /\ UNCHANGED <<redis, today, sweeper, swept, faults>>

ControllerThrows(r) ==
  /\ request[r].pc = "running"
  /\ GoTo(r, "release")
  /\ UNCHANGED <<redis, today, sweeper, swept, faults>>

Commit(r) ==
  /\ request[r].pc = "commit"
  /\ CommitLua(r)
  /\ GoTo(r, "done")
  /\ UNCHANGED <<today, sweeper, swept, faults>>

Release(r) ==
  /\ request[r].pc = "release"
  /\ ReleaseLua(r)
  /\ GoTo(r, "done")
  /\ UNCHANGED <<today, sweeper, swept, faults>>

(* commit or release rejects: swallowed, and left to the sweep.            *)
ResolveThrows(r) ==
  /\ Fault("redis")
  /\ \/ request[r].pc = "commit" /\ (CommitLua(r) \/ UNCHANGED redis)
     \/ request[r].pc = "release" /\ (ReleaseLua(r) \/ UNCHANGED redis)
  /\ GoTo(r, "done")
  /\ UNCHANGED <<today, sweeper, swept>>

ApiDies(r) ==
  /\ request[r].pc \notin {"idle", "done"}
  /\ Fault("api")
  /\ GoTo(r, "done")
  /\ UNCHANGED <<redis, today, sweeper, swept>>

-----------------------------------------------------------------------------
(* LeakReconciliationWorker.handleCron, in mode ACTIVE.  The leader lock   *)
(* lives 50 seconds and the budget is looked at once a batch, so several   *)
(* sweeps may overlap.                                                     *)

(* A batch is read and the age of an entry compared with TIMEOUT_MS ...    *)
SweepRead(s, r) ==
  /\ sweeper[s] = None
  /\ pending[r] # None
  /\ sweeper' = [sweeper EXCEPT ![s] = r]
  /\ UNCHANGED <<redis, today, request, swept, faults>>

(* ... and then the entry is released, whatever happened since.            *)
SweepRelease(s) ==
  /\ sweeper[s] # None
  /\ ReleaseLua(sweeper[s])
  /\ swept' = IF pending[sweeper[s]] = None THEN swept ELSE swept \cup {sweeper[s]}
  /\ sweeper' = [sweeper EXCEPT ![s] = None]
  /\ UNCHANGED <<today, request, faults>>

SweepThrows(s) ==
  /\ sweeper[s] # None
  /\ Fault("redis")
  /\ \/ /\ ReleaseLua(sweeper[s])
        /\ swept' = IF pending[sweeper[s]] = None THEN swept ELSE swept \cup {sweeper[s]}
     \/ UNCHANGED <<redis, swept>>
  /\ sweeper' = [sweeper EXCEPT ![s] = None]
  /\ UNCHANGED <<today, request>>

-----------------------------------------------------------------------------
NextDay ==
  /\ today < MaxDay
  /\ today' = today + 1
  /\ UNCHANGED <<redis, request, sweeper, swept, faults>>

(* A counter lives 48 hours after its last reservation.                    *)
ExpireCounter(d) ==
  /\ d + 1 < today
  /\ \A r \in Requests : ~(request[r].pc = "reserve" /\ request[r].day = d)
  /\ consumed[d] # 0
  /\ consumed' = [consumed EXCEPT ![d] = 0]
  /\ UNCHANGED <<today, pending, kept, request, sweeper, swept, faults>>

RequestStep(r) ==
  Reserve(r) \/ HandleReply(r) \/ Commit(r) \/ Release(r)

RouteEnds(r) == Complete(r) \/ ControllerThrows(r)

Next ==
  \/ \E r \in Requests : Arrive(r) \/ RequestStep(r) \/ RouteEnds(r) \/ Disconnect(r)
  \/ \E r \in Requests : \/ ReserveResent(r) \/ ReserveThrows(r)
                         \/ ResolveThrows(r) \/ ApiDies(r)
  \/ \E s \in Sweepers : \/ SweepRelease(s) \/ SweepThrows(s)
                         \/ \E r \in Requests : SweepRead(s, r)
  \/ NextDay
  \/ \E d \in Days : ExpireCounter(d)

Spec == Init /\ [][Next]_vars

(***************************************************************************)
(* Fairness: requests run on, a route ends some day, and the sweep, a cron *)
(* of every minute, gets to every entry that is old enough.                *)
(***************************************************************************)
FairSpec ==
  /\ Spec
  /\ \A r \in Requests : /\ WF_vars(RequestStep(r)) /\ WF_vars(RouteEnds(r))
                         /\ SF_vars(\E s \in Sweepers : SweepRead(s, r))
  /\ \A s \in Sweepers : WF_vars(SweepRelease(s))

-----------------------------------------------------------------------------
(* The requests charged to a day: a reservation is pending or was kept.    *)
ChargedOn(d) ==
  {r \in Requests : request[r].day = d /\ (pending[r] # None \/ r \in kept)}

(* token-accountant.ts:145: the counter of a day is exactly what its       *)
(* pending and committed reservations cost, however scripts are resent, a  *)
(* sweep races a commit or a release, or midnight passes, until the        *)
(* counter expires; so nobody is charged twice or refunded twice.          *)
LedgerBalances ==
  \A d \in Days :
    \/ consumed[d] = Cost * Cardinality(ChargedOn(d))
    \/ d + 1 < today /\ consumed[d] = 0

(* Concurrent requests never take a user over the daily quota.             *)
WithinQuota == \A d \in Days : consumed[d] <= Quota

(* quota.interceptor.ts:31-35: what stays charged was served, and what was *)
(* served stays charged, unless a fault kept the commit from Redis or a    *)
(* sweep took the reservation of a request that ran for too long.          *)
ChargeFollowsService ==
  \A r \in Requests :
    /\ r \in kept => request[r].served
    /\ faults = 0 /\ request[r].pc = "done" /\ request[r].served
         => r \in kept \cup swept

(* quota.interceptor.ts:129-131: no failure leaks a reservation; all that  *)
(* is pending is some day committed, released or swept.                    *)
ReservationResolves ==
  \A r \in Requests : pending[r] # None ~> pending[r] = None

=============================================================================
