----------------------------- MODULE WebSession -----------------------------
(***************************************************************************)
(* One page of the web client and the authentication endpoints it calls:   *)
(* use-auth.tsx (the user the page shows), api-client.ts (the access token *)
(* in memory and the single-flight recovery from a 401), auth.service.ts   *)
(* (the refresh-token hash that makes a session) and jwt.strategy.ts.      *)
(*                                                                         *)
(* The page's script is single-threaded: what runs between two awaits is   *)
(* one action.  Requests overlap in every order.  The refresh tokens of    *)
(* one user are not told apart, as bcrypt compares 72 bytes, which hold    *)
(* the token's header and the user's id.  A request that its caller or the *)
(* ten-minute timer aborts is one whose answer is lost.                    *)
(***************************************************************************)
EXTENDS Naturals, FiniteSets

CONSTANTS
  Users,
  Returning,            \* users whose cookie the browser may have at first
  Calls,                \* api calls of the pages
  Checks, Streams,      \* those of checkSession, and those of api.stream
  None,                 \* no user or token
  MaxActs,              \* bound: logins and logouts
  FaultKinds, MaxFaults \* which faults may happen, and how many in all

ASSUME WebAssumption ==
  /\ None \notin Users /\ None \notin [user : Users, valid : BOOLEAN]
  /\ Returning \subseteq Users
  /\ Checks \subseteq Calls /\ Streams \subseteq Calls \ Checks
  /\ Calls \cap {"mount", "recovery", "login", "logout"} = {}
  /\ MaxActs \in Nat /\ MaxFaults \in Nat

VARIABLES
  tab,      \* [token, user, loading]: _accessToken and AuthProvider's state
  current,  \* executions in flight that began in the present generation
  refresh,  \* POST /auth/refresh: of the mount, and of the 401 recovery
  login,    \* POST /auth/login or /auth/register
  logout,   \* POST /auth/logout
  call,     \* the other requests
  cookie,   \* [user, stray]: whose refresh_token the browser has; stray
            \* (history): it came with an answer to an earlier generation
  session,  \* users with a refreshTokenHash
  active,   \* users with isActive
  acts,     \* logins and logouts so far
  crossed,  \* history: an answer to an earlier generation was made use of
  faults    \* faults so far

page == <<tab, current>>
server == <<session, active>>
vars == <<page, refresh, login, logout, call, cookie, server, acts, crossed,
          faults>>

Someone == Users \cup {None}
Tokens == [user : Users, valid : BOOLEAN]

RefreshRecord ==
  [pc : {"idle", "sent", "granted", "answered"}, cookie : Someone, ok : BOOLEAN]
LoginRecord == [pc : {"idle", "sent", "answered"}, user : Someone, ok : BOOLEAN]
LogoutRecord == [pc : {"idle", "sent", "answered"}, cookie : Someone, ok : BOOLEAN]
CallRecord ==
  [pc : {"idle", "sent", "answered", "waiting", "done"}, as : Someone,
   retry : BOOLEAN, ok : BOOLEAN, executed : 0..2,
   outcome : {"none", "ok", "expired", "refused", "lost"}]

IdleRefresh == [pc |-> "idle", cookie |-> None, ok |-> FALSE]
IdleLogin == [pc |-> "idle", user |-> None, ok |-> FALSE]
IdleCall == [pc |-> "idle", as |-> None, retry |-> FALSE,
             ok |-> FALSE, executed |-> 0, outcome |-> "none"]

TypeOK ==
  /\ tab \in [token : Tokens \cup {None}, user : Someone, loading : BOOLEAN]
  /\ current \subseteq {"mount", "recovery", "login", "logout"} \cup Calls
  /\ refresh \in [{"mount", "recovery"} -> RefreshRecord]
  /\ login \in LoginRecord /\ logout \in LogoutRecord
  /\ call \in [Calls -> CallRecord]
  /\ cookie \in [user : Someone, stray : BOOLEAN]
  /\ session \subseteq Users /\ active \subseteq Users
  /\ acts \in Nat /\ crossed \in BOOLEAN /\ faults \in Nat

(* The page is loaded, with or without a cookie of an earlier visit, and   *)
(* the mount effect sends the first refresh.  (A session whose cookie this *)
(* browser has not is nothing to the page.)                                *)
Init ==
  /\ tab = [token |-> None, user |-> None, loading |-> TRUE]
  /\ current = {"mount"}
  /\ active = Users
  /\ \E u \in Returning \cup {None} :
       /\ session \in SUBSET ({u} \ {None})
       /\ cookie = [user |-> u, stray |-> FALSE]
       /\ refresh = [k \in {"mount", "recovery"} |-> IF k = "mount"
            THEN [pc |-> "sent", cookie |-> u, ok |-> FALSE] ELSE IdleRefresh]
  /\ login = IdleLogin
  /\ logout = IdleRefresh
  /\ call = [c \in Calls |-> IdleCall]
  /\ acts = 0 /\ crossed = FALSE /\ faults = 0

Fault(kind) ==
  /\ kind \in FaultKinds
  /\ faults < MaxFaults
  /\ faults' = faults + 1

(* A fetch ends: with the server's answer, or, at any point of its way,    *)
(* with a network error, a server error or the timer.                      *)
Ends(fetch, ok) ==
  \/ /\ fetch.pc = "answered" /\ ok = fetch.ok
     /\ UNCHANGED faults
  \/ /\ fetch.pc \in {"sent", "granted", "answered"} /\ ~ok
     /\ Fault("lose")

-----------------------------------------------------------------------------
(* The server.                                                             *)

(* Mutant of GrantRefresh: the hash is not looked for.                     *)
GrantAnyRefresh(k) ==
  /\ refresh[k].pc = "sent"
  /\ refresh' = [refresh EXCEPT ![k].pc = "granted"]
  /\ UNCHANGED <<page, login, logout, call, cookie, server, acts, crossed, faults>>

(* refresh: getUserForRefreshToken finds the user and a hash that matches, *)
(* and then login signs new tokens and stores a new hash.                  *)
GrantRefresh(k) ==
  /\ refresh[k].pc = "sent"
  /\ refresh' = [refresh EXCEPT ![k].pc =
       IF refresh[k].cookie \in session THEN "granted" ELSE "answered"]
  /\ UNCHANGED <<page, login, logout, call, cookie, server, acts, crossed, faults>>

StoreHash(k) ==
  /\ refresh[k].pc = "granted"
  /\ refresh' = [refresh EXCEPT ![k].pc = "answered", ![k].ok = TRUE]
  /\ session' = session \cup {refresh[k].cookie}
  /\ UNCHANGED <<page, login, logout, call, cookie, active, acts, crossed, faults>>

(* The password is right or wrong, the address registered or free.         *)
ServeLogin ==
  /\ login.pc = "sent"
  /\ \E ok \in BOOLEAN :
       /\ login' = [login EXCEPT !.pc = "answered", !.ok = ok]
       /\ session' = IF ok THEN session \cup {login.user} ELSE session
  /\ UNCHANGED <<page, refresh, logout, call, cookie, active, acts, crossed, faults>>

ServeLogout ==
  /\ logout.pc = "sent"
  /\ logout' = [logout EXCEPT !.pc = "answered", !.ok = TRUE]
  /\ session' = session \ {logout.cookie}
  /\ UNCHANGED <<page, refresh, login, call, cookie, active, acts, crossed, faults>>

(* JwtStrategy lets the call through, or answers 401.                      *)
ServeCall(c) ==
  /\ call[c].pc = "sent"
  /\ call' = [call EXCEPT ![c] =
       IF call[c].as \in active
       THEN [@ EXCEPT !.pc = "answered", !.ok = TRUE,
                        !.executed = call[c].executed + 1]
       ELSE [@ EXCEPT !.pc = "answered", !.ok = FALSE]]
  /\ UNCHANGED <<page, refresh, login, logout, cookie, server, acts, crossed, faults>>

(* An access token lives for minutes, a session ends with another logout,  *)
(* a password reset or its time, and an account may be deactivated.        *)
TokenExpires ==
  /\ tab.token # None
  /\ tab.token.valid
  /\ tab' = [tab EXCEPT !.token.valid = FALSE]
  /\ UNCHANGED <<current, refresh, login, logout, call, cookie, server, acts,
                 crossed, faults>>

SessionEnds(u) ==
  /\ u \in session
  /\ Fault("revoke")
  /\ session' = session \ {u}
  /\ UNCHANGED <<page, refresh, login, logout, call, cookie, active, acts, crossed>>

Deactivate(u) ==
  /\ u \in active
  /\ Fault("deactivate")
  /\ active' = active \ {u}
  /\ UNCHANGED <<page, refresh, login, logout, call, cookie, session, acts, crossed>>

-----------------------------------------------------------------------------
(* AuthProvider                                                            *)

SignedIn(u) == [token |-> [user |-> u, valid |-> TRUE], user |-> u, loading |-> FALSE]
SignedOut == [token |-> None, user |-> None, loading |-> FALSE]

(* The browser takes the cookie of an answer to execution e.               *)
SetCookie(u, e) == cookie' = [user |-> u, stray |-> e \notin current]

(* Mutant of MountEnds: the generation is not compared.                    *)
MountOverwrites(ok) ==
  /\ Ends(refresh["mount"], ok)
  /\ refresh' = [refresh EXCEPT !["mount"] = IdleRefresh]
  /\ tab' = IF ok THEN SignedIn(refresh["mount"].cookie) ELSE SignedOut
  /\ IF ok THEN SetCookie(refresh["mount"].cookie, "mount") ELSE UNCHANGED cookie
  /\ current' = current \ {"mount"}
  /\ UNCHANGED <<login, logout, call, server, acts, crossed>>

(* refreshSession: a result of an earlier generation is discarded (but the *)
(* browser has its cookie).                                                *)
MountEnds(ok) ==
  /\ Ends(refresh["mount"], ok)
  /\ refresh' = [refresh EXCEPT !["mount"] = IdleRefresh]
  /\ tab' = IF "mount" \notin current THEN tab
            ELSE IF ok THEN SignedIn(refresh["mount"].cookie) ELSE SignedOut
  /\ IF ok THEN SetCookie(refresh["mount"].cookie, "mount") ELSE UNCHANGED cookie
  /\ current' = current \ {"mount"}
  /\ UNCHANGED <<login, logout, call, server, acts, crossed>>

(* login and register begin a new generation.                              *)
StartLogin(u) ==
  /\ login.pc = "idle"
  /\ acts < MaxActs /\ acts' = acts + 1
  /\ tab' = [tab EXCEPT !.loading = TRUE]
  /\ current' = {"login"}
  /\ login' = [pc |-> "sent", user |-> u, ok |-> FALSE]
  /\ UNCHANGED <<refresh, logout, call, cookie, server, crossed, faults>>

LoginEnds(ok) ==
  /\ Ends(login, ok)
  /\ login' = IdleLogin
  /\ tab' = IF "login" \notin current THEN tab
            ELSE IF ok THEN SignedIn(login.user)
            ELSE [tab EXCEPT !.user = None, !.loading = FALSE]
  /\ IF ok THEN SetCookie(login.user, "login") ELSE UNCHANGED cookie
  /\ current' = current \ {"login"}
  /\ UNCHANGED <<refresh, logout, call, server, acts, crossed>>

(* logout, from a page that shows a user, begins one too; whatever becomes *)
(* of the request, the page is signed out.                                 *)
StartLogout ==
  /\ logout.pc = "idle"
  /\ tab.user # None
  /\ acts < MaxActs /\ acts' = acts + 1
  /\ tab' = [tab EXCEPT !.loading = TRUE]
  /\ current' = {"logout"}
  /\ logout' = [pc |-> "sent", cookie |-> cookie.user, ok |-> FALSE]
  /\ UNCHANGED <<refresh, login, call, cookie, server, crossed, faults>>

LogoutEnds(ok) ==
  /\ Ends(logout, ok)
  /\ logout' = IdleRefresh
  /\ tab' = SignedOut
  /\ cookie' = IF ok THEN [user |-> None, stray |-> FALSE] ELSE cookie
  /\ current' = current \ {"logout"}
  /\ crossed' = (crossed \/ "logout" \notin current)
  /\ UNCHANGED <<refresh, login, call, server, acts>>

-----------------------------------------------------------------------------
(* api-client.ts                                                           *)

Bearer == IF tab.token # None /\ tab.token.valid THEN tab.token.user ELSE None

StartCall(c) ==
  /\ call[c].pc = "idle"
  /\ tab.user # None /\ ~tab.loading
  /\ call' = [call EXCEPT ![c] = [IdleCall EXCEPT !.pc = "sent", !.as = Bearer]]
  /\ current' = current \cup {c}
  /\ UNCHANGED <<tab, refresh, login, logout, cookie, server, acts, crossed, faults>>

(* What the page does with the outcome of call c: checkSession shows the   *)
(* user it was told of, or none, and compares no generation.               *)
Report(c, user) ==
  IF c \in Checks
  THEN /\ tab' = [tab EXCEPT !.user = user, !.loading = FALSE]
       /\ crossed' = (crossed \/ c \notin current)
  ELSE UNCHANGED <<tab, crossed>>

Done(c, outcome) ==
  /\ call' = [call EXCEPT ![c] = [IdleCall EXCEPT
       !.pc = "done", !.executed = call[c].executed, !.outcome = outcome]]
  /\ current' = current \ {c}

CallSucceeds(c) ==
  /\ call[c].pc = "answered" /\ call[c].ok
  /\ Done(c, "ok")
  /\ Report(c, call[c].as)
  /\ UNCHANGED <<refresh, login, logout, cookie, server, acts, faults>>

(* A second 401 goes to the caller; api.stream keeps no count.             *)
CallRefused(c) ==
  /\ call[c].pc = "answered" /\ ~call[c].ok /\ call[c].retry
  /\ Done(c, "refused")
  /\ Report(c, None)
  /\ UNCHANGED <<refresh, login, logout, cookie, server, acts, faults>>

(* The call awaits the recovery that is in flight, or starts one, which is *)
(* of the call's generation.                                               *)
AwaitRecovery(c) ==
  /\ call' = [call EXCEPT ![c].pc = "waiting"]
  /\ IF refresh["recovery"].pc # "idle" THEN UNCHANGED <<refresh, current, crossed>>
     ELSE /\ refresh' = [refresh EXCEPT !["recovery"] =
               [pc |-> "sent", cookie |-> cookie.user, ok |-> FALSE]]
          /\ current' = IF c \in current THEN current \cup {"recovery"} ELSE current
          /\ crossed' = (crossed \/ cookie.stray)
  /\ UNCHANGED <<tab, login, logout, cookie, server, acts, faults>>

CallUnauthorized(c) ==
  /\ call[c].pc = "answered" /\ ~call[c].ok /\ ~call[c].retry
  /\ AwaitRecovery(c)

(* Mutant of CallLost: a request whose answer is lost is sent once more.   *)
CallLostRetried(c) ==
  /\ call[c].pc \in {"sent", "answered"} /\ "lose" \in FaultKinds
  /\ faults < MaxFaults
  /\ ~call[c].retry
  /\ AwaitRecovery(c)

CallLost(c) ==
  /\ call[c].pc \in {"sent", "answered"}
  /\ Fault("lose")
  /\ Done(c, "lost")
  /\ Report(c, None)
  /\ UNCHANGED <<refresh, login, logout, cookie, server, acts>>

(* Mutant of RecoverySucceeds: the retry is not marked as one.             *)
RecoveryRetriesAgain ==
  LET u == refresh["recovery"].cookie IN
  /\ refresh["recovery"].pc = "answered" /\ refresh["recovery"].ok
  /\ refresh' = [refresh EXCEPT !["recovery"] = IdleRefresh]
  /\ tab' = [tab EXCEPT !.token = [user |-> u, valid |-> TRUE]]
  /\ SetCookie(u, "recovery")
  /\ crossed' = (crossed \/ "recovery" \notin current)
  /\ call' = [c \in Calls |-> IF call[c].pc # "waiting" THEN call[c]
       ELSE [call[c] EXCEPT !.pc = "sent", !.as = u]]
  /\ current' = current \ {"recovery"}
  /\ UNCHANGED <<login, logout, server, acts, faults>>

(* The recovery ends well: the token is replaced, whatever the generation, *)
(* and every call that waits is sent again.                                *)
RecoverySucceeds ==
  LET u == refresh["recovery"].cookie IN
  /\ refresh["recovery"].pc = "answered" /\ refresh["recovery"].ok
  /\ refresh' = [refresh EXCEPT !["recovery"] = IdleRefresh]
  /\ tab' = [tab EXCEPT !.token = [user |-> u, valid |-> TRUE]]
  /\ SetCookie(u, "recovery")
  /\ crossed' = (crossed \/ "recovery" \notin current)
  /\ call' = [c \in Calls |-> IF call[c].pc # "waiting" THEN call[c]
       ELSE [call[c] EXCEPT !.pc = "sent", !.as = u, !.retry = c \notin Streams]]
  /\ current' = current \ {"recovery"}
  /\ UNCHANGED <<login, logout, server, acts, faults>>

(* Mutant of RecoveryFails: AuthProvider leaves the spinner as it is.      *)
RecoveryFailsLoading ==
  /\ Ends(refresh["recovery"], FALSE)
  /\ refresh' = [refresh EXCEPT !["recovery"] = IdleRefresh]
  /\ tab' = [SignedOut EXCEPT !.loading = tab.loading]
  /\ current' = {}
  /\ call' = [c \in Calls |-> IF call[c].pc # "waiting" THEN call[c]
       ELSE [IdleCall EXCEPT !.pc = "done", !.executed = call[c].executed,
                             !.outcome = "expired"]]
  /\ UNCHANGED <<login, logout, cookie, server, acts, crossed>>

(* Or it fails: the token goes, AuthProvider is notified and signs out,    *)
(* and every call that waits throws AuthExpiredError.                      *)
RecoveryFails ==
  /\ Ends(refresh["recovery"], FALSE)
  /\ refresh' = [refresh EXCEPT !["recovery"] = IdleRefresh]
  /\ tab' = SignedOut
  /\ current' = {}
  /\ call' = [c \in Calls |-> IF call[c].pc # "waiting" THEN call[c]
       ELSE [IdleCall EXCEPT !.pc = "done", !.executed = call[c].executed,
                             !.outcome = "expired"]]
  /\ UNCHANGED <<login, logout, cookie, server, acts, crossed>>

RefreshStep(k) == GrantRefresh(k) \/ StoreHash(k)
MountStep == \E ok \in BOOLEAN : MountEnds(ok)
LoginStep == ServeLogin \/ \E ok \in BOOLEAN : LoginEnds(ok)
LogoutStep == ServeLogout \/ \E ok \in BOOLEAN : LogoutEnds(ok)
RecoveryStep == RecoverySucceeds \/ RecoveryFails
CallStep(c) ==
  \/ ServeCall(c) \/ CallSucceeds(c) \/ CallRefused(c) \/ CallUnauthorized(c)
  \/ CallLost(c)

Next ==
  \/ \E k \in {"mount", "recovery"} : RefreshStep(k)
  \/ MountStep \/ LoginStep \/ LogoutStep \/ RecoveryStep
  \/ StartLogout \/ TokenExpires
  \/ \E u \in Users : StartLogin(u) \/ SessionEnds(u) \/ Deactivate(u)
  \/ \E c \in Calls : CallStep(c) \/ StartCall(c)

Spec == Init /\ [][Next]_vars

(* Every request is served and ends, be it by the timer.                   *)
FairSpec ==
  /\ Spec
  /\ \A k \in {"mount", "recovery"} : WF_vars(RefreshStep(k))
  /\ WF_vars(MountStep) /\ WF_vars(LoginStep) /\ WF_vars(LogoutStep)
  /\ WF_vars(RecoveryStep)
  /\ \A c \in Calls : WF_vars(CallStep(c))

-----------------------------------------------------------------------------
(* Properties.                                                             *)

(* The page acts for the user it shows, in every order in which the        *)
(* answers to the mount, the logins, the logouts and the recoveries come   *)
(* in: unless a logout, a recovery or a checkSession of an earlier         *)
(* generation, or the cookie of one, was made use of, which nothing        *)
(* compares.                                                               *)
ShowsTokenOwner ==
  tab.user # None /\ ~crossed
  => tab.token # None /\ tab.token.user = tab.user

(* The retry after a recovery executes nothing twice, and the page is told *)
(* that a call was executed or was not as it is.                           *)
OutcomeIsTrue ==
  \A c \in Calls :
    /\ call[c].executed <= 1
    /\ call[c].outcome = "ok" => call[c].executed = 1
    /\ call[c].outcome \in {"expired", "refused"} => call[c].executed = 0

(* The page does not show the spinner for ever, whoever turned it on.      *)
LoadingEnds == <>[]~tab.loading

(* Every call comes to its end, but the stream of a deactivated account:   *)
(* its refresh goes on succeeding and its stream being refused.            *)
CallsSettle ==
  <>[](\A c \in Calls : \/ call[c].pc \in {"idle", "done"}
                        \/ c \in Streams /\ active # Users)
=============================================================================
