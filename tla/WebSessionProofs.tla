-------------------------- MODULE WebSessionProofs --------------------------
(***************************************************************************)
(* Proofs about WebSession: its types, that the page acts for the user it  *)
(* shows, and that the outcome of a call is told as it is.                 *)
(***************************************************************************)
EXTENDS WebSession, TLAPS

(* What is in flight of the present generation is of the token's user.     *)
CallsOfToken ==
  ~crossed => \A c \in Calls \cap current :
                /\ tab.token # None
                /\ call[c].as \in {None, tab.token.user}

RecoveryOfToken ==
  /\ "recovery" \in current => refresh["recovery"].pc # "idle"
  /\ ~crossed /\ "recovery" \in current
     => tab.token # None /\ refresh["recovery"].cookie = tab.token.user

CookieOfToken ==
  ~cookie.stray /\ tab.token # None => cookie.user = tab.token.user

AnsweredToUser ==
  \A c \in Calls : call[c].pc = "answered" /\ call[c].ok => call[c].as \in Users

(* The mount, a login and a logout are alone in their generation, under    *)
(* the spinner, until they end.                                            *)
Alone ==
  ~crossed => \A e \in {"mount", "login", "logout"} :
                e \in current => current = {e} /\ tab.loading

OwnerInv ==
  /\ ShowsTokenOwner /\ CallsOfToken /\ RecoveryOfToken /\ CookieOfToken
  /\ AnsweredToUser /\ Alone

(* What was executed of a call, by where it is.                            *)
Counted(c) ==
  /\ call[c].pc \in {"idle", "sent", "waiting"} => call[c].executed = 0
  /\ call[c].pc = "answered" => call[c].executed = IF call[c].ok THEN 1 ELSE 0
  /\ call[c].pc # "done" => call[c].outcome = "none"

OutcomeInv == OutcomeIsTrue /\ \A c \in Calls : Counted(c)

-----------------------------------------------------------------------------
(* Helpers.                                                                *)

LEMMA SignedTyped ==
  /\ \A u \in Users :
       SignedIn(u) \in [token : Tokens \cup {None}, user : Someone, loading : BOOLEAN]
  /\ SignedOut \in [token : Tokens \cup {None}, user : Someone, loading : BOOLEAN]
  BY DEF SignedIn, SignedOut, Tokens, Someone

(* A token is a user's, and None is not one.                               *)
LEMMA TokenOfUser ==
  ASSUME TypeOK, tab.token # None
  PROVE  tab.token.user \in Users /\ tab.token \in Tokens
  BY DEF TypeOK, Tokens

LEMMA BearerTyped ==
  ASSUME TypeOK
  PROVE  Bearer \in Someone
  BY TokenOfUser DEF Bearer, Someone

LEMMA SetCookieTyped ==
  ASSUME NEW u \in Users, NEW e, SetCookie(u, e)
  PROVE  cookie' \in [user : Someone, stray : BOOLEAN]
  <1>1. (e \notin current) \in BOOLEAN /\ u \in Someone
    BY Zenon DEF Someone
  <1>2. [user |-> u, stray |-> e \notin current] \in [user : Someone, stray : BOOLEAN]
    BY <1>1, Zenon
  <1>3. QED
    BY <1>2, Zenon DEF SetCookie

LEMMA FaultTyped ==
  ASSUME faults \in Nat, NEW kind, Fault(kind)
  PROVE  faults' \in Nat
  BY DEF Fault

LEMMA EndsTyped ==
  ASSUME faults \in Nat, NEW fetch, NEW ok, Ends(fetch, ok)
  PROVE  faults' \in Nat /\ fetch.pc \in {"sent", "granted", "answered"}
  BY DEF Ends, Fault

-----------------------------------------------------------------------------
(* Types.                                                                  *)

(* What the answers of the server grant is a user's.                       *)
GrantsToUser ==
  /\ \A k \in {"mount", "recovery"} :
       refresh[k].pc = "granted" \/ refresh[k].ok => refresh[k].cookie \in Users
  /\ login.pc # "idle" => login.user \in Users

TypeInv == TypeOK /\ GrantsToUser /\ OutcomeInv

LEMMA RefreshRecordStep ==
  ASSUME TypeOK, NEW k \in {"mount", "recovery"}, NEW r \in RefreshRecord,
         refresh' = [refresh EXCEPT ![k] = r]
  PROVE  refresh' \in [{"mount", "recovery"} -> RefreshRecord]
  BY DEF TypeOK

LEMMA CallRecordStep ==
  ASSUME TypeOK, NEW c \in Calls, NEW r \in CallRecord,
         call' = [call EXCEPT ![c] = r]
  PROVE  call' \in [Calls -> CallRecord]
  BY DEF TypeOK

LEMMA TypeServer ==
  ASSUME TypeInv,
         \/ \E k \in {"mount", "recovery"} : RefreshStep(k)
         \/ ServeLogin \/ ServeLogout
         \/ \E c \in Calls : ServeCall(c)
  PROVE  TypeOK' /\ GrantsToUser'
  <1>1. ASSUME NEW k \in {"mount", "recovery"}, GrantRefresh(k)
        PROVE  TypeOK' /\ GrantsToUser'
    <2>1. refresh[k] \in RefreshRecord
      BY DEF TypeInv, TypeOK
    <2>2. PICK p \in {"granted", "answered"} :
            /\ refresh' = [refresh EXCEPT ![k] = [refresh[k] EXCEPT !.pc = p]]
            /\ p = "granted" => refresh[k].cookie \in Users
      BY <1>1 DEF GrantRefresh, TypeInv, TypeOK
    <2>3. [refresh[k] EXCEPT !.pc = p] \in RefreshRecord
      BY <2>1 DEF RefreshRecord
    <2>4. refresh' \in [{"mount", "recovery"} -> RefreshRecord]
      BY <2>2, <2>3, RefreshRecordStep DEF TypeInv
    <2>5. TypeOK'
      BY <1>1, <2>4 DEF GrantRefresh, TypeInv, TypeOK, page, server
    <2>6. GrantsToUser'
      BY <1>1, <2>1, <2>2 DEF GrantRefresh, GrantsToUser, TypeInv, TypeOK, RefreshRecord
    <2>7. QED
      BY <2>5, <2>6
  <1>2. ASSUME NEW k \in {"mount", "recovery"}, StoreHash(k)
        PROVE  TypeOK' /\ GrantsToUser'
    <2>1. refresh[k] \in RefreshRecord /\ refresh[k].cookie \in Users
      BY <1>2 DEF TypeInv, TypeOK, GrantsToUser, StoreHash
    <2>2. refresh' = [refresh EXCEPT ![k] = [refresh[k] EXCEPT !.pc = "answered", !.ok = TRUE]]
      BY <1>2 DEF StoreHash, TypeInv, TypeOK
    <2>3. [refresh[k] EXCEPT !.pc = "answered", !.ok = TRUE] \in RefreshRecord
      BY <2>1 DEF RefreshRecord
    <2>4. refresh' \in [{"mount", "recovery"} -> RefreshRecord]
      BY <2>2, <2>3, RefreshRecordStep DEF TypeInv
    <2>5. TypeOK'
      BY <1>2, <2>1, <2>4 DEF StoreHash, TypeInv, TypeOK, page
    <2>6. GrantsToUser'
      BY <1>2, <2>1 DEF StoreHash, GrantsToUser, TypeInv, TypeOK, RefreshRecord
    <2>7. QED
      BY <2>5, <2>6
  <1>3. CASE ServeLogin
    <2>1. TypeOK'
      BY <1>3 DEF ServeLogin, TypeInv, TypeOK, GrantsToUser, LoginRecord, Someone, page
    <2>2. GrantsToUser'
      BY <1>3 DEF ServeLogin, TypeInv, TypeOK, GrantsToUser, LoginRecord
    <2>3. QED
      BY <2>1, <2>2
  <1>4. CASE ServeLogout
    BY <1>4 DEF ServeLogout, TypeInv, TypeOK, GrantsToUser, LogoutRecord, page
  <1>5. ASSUME NEW c \in Calls, ServeCall(c)
        PROVE  TypeOK' /\ GrantsToUser'
    <2>1. call[c] \in CallRecord /\ call[c].executed = 0
      BY <1>5 DEF TypeInv, TypeOK, OutcomeInv, Counted, ServeCall
    <2>2. /\ [call[c] EXCEPT !.pc = "answered", !.ok = TRUE, !.executed = call[c].executed + 1]
               \in CallRecord
          /\ [call[c] EXCEPT !.pc = "answered", !.ok = FALSE] \in CallRecord
      <3>1. call[c].executed + 1 = 1 /\ 1 \in 0..2
        BY <2>1
      <3>2. QED
        BY <2>1, <3>1 DEF CallRecord
    <2>3. call' \in [Calls -> CallRecord]
      BY <1>5, <2>2, CallRecordStep DEF ServeCall, TypeInv
    <2>4. QED
      BY <1>5, <2>3 DEF ServeCall, TypeInv, TypeOK, GrantsToUser, page, server
  <1>6. QED
    BY <1>1, <1>2, <1>3, <1>4, <1>5 DEF RefreshStep

LEMMA TypeFaults ==
  ASSUME TypeInv,
         \/ TokenExpires
         \/ \E u \in Users : SessionEnds(u) \/ Deactivate(u)
  PROVE  TypeOK' /\ GrantsToUser'
  <1>1. CASE TokenExpires
    <2>1. tab' \in [token : Tokens \cup {None}, user : Someone, loading : BOOLEAN]
      BY <1>1, TokenOfUser DEF TokenExpires, TypeInv, TypeOK, Tokens
    <2>2. QED
      BY <1>1, <2>1 DEF TokenExpires, TypeInv, TypeOK, GrantsToUser, server
  <1>2. ASSUME NEW u \in Users, SessionEnds(u) \/ Deactivate(u)
        PROVE  TypeOK' /\ GrantsToUser'
    <2>1. faults' \in Nat
      BY <1>2, FaultTyped DEF SessionEnds, Deactivate, TypeInv, TypeOK
    <2>2. QED
      BY <1>2, <2>1 DEF SessionEnds, Deactivate, TypeInv, TypeOK, GrantsToUser, page
  <1>3. QED
    BY <1>1, <1>2

(* What an action makes of the user shown.                                 *)
Tab == [token : Tokens \cup {None}, user : Someone, loading : BOOLEAN]

LEMMA TypeMountEnds ==
  ASSUME TypeInv, NEW ok \in BOOLEAN, MountEnds(ok)
  PROVE  TypeOK' /\ GrantsToUser'
  <1>1. faults' \in Nat
    BY EndsTyped DEF MountEnds, TypeInv, TypeOK
  <1>2. IdleRefresh \in RefreshRecord
    BY DEF IdleRefresh, RefreshRecord, Someone
  <1>3. refresh' \in [{"mount", "recovery"} -> RefreshRecord]
    BY <1>2, RefreshRecordStep DEF MountEnds, TypeInv
  <1>4. ok => refresh["mount"].cookie \in Users
    BY DEF MountEnds, Ends, TypeInv, GrantsToUser
  <1>5. tab' \in Tab
    BY <1>4, SignedTyped DEF MountEnds, TypeInv, TypeOK, Tab
  <1>6. cookie' \in [user : Someone, stray : BOOLEAN]
    BY <1>4, SetCookieTyped DEF MountEnds, TypeInv, TypeOK
  <1>7. TypeOK'
    BY <1>1, <1>3, <1>5, <1>6 DEF MountEnds, TypeInv, TypeOK, Tab, server
  <1>8. GrantsToUser'
    BY DEF MountEnds, TypeInv, TypeOK, GrantsToUser, IdleRefresh
  <1>9. QED
    BY <1>7, <1>8

LEMMA TypeLogin ==
  ASSUME TypeInv,
         \/ \E u \in Users : StartLogin(u)
         \/ \E ok \in BOOLEAN : LoginEnds(ok)
  PROVE  TypeOK' /\ GrantsToUser'
  <1>1. ASSUME NEW u \in Users, StartLogin(u) PROVE TypeOK' /\ GrantsToUser'
    <2>1. login' \in LoginRecord
      BY <1>1 DEF StartLogin, LoginRecord, Someone
    <2>2. tab' \in Tab
      BY <1>1 DEF StartLogin, TypeInv, TypeOK, Tab
    <2>3. acts' \in Nat
      BY <1>1 DEF StartLogin, TypeInv, TypeOK
    <2>4. QED
      BY <1>1, <2>1, <2>2, <2>3 DEF StartLogin, TypeInv, TypeOK, GrantsToUser, Tab, server
  <1>2. ASSUME NEW ok \in BOOLEAN, LoginEnds(ok) PROVE TypeOK' /\ GrantsToUser'
    <2>1. faults' \in Nat /\ login.user \in Users
      BY <1>2, EndsTyped DEF LoginEnds, TypeInv, TypeOK, GrantsToUser
    <2>2. tab' \in Tab
      BY <1>2, <2>1, SignedTyped DEF LoginEnds, TypeInv, TypeOK, Tab, Someone
    <2>3. cookie' \in [user : Someone, stray : BOOLEAN]
      BY <1>2, <2>1, SetCookieTyped DEF LoginEnds, TypeInv, TypeOK
    <2>4. IdleLogin \in LoginRecord /\ IdleLogin.pc = "idle"
      BY DEF IdleLogin, LoginRecord, Someone
    <2>5. QED
      BY <1>2, <2>1, <2>2, <2>3, <2>4
      DEF LoginEnds, TypeInv, TypeOK, GrantsToUser, Tab, server
  <1>3. QED
    BY <1>1, <1>2

LEMMA TypeLogout ==
  ASSUME TypeInv, StartLogout \/ \E ok \in BOOLEAN : LogoutEnds(ok)
  PROVE  TypeOK' /\ GrantsToUser'
  <1>1. CASE StartLogout
    <2>1. logout' \in LogoutRecord
      BY <1>1 DEF StartLogout, LogoutRecord, TypeInv, TypeOK
    <2>2. tab' \in Tab
      BY <1>1 DEF StartLogout, TypeInv, TypeOK, Tab
    <2>3. acts' \in Nat
      BY <1>1 DEF StartLogout, TypeInv, TypeOK
    <2>4. QED
      BY <1>1, <2>1, <2>2, <2>3 DEF StartLogout, TypeInv, TypeOK, GrantsToUser, Tab, server
  <1>2. ASSUME NEW ok \in BOOLEAN, LogoutEnds(ok) PROVE TypeOK' /\ GrantsToUser'
    <2>1. faults' \in Nat
      BY <1>2, EndsTyped DEF LogoutEnds, TypeInv, TypeOK
    <2>2. tab' \in Tab
      BY <1>2, SignedTyped DEF LogoutEnds, Tab
    <2>3. logout' \in LogoutRecord
      BY <1>2 DEF LogoutEnds, IdleRefresh, LogoutRecord, Someone
    <2>4. cookie' \in [user : Someone, stray : BOOLEAN]
      BY <1>2 DEF LogoutEnds, TypeInv, TypeOK, Someone
    <2>5. crossed' \in BOOLEAN
      BY <1>2 DEF LogoutEnds
    <2>6. QED
      BY <1>2, <2>1, <2>2, <2>3, <2>4, <2>5
      DEF LogoutEnds, TypeInv, TypeOK, GrantsToUser, Tab, server
  <1>3. QED
    BY <1>1, <1>2

(* The actions of a call that leave the recovery alone.                    *)
LEMMA TypeReport ==
  ASSUME TypeInv, NEW c \in Calls, NEW user \in Someone, Report(c, user)
  PROVE  tab' \in Tab /\ crossed' \in BOOLEAN
  BY DEF Report, TypeInv, TypeOK, Tab

LEMMA TypeDone ==
  ASSUME TypeInv, NEW c \in Calls, NEW outcome \in {"ok", "expired", "refused", "lost"},
         Done(c, outcome)
  PROVE  /\ call' \in [Calls -> CallRecord]
         /\ current' \subseteq {"mount", "recovery", "login", "logout"} \cup Calls
  <1>1. call[c] \in CallRecord
    BY DEF TypeInv, TypeOK
  <1>2. [IdleCall EXCEPT !.pc = "done", !.executed = call[c].executed, !.outcome = outcome]
          \in CallRecord
    BY <1>1 DEF IdleCall, CallRecord, Someone
  <1>3. QED
    BY <1>2, CallRecordStep DEF Done, TypeInv, TypeOK

LEMMA TypeAwaitRecovery ==
  ASSUME TypeInv, NEW c \in Calls, AwaitRecovery(c)
  PROVE  TypeOK' /\ GrantsToUser'
  <1>1. call[c] \in CallRecord /\ cookie.user \in Someone
    BY DEF TypeInv, TypeOK
  <1>2. [call[c] EXCEPT !.pc = "waiting"] \in CallRecord
    BY <1>1 DEF CallRecord
  <1>3. call' = [call EXCEPT ![c] = [call[c] EXCEPT !.pc = "waiting"]]
    BY DEF AwaitRecovery
  <1>4. call' \in [Calls -> CallRecord]
    BY <1>2, <1>3, CallRecordStep DEF TypeInv
  <1>5. [pc |-> "sent", cookie |-> cookie.user, ok |-> FALSE] \in RefreshRecord
    BY <1>1 DEF RefreshRecord
  <1>6. refresh' \in [{"mount", "recovery"} -> RefreshRecord]
    BY <1>5, RefreshRecordStep DEF AwaitRecovery, TypeInv, TypeOK
  <1>7. /\ current' \subseteq {"mount", "recovery", "login", "logout"} \cup Calls
        /\ crossed' \in BOOLEAN
    BY DEF AwaitRecovery, TypeInv, TypeOK
  <1>8. TypeOK'
    BY <1>4, <1>6, <1>7 DEF AwaitRecovery, TypeInv, TypeOK, server
  <1>9. GrantsToUser'
    BY <1>6 DEF AwaitRecovery, TypeInv, TypeOK, GrantsToUser
  <1>10. QED
    BY <1>8, <1>9

LEMMA TypeCall ==
  ASSUME TypeInv, NEW c \in Calls,
         \/ StartCall(c) \/ CallSucceeds(c) \/ CallRefused(c)
         \/ CallUnauthorized(c) \/ CallLost(c)
  PROVE  TypeOK' /\ GrantsToUser'
  <1>1. call[c] \in CallRecord /\ None \in Someone
    BY DEF TypeInv, TypeOK, Someone
  <1>2. CASE StartCall(c)
    <2>1. [IdleCall EXCEPT !.pc = "sent", !.as = Bearer] \in CallRecord
      <3>1. Bearer \in Someone
        BY BearerTyped DEF TypeInv
      <3>2. IdleCall \in CallRecord
        BY DEF IdleCall, CallRecord, Someone
      <3>3. QED
        BY <3>1, <3>2 DEF CallRecord
    <2>2. call' \in [Calls -> CallRecord]
      BY <1>2, <2>1, CallRecordStep DEF StartCall, TypeInv
    <2>3. QED
      BY <1>2, <2>2 DEF StartCall, TypeInv, TypeOK, GrantsToUser, server
  <1>3. CASE CallSucceeds(c)
    <2>1. tab' \in Tab /\ crossed' \in BOOLEAN
      BY <1>1, <1>3, TypeReport DEF CallSucceeds, CallRecord
    <2>2. QED
      BY <1>3, <2>1, TypeDone DEF CallSucceeds, TypeInv, TypeOK, GrantsToUser, Tab, server
  <1>4. CASE CallRefused(c)
    <2>1. tab' \in Tab /\ crossed' \in BOOLEAN
      BY <1>1, <1>4, TypeReport DEF CallRefused
    <2>2. QED
      BY <1>4, <2>1, TypeDone DEF CallRefused, TypeInv, TypeOK, GrantsToUser, Tab, server
  <1>5. CASE CallUnauthorized(c)
    BY <1>5, TypeAwaitRecovery DEF CallUnauthorized
  <1>6. CASE CallLost(c)
    <2>1. tab' \in Tab /\ crossed' \in BOOLEAN
      BY <1>1, <1>6, TypeReport DEF CallLost
    <2>2. faults' \in Nat
      BY <1>6, FaultTyped DEF CallLost, TypeInv, TypeOK
    <2>3. QED
      BY <1>6, <2>1, <2>2, TypeDone DEF CallLost, TypeInv, TypeOK, GrantsToUser, Tab, server
  <1>7. QED
    BY <1>2, <1>3, <1>4, <1>5, <1>6

LEMMA TypeRecovery ==
  ASSUME TypeInv, RecoveryStep
  PROVE  TypeOK' /\ GrantsToUser'
  <1>1. IdleRefresh \in RefreshRecord
    BY DEF IdleRefresh, RefreshRecord, Someone
  <1>2. CASE RecoverySucceeds
    <2> DEFINE u == refresh["recovery"].cookie
    <2>1. u \in Users
      BY <1>2 DEF RecoverySucceeds, TypeInv, GrantsToUser
    <2>2. refresh' \in [{"mount", "recovery"} -> RefreshRecord]
      BY <1>1, <1>2, RefreshRecordStep DEF RecoverySucceeds, TypeInv
    <2>3. tab' \in Tab
      BY <1>2, <2>1 DEF RecoverySucceeds, TypeInv, TypeOK, Tab, Tokens
    <2>4. cookie' \in [user : Someone, stray : BOOLEAN]
      BY <1>2, <2>1, SetCookieTyped DEF RecoverySucceeds
    <2>5. ASSUME NEW c \in Calls
          PROVE  [call[c] EXCEPT !.pc = "sent", !.as = u, !.retry = c \notin Streams]
                   \in CallRecord
      <3>1. call[c] \in CallRecord /\ (c \notin Streams) \in BOOLEAN /\ u \in Someone
        BY <2>1 DEF TypeInv, TypeOK, Someone
      <3>2. ASSUME NEW b \in BOOLEAN
            PROVE  [call[c] EXCEPT !.pc = "sent", !.as = u, !.retry = b] \in CallRecord
        BY <3>1 DEF CallRecord
      <3>3. QED
        BY <3>1, <3>2, Zenon
    <2>6. call' \in [Calls -> CallRecord]
      BY <1>2, <2>5 DEF RecoverySucceeds, TypeInv, TypeOK
    <2>7. crossed' \in BOOLEAN
      BY <1>2 DEF RecoverySucceeds
    <2>8. TypeOK'
      BY <1>2, <2>2, <2>3, <2>4, <2>6, <2>7
      DEF RecoverySucceeds, TypeInv, TypeOK, Tab, server
    <2>9. GrantsToUser'
      BY <1>2 DEF RecoverySucceeds, TypeInv, TypeOK, GrantsToUser, IdleRefresh
    <2>10. QED
      BY <2>8, <2>9
  <1>3. CASE RecoveryFails
    <2>1. faults' \in Nat
      BY <1>3, EndsTyped DEF RecoveryFails, TypeInv, TypeOK
    <2>2. refresh' \in [{"mount", "recovery"} -> RefreshRecord]
      BY <1>1, <1>3, RefreshRecordStep DEF RecoveryFails, TypeInv
    <2>3. tab' \in Tab
      BY <1>3, SignedTyped DEF RecoveryFails, Tab
    <2>4. \A c \in Calls :
            [IdleCall EXCEPT !.pc = "done", !.executed = call[c].executed,
                             !.outcome = "expired"] \in CallRecord
      BY DEF IdleCall, CallRecord, Someone, TypeInv, TypeOK
    <2>5. call' \in [Calls -> CallRecord]
      BY <1>3, <2>4 DEF RecoveryFails, TypeInv, TypeOK
    <2>6. TypeOK'
      BY <1>3, <2>1, <2>2, <2>3, <2>5
      DEF RecoveryFails, TypeInv, TypeOK, Tab, server
    <2>7. GrantsToUser'
      BY <1>3 DEF RecoveryFails, TypeInv, TypeOK, GrantsToUser, IdleRefresh
    <2>8. QED
      BY <2>6, <2>7
  <1>4. QED
    BY <1>2, <1>3 DEF RecoveryStep

-----------------------------------------------------------------------------
(* Outcomes: what one call becomes, and what all become.                   *)

Sound(c) ==
  /\ call[c].executed <= 1
  /\ call[c].outcome = "ok" => call[c].executed = 1
  /\ call[c].outcome \in {"expired", "refused"} => call[c].executed = 0
  /\ Counted(c)

LEMMA OutcomeOfEach ==
  /\ OutcomeInv <=> \A c \in Calls : Sound(c)
  /\ OutcomeInv' <=> \A c \in Calls : Sound(c)'
  BY DEF OutcomeInv, OutcomeIsTrue, Sound

LEMMA OutcomeUnmoved ==
  ASSUME OutcomeInv, UNCHANGED call
  PROVE  OutcomeInv'
  BY DEF OutcomeInv, OutcomeIsTrue, Counted

LEMMA OutcomeOfOne ==
  ASSUME TypeInv, NEW c \in Calls, NEW r, call' = [call EXCEPT ![c] = r], Sound(c)'
  PROVE  OutcomeInv'
  <1>1. \A d \in Calls \ {c} : call'[d] = call[d]
    BY DEF TypeInv, TypeOK
  <1>2. \A d \in Calls \ {c} : Sound(d)'
    BY <1>1, OutcomeOfEach DEF TypeInv, Sound, Counted
  <1>3. QED
    BY <1>2, OutcomeOfEach

LEMMA OutcomeCall ==
  ASSUME TypeInv, NEW c \in Calls, CallStep(c) \/ StartCall(c)
  PROVE  OutcomeInv'
  <1>1. Sound(c) /\ call \in [Calls -> CallRecord] /\ call[c] \in CallRecord
    BY OutcomeOfEach DEF TypeInv, TypeOK
  <1>2. CASE ServeCall(c)
    <2>1. Sound(c)'
      BY <1>1, <1>2 DEF ServeCall, Sound, Counted, CallRecord
    <2>2. QED
      BY <1>2, <2>1, OutcomeOfOne DEF ServeCall
  <1>3. ASSUME NEW outcome \in {"ok", "refused", "lost"}, Done(c, outcome),
               outcome = "ok" => call[c].executed = 1,
               outcome = "refused" => call[c].executed = 0
        PROVE  OutcomeInv'
    <2>1. Sound(c)'
      BY <1>1, <1>3 DEF Done, Sound, Counted, IdleCall, CallRecord
    <2>2. QED
      BY <1>3, <2>1, OutcomeOfOne DEF Done
  <1>4. CASE CallSucceeds(c)
    BY <1>1, <1>3, <1>4 DEF CallSucceeds, Sound, Counted
  <1>5. CASE CallRefused(c)
    BY <1>1, <1>3, <1>5 DEF CallRefused, Sound, Counted
  <1>6. CASE CallLost(c)
    BY <1>3, <1>6 DEF CallLost
  <1>7. CASE CallUnauthorized(c)
    <2>1. Sound(c)'
      BY <1>1, <1>7 DEF CallUnauthorized, AwaitRecovery, Sound, Counted, CallRecord
    <2>2. call' = [call EXCEPT ![c] = [call[c] EXCEPT !.pc = "waiting"]]
      BY <1>7 DEF CallUnauthorized, AwaitRecovery
    <2>3. QED
      BY <2>1, <2>2, OutcomeOfOne
  <1>8. CASE StartCall(c)
    <2>1. Sound(c)'
      BY <1>1, <1>8 DEF StartCall, Sound, Counted, IdleCall
    <2>2. QED
      BY <1>8, <2>1, OutcomeOfOne DEF StartCall
  <1>9. QED
    BY <1>2, <1>4, <1>5, <1>6, <1>7, <1>8 DEF CallStep

LEMMA OutcomeRecovery ==
  ASSUME TypeInv, RecoveryStep
  PROVE  OutcomeInv'
  <1>1. ASSUME NEW c \in Calls PROVE Sound(c)'
    <2>1. Sound(c) /\ call[c] \in CallRecord
      BY OutcomeOfEach DEF TypeInv, TypeOK
    <2>2. CASE RecoverySucceeds
      BY <2>1, <2>2 DEF RecoverySucceeds, Sound, Counted, CallRecord
    <2>3. CASE RecoveryFails
      BY <2>1, <2>3 DEF RecoveryFails, Sound, Counted, IdleCall, CallRecord
    <2>4. QED
      BY <2>2, <2>3 DEF RecoveryStep
  <1>2. QED
    BY <1>1, OutcomeOfEach

LEMMA TypeInit ==
  Init => TypeInv
  <1> SUFFICES ASSUME Init PROVE TypeInv
    OBVIOUS
  <1>1. OutcomeInv
    BY DEF Init, OutcomeInv, OutcomeIsTrue, Counted, IdleCall
  <1>2. call \in [Calls -> CallRecord]
    <2>1. IdleCall \in CallRecord
      BY DEF IdleCall, CallRecord, Someone
    <2>2. QED
      BY <2>1 DEF Init
  <1>3. PICK u \in Returning \cup {None} :
          /\ session \in SUBSET ({u} \ {None})
          /\ cookie = [user |-> u, stray |-> FALSE]
          /\ refresh = [k \in {"mount", "recovery"} |-> IF k = "mount"
               THEN [pc |-> "sent", cookie |-> u, ok |-> FALSE] ELSE IdleRefresh]
    BY DEF Init
  <1>4. u \in Someone /\ (u # None => u \in Users)
    BY WebAssumption DEF Someone
  <1>5. refresh \in [{"mount", "recovery"} -> RefreshRecord]
    BY <1>3, <1>4 DEF RefreshRecord, IdleRefresh, Someone
  <1>6. session \subseteq Users /\ cookie \in [user : Someone, stray : BOOLEAN]
    BY <1>3, <1>4
  <1>7. login \in LoginRecord /\ logout \in LogoutRecord
    BY DEF Init, LoginRecord, LogoutRecord, IdleLogin, IdleRefresh, Someone
  <1>8. TypeOK
    BY <1>2, <1>5, <1>6, <1>7 DEF Init, TypeOK, Someone
  <1>9. GrantsToUser
    BY <1>3 DEF Init, GrantsToUser, IdleLogin, IdleRefresh
  <1>10. QED
    BY <1>1, <1>8, <1>9 DEF TypeInv

LEMMA TypeStep ==
  TypeInv /\ [Next]_vars => TypeInv'
  <1> SUFFICES ASSUME TypeInv, [Next]_vars PROVE TypeInv'
    OBVIOUS
  <1>1. ASSUME \/ \E k \in {"mount", "recovery"} : RefreshStep(k)
               \/ ServeLogin \/ ServeLogout
        PROVE  TypeInv'
    <2>1. UNCHANGED call
      BY <1>1 DEF RefreshStep, GrantRefresh, StoreHash, ServeLogin, ServeLogout
    <2>2. QED
      BY <1>1, <2>1, TypeServer, OutcomeUnmoved DEF TypeInv
  <1>2. ASSUME NEW c \in Calls, CallStep(c) \/ StartCall(c)
        PROVE  TypeInv'
    <2>1. TypeOK' /\ GrantsToUser'
      BY <1>2, TypeServer, TypeCall DEF CallStep
    <2>2. QED
      BY <1>2, <2>1, OutcomeCall DEF TypeInv
  <1>3. CASE RecoveryStep
    BY <1>3, TypeRecovery, OutcomeRecovery DEF TypeInv
  <1>4. ASSUME NEW ok \in BOOLEAN, MountEnds(ok) PROVE TypeInv'
    BY <1>4, TypeMountEnds, OutcomeUnmoved DEF TypeInv, MountEnds
  <1>5. ASSUME NEW ok \in BOOLEAN, LoginEnds(ok) PROVE TypeInv'
    BY <1>5, TypeLogin, OutcomeUnmoved DEF TypeInv, LoginEnds
  <1>6. ASSUME NEW ok \in BOOLEAN, LogoutEnds(ok) PROVE TypeInv'
    BY <1>6, TypeLogout, OutcomeUnmoved DEF TypeInv, LogoutEnds
  <1>7. CASE StartLogout
    BY <1>7, TypeLogout, OutcomeUnmoved DEF TypeInv, StartLogout
  <1>8. CASE TokenExpires
    BY <1>8, TypeFaults, OutcomeUnmoved DEF TypeInv, TokenExpires
  <1>9. ASSUME NEW u \in Users, SessionEnds(u) \/ Deactivate(u) PROVE TypeInv'
    BY <1>9, TypeFaults, OutcomeUnmoved DEF TypeInv, SessionEnds, Deactivate
  <1>10. ASSUME NEW u \in Users, StartLogin(u) PROVE TypeInv'
    BY <1>10, TypeLogin, OutcomeUnmoved DEF TypeInv, StartLogin
  <1>11. CASE UNCHANGED vars
    BY <1>11 DEF TypeInv, TypeOK, GrantsToUser, OutcomeInv, OutcomeIsTrue, Counted,
                 vars, page, server
  <1>12. QED
    BY <1>1, <1>2, <1>3, <1>4, <1>5, <1>6, <1>7, <1>8, <1>9, <1>10, <1>11
    DEF Next, MountStep, LoginStep, LogoutStep

-----------------------------------------------------------------------------
(* The user shown and the user of the token.                               *)

Others == {"mount", "recovery", "login", "logout"}

LEMMA CallIsNoOther ==
  ASSUME NEW c \in Calls
  PROVE  c \notin Others
  BY WebAssumption DEF Others

LEMMA OwnerInit ==
  Init => OwnerInv
  <1> SUFFICES ASSUME Init PROVE OwnerInv
    OBVIOUS
  <1>1. ShowsTokenOwner /\ CallsOfToken /\ RecoveryOfToken /\ CookieOfToken
    BY CallIsNoOther DEF Init, ShowsTokenOwner, CallsOfToken, RecoveryOfToken,
                         CookieOfToken, Others
  <1>2. AnsweredToUser /\ Alone
    BY DEF Init, AnsweredToUser, Alone, IdleCall
  <1>3. QED
    BY <1>1, <1>2 DEF OwnerInv

(* A step that is not seen from the page.                                  *)
LEMMA OwnerUnmoved ==
  ASSUME OwnerInv, UNCHANGED <<tab, current, call, cookie, crossed>>,
         refresh'["recovery"].cookie = refresh["recovery"].cookie,
         refresh["recovery"].pc # "idle" => refresh'["recovery"].pc # "idle"
  PROVE  OwnerInv'
  BY DEF OwnerInv, ShowsTokenOwner, CallsOfToken, RecoveryOfToken, CookieOfToken,
         AnsweredToUser, Alone

LEMMA OwnerServer ==
  ASSUME TypeInv, OwnerInv,
         \/ \E k \in {"mount", "recovery"} : RefreshStep(k)
         \/ ServeLogin \/ ServeLogout
         \/ \E u \in Users : SessionEnds(u) \/ Deactivate(u)
  PROVE  OwnerInv'
  <1>1. ASSUME NEW k \in {"mount", "recovery"}, RefreshStep(k) PROVE OwnerInv'
    <2>1. /\ UNCHANGED <<tab, current, call, cookie, crossed>>
          /\ refresh'["recovery"].cookie = refresh["recovery"].cookie
          /\ refresh["recovery"].pc # "idle" => refresh'["recovery"].pc # "idle"
      BY <1>1 DEF RefreshStep, GrantRefresh, StoreHash, TypeInv, TypeOK,
                  RefreshRecord, page
    <2>2. QED
      BY <2>1, OwnerUnmoved
  <1>2. CASE ServeLogin
    BY <1>2, OwnerUnmoved DEF ServeLogin, page
  <1>3. CASE ServeLogout
    BY <1>3, OwnerUnmoved DEF ServeLogout, page
  <1>4. ASSUME NEW u \in Users, SessionEnds(u) \/ Deactivate(u) PROVE OwnerInv'
    BY <1>4, OwnerUnmoved DEF SessionEnds, Deactivate, page
  <1>5. QED
    BY <1>1, <1>2, <1>3, <1>4

LEMMA OwnerServeCall ==
  ASSUME TypeInv, OwnerInv, NEW c \in Calls, ServeCall(c)
  PROVE  OwnerInv'
  <1>1. /\ UNCHANGED <<tab, current, refresh, cookie, crossed>>
        /\ \A d \in Calls : call'[d].as = call[d].as
        /\ \A d \in Calls \ {c} : call'[d] = call[d]
        /\ call'[c].ok => call[c].as \in Users
    BY DEF ServeCall, TypeInv, TypeOK, CallRecord, page
  <1>2. CallsOfToken' /\ AnsweredToUser'
    BY <1>1 DEF OwnerInv, CallsOfToken, AnsweredToUser
  <1>3. ShowsTokenOwner' /\ RecoveryOfToken' /\ CookieOfToken' /\ Alone'
    BY <1>1 DEF OwnerInv, ShowsTokenOwner, RecoveryOfToken, CookieOfToken, Alone
  <1>4. QED
    BY <1>2, <1>3 DEF OwnerInv

LEMMA OwnerTokenExpires ==
  ASSUME TypeInv, OwnerInv, TokenExpires
  PROVE  OwnerInv'
  <1>1. /\ UNCHANGED <<current, refresh, call, cookie, crossed>>
        /\ tab'.user = tab.user /\ tab'.loading = tab.loading
        /\ tab.token # None /\ tab'.token # None
        /\ tab'.token.user = tab.token.user
    <2>1. [tab.token EXCEPT !.valid = FALSE] \in Tokens
      BY TokenOfUser DEF TokenExpires, TypeInv, Tokens
    <2>2. tab'.token \in Tokens /\ tab'.token.user = tab.token.user
      BY <2>1, TokenOfUser DEF TokenExpires, TypeInv, TypeOK, Tokens
    <2>3. QED
      BY <2>2, WebAssumption DEF TokenExpires, TypeInv, TypeOK, Tokens
  <1>2. ShowsTokenOwner' /\ CallsOfToken'
    BY <1>1 DEF OwnerInv, ShowsTokenOwner, CallsOfToken
  <1>3. RecoveryOfToken' /\ CookieOfToken' /\ AnsweredToUser' /\ Alone'
    BY <1>1 DEF OwnerInv, RecoveryOfToken, CookieOfToken, AnsweredToUser, Alone
  <1>4. QED
    BY <1>2, <1>3 DEF OwnerInv

(* What a page signed in or out shows.                                     *)
LEMMA SignedFields ==
  /\ \A u \in Users : /\ SignedIn(u).token # None
                       /\ SignedIn(u).token.user = u
                       /\ SignedIn(u).user = u
  /\ SignedOut.token = None /\ SignedOut.user = None
  <1>1. \A u \in Users : [user |-> u, valid |-> TRUE] # None
    <2>1. \A u \in Users : [user |-> u, valid |-> TRUE] \in [user : Users, valid : BOOLEAN]
      OBVIOUS
    <2>2. QED
      BY <2>1, WebAssumption, Zenon
  <1>2. QED
    BY <1>1 DEF SignedIn, SignedOut

LEMMA CookieFields ==
  ASSUME NEW u, NEW e, SetCookie(u, e)
  PROVE  cookie'.user = u /\ (e \notin current => cookie'.stray)
  <1>1. ASSUME e \notin current PROVE cookie' = [user |-> u, stray |-> TRUE]
    <2>1. (e \notin current) = TRUE
      BY <1>1, Zenon
    <2>2. QED
      BY <2>1, Zenon DEF SetCookie
  <1>2. PICK b : cookie' = [user |-> u, stray |-> b]
    BY Zenon DEF SetCookie
  <1>3. QED
    BY <1>1, <1>2

(* A generation that is over leaves nothing in flight: its end may show    *)
(* any user of the token.                                                  *)
LEMMA OwnerAlone ==
  ASSUME TypeInv, current' = {}, call' = call,
         tab'.user # None => tab'.token # None /\ tab'.token.user = tab'.user,
         CookieOfToken'
  PROVE  ShowsTokenOwner' /\ CallsOfToken' /\ RecoveryOfToken' /\ Alone'
  BY DEF ShowsTokenOwner, CallsOfToken, RecoveryOfToken, Alone

LEMMA OwnerMountEnds ==
  ASSUME TypeInv, OwnerInv, NEW ok \in BOOLEAN, MountEnds(ok)
  PROVE  OwnerInv'
  <1> DEFINE u == refresh["mount"].cookie
  <1>1. ok => u \in Users
    BY DEF MountEnds, Ends, TypeInv, GrantsToUser
  <1>2. /\ call' = call /\ crossed' = crossed
        /\ refresh'["recovery"] = refresh["recovery"]
    BY DEF MountEnds, TypeInv, TypeOK
  <1>3. ok => cookie'.user = u /\ (~cookie'.stray => "mount" \in current)
    BY CookieFields DEF MountEnds
  <1>4. CookieOfToken'
    <2>1. CASE ok
      BY <1>1, <1>3, <2>1, SignedFields DEF MountEnds, CookieOfToken
    <2>2. CASE ~ok
      BY <2>2, SignedFields DEF MountEnds, CookieOfToken, OwnerInv
    <2>3. QED
      BY <2>1, <2>2
  <1>5. AnsweredToUser'
    BY <1>2 DEF OwnerInv, AnsweredToUser
  <1>6. CASE "mount" \in current /\ ~crossed
    <2>1. current' = {}
      BY <1>6 DEF MountEnds, OwnerInv, Alone
    <2>2. tab'.user # None => tab'.token # None /\ tab'.token.user = tab'.user
      BY <1>1, <1>6, SignedFields DEF MountEnds
    <2>3. QED
      BY <1>2, <1>4, <1>5, <2>1, <2>2, OwnerAlone DEF OwnerInv
  <1>7. CASE "mount" \notin current
    <2>1. tab' = tab /\ current' = current
      BY <1>7 DEF MountEnds
    <2>2. QED
      BY <1>2, <1>4, <1>5, <2>1
      DEF OwnerInv, ShowsTokenOwner, CallsOfToken, RecoveryOfToken, Alone
  <1>8. CASE crossed
    <2>1. crossed' /\ current' \subseteq current
      BY <1>2, <1>8 DEF MountEnds
    <2>2. ShowsTokenOwner' /\ CallsOfToken' /\ Alone'
      BY <2>1 DEF ShowsTokenOwner, CallsOfToken, Alone
    <2>3. RecoveryOfToken'
      BY <1>2, <2>1 DEF OwnerInv, RecoveryOfToken
    <2>4. QED
      BY <1>4, <1>5, <2>2, <2>3 DEF OwnerInv
  <1>9. QED
    BY <1>6, <1>7, <1>8 DEF TypeInv, TypeOK

LEMMA OwnerLoginEnds ==
  ASSUME TypeInv, OwnerInv, NEW ok \in BOOLEAN, LoginEnds(ok)
  PROVE  OwnerInv'
  <1>1. login.user \in Users
    BY EndsTyped DEF LoginEnds, TypeInv, TypeOK, GrantsToUser
  <1>2. call' = call /\ crossed' = crossed /\ refresh' = refresh
    BY DEF LoginEnds
  <1>3. ok => cookie'.user = login.user /\ (~cookie'.stray => "login" \in current)
    BY CookieFields DEF LoginEnds
  <1>4. CookieOfToken'
    <2>1. CASE ok
      BY <1>1, <1>3, <2>1, SignedFields DEF LoginEnds, CookieOfToken
    <2>2. CASE ~ok
      BY <2>2 DEF LoginEnds, CookieOfToken, OwnerInv, TypeInv, TypeOK
    <2>3. QED
      BY <2>1, <2>2
  <1>5. AnsweredToUser'
    BY <1>2 DEF OwnerInv, AnsweredToUser
  <1>6. CASE "login" \in current /\ ~crossed
    <2>1. current' = {}
      BY <1>6 DEF LoginEnds, OwnerInv, Alone
    <2>2. tab'.user # None => tab'.token # None /\ tab'.token.user = tab'.user
      BY <1>1, <1>6, SignedFields DEF LoginEnds, TypeInv, TypeOK
    <2>3. QED
      BY <1>2, <1>4, <1>5, <2>1, <2>2, OwnerAlone DEF OwnerInv
  <1>7. CASE "login" \notin current
    <2>1. tab' = tab /\ current' = current
      BY <1>7 DEF LoginEnds
    <2>2. QED
      BY <1>2, <1>4, <1>5, <2>1
      DEF OwnerInv, ShowsTokenOwner, CallsOfToken, RecoveryOfToken, Alone
  <1>8. CASE crossed
    <2>1. crossed' /\ current' \subseteq current
      BY <1>2, <1>8 DEF LoginEnds
    <2>2. ShowsTokenOwner' /\ CallsOfToken' /\ Alone'
      BY <2>1 DEF ShowsTokenOwner, CallsOfToken, Alone
    <2>3. RecoveryOfToken'
      BY <1>2, <2>1 DEF OwnerInv, RecoveryOfToken
    <2>4. QED
      BY <1>4, <1>5, <2>2, <2>3 DEF OwnerInv
  <1>9. QED
    BY <1>6, <1>7, <1>8 DEF TypeInv, TypeOK

LEMMA OwnerLogoutEnds ==
  ASSUME TypeInv, OwnerInv, NEW ok \in BOOLEAN, LogoutEnds(ok)
  PROVE  OwnerInv'
  <1>1. call' = call /\ refresh' = refresh /\ tab'.token = None /\ tab'.user = None
    BY SignedFields DEF LogoutEnds
  <1>2. ShowsTokenOwner' /\ CookieOfToken' /\ AnsweredToUser'
    BY <1>1 DEF OwnerInv, ShowsTokenOwner, CookieOfToken, AnsweredToUser
  <1>3. ~crossed' => current' = {}
    BY DEF LogoutEnds, OwnerInv, Alone
  <1>4. "recovery" \in current' => refresh'["recovery"].pc # "idle"
    BY <1>1 DEF LogoutEnds, OwnerInv, RecoveryOfToken
  <1>5. CallsOfToken' /\ RecoveryOfToken' /\ Alone'
    BY <1>3, <1>4 DEF CallsOfToken, RecoveryOfToken, Alone
  <1>6. QED
    BY <1>2, <1>5 DEF OwnerInv

(* A login or a logout starts a generation of its own.                     *)
LEMMA OwnerStarts ==
  ASSUME TypeInv, OwnerInv, NEW e \in {"login", "logout"},
         current' = {e}, tab' = [tab EXCEPT !.loading = TRUE],
         UNCHANGED <<refresh, call, cookie, crossed>>
  PROVE  OwnerInv'
  <1>1. /\ tab'.user = tab.user /\ tab'.token = tab.token /\ tab'.loading
    BY DEF TypeInv, TypeOK
  <1>2. \A c \in Calls : c \notin current'
    BY CallIsNoOther DEF Others
  <1>3. ShowsTokenOwner' /\ CallsOfToken' /\ CookieOfToken' /\ AnsweredToUser'
    BY <1>1, <1>2 DEF OwnerInv, ShowsTokenOwner, CallsOfToken, CookieOfToken, AnsweredToUser
  <1>4. RecoveryOfToken' /\ Alone'
    BY <1>1 DEF RecoveryOfToken, Alone
  <1>5. QED
    BY <1>3, <1>4 DEF OwnerInv

LEMMA OwnerStartCall ==
  ASSUME TypeInv, OwnerInv, NEW c \in Calls, StartCall(c)
  PROVE  OwnerInv'
  <1>1. /\ UNCHANGED <<tab, refresh, cookie, crossed>>
        /\ current' = current \cup {c}
        /\ \A d \in Calls \ {c} : call'[d] = call[d]
        /\ call'[c].as = Bearer /\ call'[c].pc = "sent"
        /\ tab.user # None /\ ~tab.loading
    BY DEF StartCall, IdleCall, TypeInv, TypeOK
  <1>2. ~crossed => tab.token # None /\ Bearer \in {None, tab.token.user}
    BY <1>1 DEF OwnerInv, ShowsTokenOwner, Bearer
  <1>3. CallsOfToken' /\ AnsweredToUser'
    BY <1>1, <1>2 DEF OwnerInv, CallsOfToken, AnsweredToUser
  <1>4. ShowsTokenOwner' /\ CookieOfToken'
    BY <1>1 DEF OwnerInv, ShowsTokenOwner, CookieOfToken
  <1>5. RecoveryOfToken' /\ Alone'
    BY <1>1, CallIsNoOther DEF OwnerInv, RecoveryOfToken, Alone, Others
  <1>6. QED
    BY <1>3, <1>4, <1>5 DEF OwnerInv

(* A call of the present generation reports the token's user, or none.     *)
LEMMA OwnerDone ==
  ASSUME TypeInv, OwnerInv, NEW c \in Calls, NEW user, NEW outcome,
         Done(c, outcome), Report(c, user), UNCHANGED <<refresh, cookie>>,
         user # None => user = call[c].as /\ user \in Users
  PROVE  OwnerInv'
  <1>1. /\ current' = current \ {c}
        /\ \A d \in Calls \ {c} : call'[d] = call[d]
        /\ call'[c].pc = "done"
    BY DEF Done, IdleCall, TypeInv, TypeOK
  <1>2. tab'.token = tab.token /\ tab'.user \in {tab.user, user}
    BY DEF Report, TypeInv, TypeOK
  <1>3. crossed => crossed'
    BY DEF Report
  <1>4. CASE tab' = tab /\ crossed' = crossed
    <2>1. ShowsTokenOwner' /\ CookieOfToken' /\ RecoveryOfToken'
      BY <1>1, <1>4, CallIsNoOther
      DEF OwnerInv, ShowsTokenOwner, CookieOfToken, RecoveryOfToken, Others
    <2>2. CallsOfToken' /\ AnsweredToUser'
      BY <1>1, <1>4 DEF OwnerInv, CallsOfToken, AnsweredToUser
    <2>3. Alone'
      BY <1>1, <1>4, CallIsNoOther DEF OwnerInv, Alone, Others
    <2>4. QED
      BY <2>1, <2>2, <2>3 DEF OwnerInv
  <1>5. CASE tab' = [tab EXCEPT !.user = user, !.loading = FALSE]
             /\ crossed' = (crossed \/ c \notin current)
    <2>1. ~crossed' => ~crossed /\ c \in current
      BY <1>5
    <2>2. ~crossed' /\ user # None => tab.token # None /\ tab.token.user = user
      BY <2>1 DEF OwnerInv, CallsOfToken
    <2>3. tab'.user = user
      BY <1>5 DEF TypeInv, TypeOK
    <2>4. ShowsTokenOwner' /\ CookieOfToken' /\ RecoveryOfToken'
      BY <1>1, <1>2, <2>1, <2>2, <2>3, CallIsNoOther
      DEF OwnerInv, ShowsTokenOwner, CookieOfToken, RecoveryOfToken, Others
    <2>5. CallsOfToken' /\ AnsweredToUser'
      BY <1>1, <1>2, <2>1 DEF OwnerInv, CallsOfToken, AnsweredToUser
    <2>6. ~crossed' => \A e \in {"mount", "login", "logout"} : e \notin current'
      BY <1>1, <2>1, CallIsNoOther DEF OwnerInv, Alone, Others
    <2>7. QED
      BY <2>4, <2>5, <2>6 DEF OwnerInv, Alone
  <1>6. QED
    BY <1>4, <1>5 DEF Report

LEMMA OwnerAwaitRecovery ==
  ASSUME TypeInv, OwnerInv, NEW c \in Calls, AwaitRecovery(c)
  PROVE  OwnerInv'
  <1>1. /\ UNCHANGED <<tab, cookie>>
        /\ \A d \in Calls : call'[d].as = call[d].as
        /\ \A d \in Calls \ {c} : call'[d] = call[d]
        /\ call'[c].pc = "waiting"
    BY DEF AwaitRecovery, TypeInv, TypeOK, CallRecord
  <1>2. CASE refresh["recovery"].pc # "idle"
    <2>1. UNCHANGED <<tab, current, refresh, cookie, crossed>>
      BY <1>2 DEF AwaitRecovery
    <2>2. CallsOfToken' /\ AnsweredToUser'
      BY <1>1, <2>1 DEF OwnerInv, CallsOfToken, AnsweredToUser
    <2>3. ShowsTokenOwner' /\ RecoveryOfToken' /\ CookieOfToken' /\ Alone'
      BY <2>1 DEF OwnerInv, ShowsTokenOwner, RecoveryOfToken, CookieOfToken, Alone
    <2>4. QED
      BY <2>2, <2>3 DEF OwnerInv
  <1>3. CASE refresh["recovery"].pc = "idle"
    <2>1. /\ refresh'["recovery"].pc = "sent"
          /\ refresh'["recovery"].cookie = cookie.user
          /\ current' = IF c \in current THEN current \cup {"recovery"} ELSE current
          /\ crossed' = (crossed \/ cookie.stray)
      BY <1>3 DEF AwaitRecovery, TypeInv, TypeOK
    <2>2. "recovery" \notin current
      BY <1>3 DEF OwnerInv, RecoveryOfToken
    <2>3. \A d \in Calls : d \in current' <=> d \in current
      BY <2>1, CallIsNoOther DEF Others
    <2>4. CallsOfToken' /\ AnsweredToUser'
      BY <1>1, <2>1, <2>3 DEF OwnerInv, CallsOfToken, AnsweredToUser
    <2>5. RecoveryOfToken'
      <3>1. ~crossed' /\ c \in current => tab.token # None /\ cookie.user = tab.token.user
        BY <2>1 DEF OwnerInv, CallsOfToken, CookieOfToken
      <3>2. QED
        BY <1>1, <2>1, <2>2, <3>1 DEF RecoveryOfToken
    <2>6. ShowsTokenOwner' /\ CookieOfToken'
      BY <1>1, <2>1 DEF OwnerInv, ShowsTokenOwner, CookieOfToken
    <2>7. Alone'
      <3>1. ~crossed /\ c \in current
            => \A e \in {"mount", "login", "logout"} : e \notin current
        BY CallIsNoOther DEF OwnerInv, Alone, Others
      <3>2. QED
        BY <1>1, <2>1, <3>1 DEF OwnerInv, Alone
    <2>8. QED
      BY <2>4, <2>5, <2>6, <2>7 DEF OwnerInv
  <1>4. QED
    BY <1>2, <1>3

LEMMA OwnerCall ==
  ASSUME TypeInv, OwnerInv, NEW c \in Calls, CallStep(c)
  PROVE  OwnerInv'
  <1>1. CASE ServeCall(c)
    BY <1>1, OwnerServeCall
  <1>2. CASE CallSucceeds(c)
    <2>1. call[c].as \in Users
      BY <1>2 DEF CallSucceeds, OwnerInv, AnsweredToUser
    <2>2. QED
      BY <1>2, <2>1, OwnerDone DEF CallSucceeds
  <1>3. CASE CallRefused(c)
    BY <1>3, OwnerDone DEF CallRefused
  <1>4. CASE CallUnauthorized(c)
    BY <1>4, OwnerAwaitRecovery DEF CallUnauthorized
  <1>5. CASE CallLost(c)
    BY <1>5, OwnerDone DEF CallLost
  <1>6. QED
    BY <1>1, <1>2, <1>3, <1>4, <1>5 DEF CallStep

LEMMA OwnerRecovery ==
  ASSUME TypeInv, OwnerInv, RecoveryStep
  PROVE  OwnerInv'
  <1>1. CASE RecoverySucceeds
    <2> DEFINE u == refresh["recovery"].cookie
               new == [user |-> u, valid |-> TRUE]
    <2>1. u \in Users /\ new \in [user : Users, valid : BOOLEAN]
      BY <1>1 DEF RecoverySucceeds, TypeInv, GrantsToUser
    <2>2. new # None /\ new.user = u
      BY <2>1, WebAssumption
    <2>3. tab'.token = new /\ tab'.user = tab.user /\ tab'.loading = tab.loading
      BY <1>1 DEF RecoverySucceeds, TypeInv, TypeOK
    <2>4. ~crossed' => /\ ~crossed /\ "recovery" \in current
                       /\ tab.token # None /\ tab.token.user = u
      BY <1>1 DEF RecoverySucceeds, OwnerInv, RecoveryOfToken
    <2>5. current' = current \ {"recovery"}
      BY <1>1 DEF RecoverySucceeds
    <2>6. ShowsTokenOwner'
      BY <2>2, <2>3, <2>4 DEF OwnerInv, ShowsTokenOwner
    <2>7. ASSUME NEW c \in Calls
          PROVE  /\ call'[c].as \in {call[c].as, u}
                 /\ call'[c].pc = "answered" => call'[c] = call[c]
      BY <1>1 DEF RecoverySucceeds, TypeInv, TypeOK, CallRecord
    <2>8. CallsOfToken'
      BY <2>2, <2>3, <2>4, <2>5, <2>7 DEF OwnerInv, CallsOfToken
    <2>9. RecoveryOfToken'
      BY <2>5 DEF RecoveryOfToken
    <2>10. CookieOfToken'
      <3>1. cookie'.user = u
        BY <1>1, CookieFields DEF RecoverySucceeds
      <3>2. QED
        BY <2>2, <2>3, <3>1 DEF CookieOfToken
    <2>11. AnsweredToUser'
      BY <2>7 DEF OwnerInv, AnsweredToUser
    <2>12. Alone'
      BY <2>3, <2>4, <2>5 DEF OwnerInv, Alone
    <2>13. QED
      BY <2>6, <2>8, <2>9, <2>10, <2>11, <2>12 DEF OwnerInv
  <1>2. CASE RecoveryFails
    <2>1. /\ current' = {} /\ tab'.user = None /\ tab'.token = None
          /\ \A c \in Calls : call'[c].pc = "answered" => call'[c] = call[c]
      BY <1>2, SignedFields DEF RecoveryFails, IdleCall
    <2>2. QED
      BY <2>1 DEF OwnerInv, ShowsTokenOwner, CallsOfToken, RecoveryOfToken,
                  CookieOfToken, AnsweredToUser, Alone
  <1>3. QED
    BY <1>1, <1>2 DEF RecoveryStep

LEMMA OwnerStep ==
  TypeInv /\ OwnerInv /\ [Next]_vars => OwnerInv'
  <1> SUFFICES ASSUME TypeInv, OwnerInv, [Next]_vars PROVE OwnerInv'
    OBVIOUS
  <1>1. ASSUME \/ \E k \in {"mount", "recovery"} : RefreshStep(k)
               \/ ServeLogin \/ ServeLogout
               \/ \E u \in Users : SessionEnds(u) \/ Deactivate(u)
        PROVE  OwnerInv'
    BY <1>1, OwnerServer
  <1>2. CASE MountStep
    BY <1>2, OwnerMountEnds DEF MountStep
  <1>3. ASSUME NEW ok \in BOOLEAN, LoginEnds(ok) \/ LogoutEnds(ok) PROVE OwnerInv'
    BY <1>3, OwnerLoginEnds, OwnerLogoutEnds
  <1>4. ASSUME NEW u \in Users, StartLogin(u) PROVE OwnerInv'
    BY <1>4, OwnerStarts DEF StartLogin
  <1>5. CASE StartLogout
    BY <1>5, OwnerStarts DEF StartLogout
  <1>6. CASE TokenExpires
    BY <1>6, OwnerTokenExpires
  <1>7. CASE RecoveryStep
    BY <1>7, OwnerRecovery
  <1>8. ASSUME NEW c \in Calls, CallStep(c) \/ StartCall(c) PROVE OwnerInv'
    BY <1>8, OwnerCall, OwnerStartCall
  <1>9. CASE UNCHANGED vars
    BY <1>9, OwnerUnmoved DEF vars, page
  <1>10. QED
    BY <1>1, <1>2, <1>3, <1>4, <1>5, <1>6, <1>7, <1>8, <1>9
    DEF Next, LoginStep, LogoutStep

-----------------------------------------------------------------------------
(* Theorems.                                                               *)

LEMMA PageInvariant ==
  Spec => [](TypeInv /\ OwnerInv)
  <1>1. Init => TypeInv /\ OwnerInv
    BY TypeInit, OwnerInit
  <1>2. TypeInv /\ OwnerInv /\ [Next]_vars => TypeInv' /\ OwnerInv'
    BY TypeStep, OwnerStep
  <1>3. QED
    BY <1>1, <1>2, PTL DEF Spec

(* The state of the page and of the endpoints keeps its types.             *)
THEOREM TypeCorrect ==
  Spec => []TypeOK
  <1>1. TypeInv => TypeOK
    BY DEF TypeInv
  <1>2. QED
    BY <1>1, PageInvariant, PTL

(* For any users, calls and orders of the answers, the page acts for the   *)
(* user it shows, as long as nothing of an earlier generation is made use  *)
(* of.                                                                     *)
THEOREM OwnerShown ==
  Spec => []ShowsTokenOwner
  <1>1. OwnerInv => ShowsTokenOwner
    BY DEF OwnerInv
  <1>2. QED
    BY <1>1, PageInvariant, PTL

(* No call is executed twice by the recovery from a 401, and none is       *)
(* reported otherwise than it went.                                        *)
THEOREM OutcomeTrue ==
  Spec => []OutcomeIsTrue
  <1>1. TypeInv => OutcomeIsTrue
    BY DEF TypeInv, OutcomeInv
  <1>2. QED
    BY <1>1, PageInvariant, PTL
=============================================================================
