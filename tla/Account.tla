------------------------------- MODULE Account -------------------------------
(***************************************************************************)
(* One account of a store (apps/users) and its sessions: each sign-in ends *)
(* in a cookie with a refresh token, and each refresh blacklists the token *)
(* it was sent and issues another. A request reads the tables and commits  *)
(* what it writes later. Managers edit the account itself.                 *)
(***************************************************************************)
EXTENDS Naturals, FiniteSets

CONSTANTS
  Tokens,  \* refresh tokens that may be issued
  Devices  \* requests that may be in progress at once

VARIABLES
  account, \* User: "none", "active" or "inactive"
  edited,  \* User.is_active as a PATCH has read it, or "none"
  token,   \* "none", "live" or "used": outstanding, and blacklisted
  device,  \* what a request has read: tokens it is about to blacklist
  signIns, \* tokens issued for a password, or by Google
  forks    \* history: refreshes that committed after another with the same token

vars == <<account, edited, token, device, signIns, forks>>

Live == {t \in Tokens : token[t] = "live"}
Idle == [does |-> "nothing", tokens |-> {}]
Requested(d, what) == device[d].does = what

Init ==
  /\ account = "none" /\ edited = "none"
  /\ token = [t \in Tokens |-> "none"]
  /\ device = [d \in Devices |-> Idle]
  /\ signIns = 0 /\ forks = 0

-----------------------------------------------------------------------------
(* The account *)

\* UserManagementView.post or StaffListView.post. The email is unique in a store.
CreateStaff ==
  /\ account = "none"
  /\ account' = "active"
  /\ UNCHANGED <<edited, token, device, signIns, forks>>

ReadStaff ==
  /\ account # "none" /\ edited = "none"
  /\ edited' = account
  /\ UNCHANGED <<account, token, device, signIns, forks>>

\* UserDetailView.patch saves the whole row, with is_active as it was read unless
\* the request gives it.
PatchStaff ==
  /\ edited # "none"
  /\ account' \in {edited, "active", "inactive"}
  /\ edited' = "none"
  /\ UNCHANGED <<token, device, signIns, forks>>

DeactivateStaff ==
  /\ account # "none"
  /\ account' = "inactive"
  /\ UNCHANGED <<edited, token, device, signIns, forks>>

-----------------------------------------------------------------------------
(* Its sessions *)

Issue(t, old) ==
  /\ token[t] = "none"
  /\ token' = [[s \in Tokens |-> IF s \in old THEN "used" ELSE token[s]] EXCEPT ![t] = "live"]

\* GoogleOAuthCallbackView creates the account when there is none.
GoogleCallback(t) ==
  /\ account' = IF account = "none" THEN "active" ELSE account
  /\ Issue(t, {})
  /\ signIns' = signIns + 1
  /\ UNCHANGED <<edited, device, forks>>

Begin(d, what, tokens) ==
  /\ Requested(d, "nothing")
  /\ device' = [device EXCEPT ![d] = [does |-> what, tokens |-> tokens]]
  /\ UNCHANGED <<account, edited, token, signIns, forks>>

\* TokenRefreshView is sent a token that it finds on no blacklist, or on one; then,
\* as LogoutAllView does, it lists the tokens that are outstanding.
BeginRefresh(d, t)   == token[t] = "live" /\ Begin(d, "refresh", {t})
BeginBlacklist(d, t) == token[t] = "used" /\ Begin(d, "all", Live)
BeginLogout(d)       == account = "active" /\ Begin(d, "all", Live)

\* TokenObtainView has found the account active, which it need not be any more when
\* the token is issued.
BeginSignIn(d) == account = "active" /\ Begin(d, "login", {})

ObtainToken(d, t) ==
  /\ Requested(d, "login")
  /\ Issue(t, {})
  /\ signIns' = signIns + 1
  /\ device' = [device EXCEPT ![d] = Idle]
  /\ UNCHANGED <<account, edited, forks>>

\* Mutant: the token that was sent stays good.
RefreshOnly(d, t) ==
  /\ Requested(d, "refresh")
  /\ Issue(t, {})
  /\ forks'  = forks + (IF device[d].tokens \subseteq Live THEN 0 ELSE 1)
  /\ device' = [device EXCEPT ![d] = Idle]
  /\ UNCHANGED <<account, edited, signIns>>

\* blacklist() is get_or_create: a token that another request has blacklisted since
\* it was read is refreshed once more.
Refresh(d, t) ==
  /\ Requested(d, "refresh")
  /\ Issue(t, device[d].tokens)
  /\ forks'  = forks + (IF device[d].tokens \subseteq Live THEN 0 ELSE 1)
  /\ device' = [device EXCEPT ![d] = Idle]
  /\ UNCHANGED <<account, edited, signIns>>

\* _invalidate_user_tokens, and LogoutAllView
BlacklistAll(d) ==
  /\ Requested(d, "all")
  /\ token'  = [t \in Tokens |-> IF t \in device[d].tokens THEN "used" ELSE token[t]]
  /\ device' = [device EXCEPT ![d] = Idle]
  /\ UNCHANGED <<account, edited, signIns, forks>>

Next ==
  \/ CreateStaff \/ ReadStaff \/ PatchStaff \/ DeactivateStaff
  \/ \E t \in Tokens : GoogleCallback(t)
  \/ \E d \in Devices :
       \/ \E t \in Tokens : BeginRefresh(d, t) \/ BeginBlacklist(d, t) \/ Refresh(d, t) \/ ObtainToken(d, t)
       \/ BeginSignIn(d) \/ BeginLogout(d) \/ BlacklistAll(d)

Spec == Init /\ [][Next]_vars

-----------------------------------------------------------------------------
TypeOK ==
  /\ account \in {"none", "active", "inactive"} /\ edited \in {"none", "active", "inactive"}
  /\ token \in [Tokens -> {"none", "live", "used"}]
  /\ device \in [Devices -> [does : {"nothing", "login", "refresh", "all"}, tokens : SUBSET Tokens]]
  /\ signIns \in 0 .. Cardinality(Tokens) /\ forks \in 0 .. Cardinality(Tokens)

\* An account has no more sessions than sign-ins, however often each was refreshed,
\* but for refreshes that overlapped another with the same token.
SessionsBound == Cardinality(Live) <= signIns + forks
=============================================================================
