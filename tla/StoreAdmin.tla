----------------------------- MODULE StoreAdmin -----------------------------
(***************************************************************************)
(* A store (apps/store) that is provisioned and moved from status to       *)
(* status by the platform, under a lock, and configured by its managers:   *)
(* each view of the settings, the theme or the logo looks for a row of the *)
(* store and creates it when there is none. No constraint makes the row    *)
(* unique.                                                                 *)
(***************************************************************************)
EXTENDS Naturals, FiniteSets

CONSTANTS
  Managers \* requests that may be in progress at once

VARIABLES
  store,    \* Store.status, or "none"
  welcome,  \* onboarding mails: of a request that may still fail, queued or sent
  settings, \* rows of StoreSettings and StoreTheme
  manager,  \* the table a request has looked at, and how many rows it saw
  logo      \* the file of the logo, and the row that names it

vars == <<store, welcome, settings, manager, logo>>

Tables == {"settings", "theme"}
Free   == <<"none", 0>>

\* VALID_STATUS_TRANSITIONS
StatusMoves ==
  {<<"pending", "active">>, <<"active", "suspended">>, <<"suspended", "cancelled">>}

Init ==
  /\ store = "none" /\ welcome = "none"
  /\ settings = [t \in Tables |-> 0]
  /\ manager  = [m \in Managers |-> Free]
  /\ logo = {}

\* StoreProvisionSerializer.create: the store, its subscription and its owner. The
\* mail is queued before the request commits, or fails.
Provision ==
  /\ store = "none"
  /\ welcome' = "queued"
  /\ store' \in {"pending", "none"}
  /\ UNCHANGED <<settings, manager, logo>>

SendWelcome ==
  /\ welcome = "queued"
  /\ welcome' = "sent"
  /\ UNCHANGED <<store, settings, manager, logo>>

\* StoreStatusUpdateView holds the lock of the row from the check to the save.
UpdateStatus(new) ==
  /\ <<store, new>> \in StatusMoves
  /\ store' = new
  /\ UNCHANGED <<welcome, settings, manager, logo>>

\* TenantMiddleware answers 404 without a store, and 503 for a suspended one.
Served == store \notin {"none", "suspended"}

\* get_or_create finds a row or not; with several, it raises, and every view of them
\* fails from then on.
OpenTable(m, t) ==
  /\ Served /\ manager[m] = Free /\ settings[t] <= 1
  /\ manager' = [manager EXCEPT ![m] = <<t, settings[t]>>]
  /\ UNCHANGED <<store, welcome, settings, logo>>

\* The row it has created commits, with what a PATCH, a preset or the upload of a
\* logo has written to it.
SaveRow(m, t) ==
  /\ manager[m][1] = t
  /\ settings' = [settings EXCEPT ![t] = IF manager[m][2] = 0 THEN @ + 1 ELSE @]
  /\ logo' \in {logo, IF t = "settings" THEN {"file", "row"} ELSE logo}
  /\ manager' = [manager EXCEPT ![m] = Free]
  /\ UNCHANGED <<store, welcome>>

\* The file of a logo stays when the request fails.
FailRow(m) ==
  /\ manager[m] # Free
  /\ logo' \in {logo, logo \cup (IF manager[m][1] = "settings" THEN {"file"} ELSE {})}
  /\ manager' = [manager EXCEPT ![m] = Free]
  /\ UNCHANGED <<store, welcome, settings>>

Next ==
  \/ Provision \/ SendWelcome
  \/ \E new \in {"active", "suspended", "cancelled"} : UpdateStatus(new)
  \/ \E m \in Managers : FailRow(m) \/ \E t \in Tables : OpenTable(m, t) \/ SaveRow(m, t)

Spec == Init /\ [][Next]_vars

-----------------------------------------------------------------------------
\* A store has at most as many rows of settings as requests that looked for the first
\* one at once.
TypeOK ==
  /\ store \in {"none", "pending", "active", "suspended", "cancelled"}
  /\ welcome \in {"none", "queued", "sent"}
  /\ settings \in [Tables -> 0 .. Cardinality(Managers)]
  /\ manager \in [Managers -> {Free} \cup (Tables \X {0, 1})]
  /\ logo \subseteq {"file", "row"}
=============================================================================
