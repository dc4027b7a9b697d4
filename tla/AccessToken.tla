---------------------------- MODULE AccessToken ----------------------------
(***************************************************************************)
(* The OAuth2 token of Daraja (DarajaClient of apps/payment), which every  *)
(* process takes from Redis before it calls Daraja. When it is not there,  *)
(* the process that sets a lock fetches a token and the others poll for    *)
(* it. The lock has no owner: it expires under a fetch that is slow, and   *)
(* who ends a fetch deletes whatever lock there is by then. Each query of  *)
(* Redis may fail, after which the token is fetched without the lock.      *)
(***************************************************************************)
EXTENDS Naturals, FiniteSets

CONSTANTS
  Processes,  \* web and Celery processes that call Daraja
  MaxOverruns \* bound: locks that expire under their fetch

VARIABLES
  cached,  \* there is a token under token_key
  owner,   \* who has set token_lock: none, or one process
  at,      \* where a process is in get_access_token
  overruns \* history: locks that expired while who had set them was fetching

vars == <<cached, owner, at, overruns>>

Places == {"idle", "miss", "fetching", "polling", "direct", "calling"}
Goes(w, place) == at' = [at EXCEPT ![w] = place]

\* Processes that fetch a token because they have got the lock.
Fetching == {w \in Processes : at[w] = "fetching"}

Init ==
  /\ cached = FALSE
  /\ owner = {}
  /\ at = [w \in Processes |-> "idle"]
  /\ overruns = 0

-----------------------------------------------------------------------------
\* Step 1, the fast path; Redis may be down.
Ask(w) ==
  /\ at[w] = "idle"
  /\ Goes(w, IF cached THEN "calling" ELSE "miss") \/ Goes(w, "direct")
  /\ UNCHANGED <<cached, owner, overruns>>

\* Mutant: SET without NX.
AcquireAlways(w) ==
  /\ at[w] = "miss"
  /\ owner' = {w}
  /\ Goes(w, "fetching")
  /\ UNCHANGED <<cached, overruns>>

\* Step 2: SET NX with LOCK_TTL.
Acquire(w) ==
  /\ at[w] = "miss"
  /\ IF owner = {} THEN owner' = {w} /\ Goes(w, "fetching")
                   ELSE owner' = owner /\ Goes(w, "polling")
  /\ UNCHANGED <<cached, overruns>>

\* The token has come: it is cached for TOKEN_TTL, and the lock deleted.
StoreToken(w) ==
  /\ at[w] = "fetching"
  /\ cached' = TRUE
  /\ owner'  = {}
  /\ Goes(w, "calling")
  /\ UNCHANGED overruns

\* The fetch has failed: the lock is deleted all the same.
FetchFails(w) ==
  /\ at[w] = "fetching"
  /\ owner' = {}
  /\ Goes(w, "idle")
  /\ UNCHANGED <<cached, overruns>>

\* Step 3: the token of another is there, or LOCK_MAX_WAIT has passed.
Poll(w) ==
  /\ at[w] = "polling"
  /\ Goes(w, IF cached THEN "calling" ELSE "direct")
  /\ UNCHANGED <<cached, owner, overruns>>

\* Redis fails: on SET, perhaps when the lock is set already; on SETEX or DELETE, when
\* one of them may have been done; or on a poll.
RedisFails(w) ==
  /\ Goes(w, "direct")
  /\ \/ at[w] = "miss" /\ owner' \in {owner, IF owner = {} THEN {w} ELSE owner}
        /\ UNCHANGED cached
     \/ at[w] = "fetching" /\ owner' \in {owner, {}} /\ cached' \in {cached, TRUE}
     \/ at[w] = "polling" /\ UNCHANGED <<cached, owner>>
  /\ UNCHANGED overruns

\* A token that was fetched without the lock is not cached.
FetchDirectly(w) ==
  /\ at[w] = "direct"
  /\ Goes(w, "calling") \/ Goes(w, "idle")
  /\ UNCHANGED <<cached, owner, overruns>>

\* initiate_stk_push, initiate_reversal, query_transaction_status, register_c2b_url:
\* the token stays cached whatever Daraja answers.
CallDaraja(w) ==
  /\ at[w] = "calling"
  /\ Goes(w, "idle")
  /\ UNCHANGED <<cached, owner, overruns>>

\* The process dies; its lock stays.
Die(w) ==
  /\ at[w] # "idle"
  /\ Goes(w, "idle")
  /\ UNCHANGED <<cached, owner, overruns>>

-----------------------------------------------------------------------------
\* TOKEN_TTL and LOCK_TTL
TokenExpires ==
  /\ cached
  /\ cached' = FALSE
  /\ UNCHANGED <<owner, at, overruns>>

LockExpires ==
  /\ owner # {}
  /\ LET overrun == owner \cap Fetching # {}
     IN  /\ overrun => overruns < MaxOverruns \* bound
         /\ overruns' = IF overrun THEN overruns + 1 ELSE overruns
  /\ owner' = {}
  /\ UNCHANGED <<cached, at>>

Next ==
  \/ \E w \in Processes :
       \/ Ask(w) \/ Acquire(w) \/ StoreToken(w) \/ FetchFails(w) \/ Poll(w)
       \/ RedisFails(w) \/ FetchDirectly(w) \/ CallDaraja(w) \/ Die(w)
  \/ TokenExpires \/ LockExpires

Spec == Init /\ [][Next]_vars

-----------------------------------------------------------------------------
TypeOK ==
  /\ cached \in BOOLEAN
  /\ owner \subseteq Processes /\ Cardinality(owner) <= 1
  /\ at \in [Processes -> Places]
  /\ overruns \in 0 .. MaxOverruns

\* "One Celery worker fetches while others poll": the processes that fetch at a time
\* under the lock are one, and one more for each lock that has expired under its
\* fetch. Such a fetch deletes the lock of the next when it ends, so that there may
\* be two of them ever after, but not three.
OneFetcher == Cardinality(Fetching) <= 1 + overruns
=============================================================================
