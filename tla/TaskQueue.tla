------------------------------ MODULE TaskQueue ------------------------------
(***************************************************************************)
(* A queue of Celery and the child processes of its worker. Tasks whose    *)
(* base is DLQTask are acknowledged when they end (acks_late), the others  *)
(* when they begin. A task that fails is published again with a delay; the *)
(* last failure of a DLQTask is recorded in a list of Redis. Retries, the  *)
(* death of the worker, of a child, and of Redis may come between any two  *)
(* steps.                                                                  *)
(***************************************************************************)
EXTENDS Naturals, Sequences, FiniteSets, SequencesExt

CONSTANTS
  Late,       \* calls of tasks of class DLQTask
  Early,      \* calls of other tasks
  Children,   \* processes of the worker
  MaxRetries, \* Task.max_retries
  DlqCap,     \* 10000: entries the list keeps
  MaxCrashes  \* bound: deaths of processes

ASSUME QueueAssumption ==
  IsFiniteSet(Children) /\ MaxRetries \in Nat /\ DlqCap \in Nat \ {0} /\ MaxCrashes \in Nat

VARIABLES
  published,  \* calls that were published
  ready,      \* how many messages of a call with a number of retries wait
  child,      \* the message a process has taken, and how far it has come
  completed,  \* calls an execution of which has ended well
  killed,     \* calls whose process died under them
  unrecorded, \* calls whose failure could not be recorded, or that failed plainly
  dlq,        \* "celery:dlq", the oldest entry first
  crashes

vars == <<published, ready, child, completed, killed, unrecorded, dlq, crashes>>

Calls    == Late \cup Early
Messages == Calls \X (0 .. MaxRetries)
Free     == <<"free">>
Taken    == {"run", "retried", "ended"} \X Calls \X (0 .. MaxRetries)

\* Processes that have taken message m.
Holders(m) == {c \in Children : \E step \in {"run", "retried", "ended"} :
                                  child[c] = <<step, m[1], m[2]>>}

Init ==
  /\ published  = {}
  /\ ready      = [m \in Messages |-> 0]
  /\ child      = [c \in Children |-> Free]
  /\ completed  = {}
  /\ killed     = {}
  /\ unrecorded = {}
  /\ dlq        = <<>>
  /\ crashes    = 0

\* apply_async, send_task or beat.
Publish(t) ==
  /\ t \notin published
  /\ published' = published \cup {t}
  /\ ready' = [ready EXCEPT ![<<t, 0>>] = @ + 1]
  /\ UNCHANGED <<child, completed, killed, unrecorded, dlq, crashes>>

\* A message is no longer visible to others while a process has it.
Take(c, m) ==
  /\ child[c] = Free /\ ready[m] > 0
  /\ ready' = [ready EXCEPT ![m] = @ - 1]
  /\ child' = [child EXCEPT ![c] = <<"run", m[1], m[2]>>]
  /\ UNCHANGED <<published, completed, killed, unrecorded, dlq, crashes>>

Succeed(c, m) ==
  /\ child[c] = <<"run", m[1], m[2]>>
  /\ child' = [child EXCEPT ![c] = <<"ended", m[1], m[2]>>]
  /\ completed' = completed \cup {m[1]}
  /\ UNCHANGED <<published, ready, killed, unrecorded, dlq, crashes>>

\* DLQTask.retry: the call is published again, and then its message acknowledged.
Retry(c, m) ==
  /\ child[c] = <<"run", m[1], m[2]>> /\ m[2] < MaxRetries
  /\ ready' = [ready EXCEPT ![<<m[1], m[2] + 1>>] = @ + 1]
  /\ child' = [child EXCEPT ![c] = <<"retried", m[1], m[2]>>]
  /\ UNCHANGED <<published, completed, killed, unrecorded, dlq, crashes>>

\* Mutant: the list is not trimmed.
RecordUntrimmed(t) ==
  \/ dlq' = Append(dlq, t) /\ UNCHANGED unrecorded
  \/ unrecorded' = unrecorded \cup {t} /\ UNCHANGED dlq

\* _publish_to_dlq adds an entry and removes the oldest beyond the cap; Redis may
\* be down, which is no error.
Record(t) ==
  \/ /\ dlq' = LET all == Append(dlq, t)
               IN  IF Len(all) > DlqCap THEN Tail(all) ELSE all
     /\ UNCHANGED unrecorded
  \/ /\ unrecorded' = unrecorded \cup {t}
     /\ UNCHANGED dlq

\* on_failure, after the last retry.
Fail(c, m) ==
  /\ child[c] = <<"run", m[1], m[2]>> /\ m[2] = MaxRetries
  /\ child' = [child EXCEPT ![c] = <<"ended", m[1], m[2]>>]
  /\ IF m[1] \in Late THEN Record(m[1])
     ELSE unrecorded' = unrecorded \cup {m[1]} /\ UNCHANGED dlq
  /\ UNCHANGED <<published, ready, completed, killed, crashes>>

Acknowledge(c, m) ==
  /\ child[c] \in {<<"retried", m[1], m[2]>>, <<"ended", m[1], m[2]>>}
  /\ child' = [child EXCEPT ![c] = Free]
  /\ UNCHANGED <<published, ready, completed, killed, unrecorded, dlq, crashes>>

\* Mutant: every task is acknowledged when it begins.
WorkerDiesAcknowledged ==
  /\ crashes < MaxCrashes
  /\ child' = [c \in Children |-> Free]
  /\ crashes' = crashes + 1
  /\ UNCHANGED <<published, ready, completed, killed, unrecorded, dlq>>

\* The worker dies with all its processes. The messages that were not
\* acknowledged become visible again.
WorkerDies ==
  /\ crashes < MaxCrashes
  /\ child' = [c \in Children |-> Free]
  /\ ready' = [m \in Messages |-> IF m[1] \in Late THEN ready[m] + Cardinality(Holders(m)) ELSE ready[m]]
  /\ crashes' = crashes + 1
  /\ UNCHANGED <<published, completed, killed, unrecorded, dlq>>

\* A process dies alone, for memory or the time limit: the worker acknowledges
\* the message for it (task_reject_on_worker_lost is not set).
ChildDies(c) ==
  /\ crashes < MaxCrashes /\ child[c] # Free
  /\ killed' = killed \cup {child[c][2]}
  /\ child'  = [child EXCEPT ![c] = Free]
  /\ crashes' = crashes + 1
  /\ UNCHANGED <<published, ready, completed, unrecorded, dlq>>

Execute(c, m) ==
  Take(c, m) \/ Succeed(c, m) \/ Retry(c, m) \/ Fail(c, m) \/ Acknowledge(c, m)

Next ==
  \/ \E t \in Calls : Publish(t)
  \/ \E c \in Children : ChildDies(c) \/ \E m \in Messages : Execute(c, m)
  \/ WorkerDies

Spec == Init /\ [][Next]_vars

-----------------------------------------------------------------------------
TypeOK ==
  /\ published \subseteq Calls
  /\ ready \in [Messages -> Nat]
  /\ child \in [Children -> Taken \cup {Free}]
  /\ completed \subseteq Calls /\ killed \subseteq Calls /\ unrecorded \subseteq Calls
  /\ dlq \in Seq(Calls) /\ Len(dlq) <= DlqCap
  /\ crashes \in 0 .. MaxCrashes

Waiting(t) == \E n \in 0 .. MaxRetries : ready[<<t, n>>] > 0
Held(t)    == \E c \in Children : \E n \in 0 .. MaxRetries : \E step \in {"run", "retried", "ended"} :
                child[c] = <<step, t, n>>
Recorded(t) == t \in Range(dlq) \/ Len(dlq) = DlqCap

\* "acks_late ensures the task is not removed from the queue until it completes":
\* a call of a DLQTask that was published waits, is executed, has ended well or is
\* recorded as failed, whatever deaths of the worker come between two steps of it,
\* unless its own process was killed, Redis was down, or the list is full.
NeverLost ==
  \A t \in Late \cap published :
    Waiting(t) \/ Held(t) \/ t \in completed \cup killed \cup unrecorded \/ Recorded(t)
=============================================================================
