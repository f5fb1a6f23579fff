-------------------------------- MODULE Celery --------------------------------
(***************************************************************************)
(* The worker container of a service: messages on a Redis list, two worker *)
(* processes that take one message at a time and acknowledge it at its     *)
(* end (acks_late, reject_on_worker_lost, prefetch 1), autoretry of the    *)
(* transient errors up to max_retries, and the clock the tasks read.       *)
(* Notifications and Reports say what the tasks of a service do.           *)
(***************************************************************************)
EXTENDS Naturals, FiniteSets

CONSTANTS
  Workers,    \* worker processes of the container
  Idle,       \* the worker runs no task
  MaxTime,    \* bound of the model on the clock
  MaxFaults   \* bound of the model on the failures

ASSUME CeleryAssumption == MaxTime \in Nat /\ MaxFaults \in Nat

VARIABLES
  queue,   \* messages in the broker: redelivering a message adds nothing to it
  job,     \* job[w]: the task worker w runs, a record with its message
  now,     \* the clock
  faults   \* failures so far

InitCelery ==
  /\ queue = {}
  /\ job = [w \in Workers |-> Idle]
  /\ now = 0
  /\ faults = 0

Busy(w) == job[w] # Idle

(* A worker receives a message; a task with nothing to do is over at once. *)
Receives(w, message) ==
  /\ ~Busy(w)
  /\ message \in queue
  /\ queue' = queue \ {message}
  /\ UNCHANGED <<now, faults>>

Starts(w, task) == job' = [job EXCEPT ![w] = task]

Ends(w) == Starts(w, Idle)

Faulty == faults < MaxFaults /\ faults' = faults + 1

(* The task raises.  A transient error is retried later; any other one, or  *)
(* the last retry, acknowledges the message and it is gone.                *)
TaskFails(w) ==
  /\ Busy(w)
  /\ Faulty
  /\ \E retried \in BOOLEAN : queue' = IF retried THEN queue \cup {job[w].message} ELSE queue
  /\ Ends(w)
  /\ UNCHANGED now

(* The process dies: the message was not acknowledged and comes back. *)
WorkerDies(w) ==
  /\ Busy(w)
  /\ Faulty
  /\ queue' = queue \cup {job[w].message}
  /\ Ends(w)
  /\ UNCHANGED now

(* beat sends a periodic task, whether or not the last one is over. *)
BeatSends(message) ==
  /\ message \notin queue
  /\ queue' = queue \cup {message}
  /\ UNCHANGED <<job, now, faults>>

TimePasses ==
  /\ now < MaxTime
  /\ now' = now + 1
  /\ UNCHANGED <<queue, job, faults>>
=============================================================================
