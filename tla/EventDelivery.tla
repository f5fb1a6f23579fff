---------------------------- MODULE EventDelivery ----------------------------
(***************************************************************************)
(* Delivery of finance-service's domain events to analytics-service        *)
(* (ADR-15): the transactional outbox, the relays that copy it to the      *)
(* Redis stream, the consumer group of the stream, and the workers that    *)
(* project every event on the read model `transaction_fact`.               *)
(*                                                                         *)
(* What a service writes to the outbox is left to the environment: Record  *)
(* commits any event of the constant Events under a fresh identity.  The   *)
(* module FinancePipeline replaces that environment by FinanceLedger.      *)
(***************************************************************************)
EXTENDS Naturals, Sequences, FiniteSets

CONSTANTS
  Txs,          \* transactions the events are about
  Categories,   \* category names an event may carry
  Events,       \* the outbox rows the producers may commit
  Relays,       \* processes running `flask relay-outbox`
  Workers,      \* processes running `flask consume-events`
  BatchSize,    \* entries one XREADGROUP returns at most (count=100)
  MaxFaults,    \* bound of the model on crashes and failed calls
  NoEvent,      \* a relay holds no outbox row
  NoFact,       \* transaction_fact has no row for the transaction
  Gone          \* what ReadModel shows of a deleted transaction

(* "Unknown" is a message outside the consumer's contract: another event   *)
(* type, an unknown version, a missing field.                              *)
Kinds == {"Added", "Categorized", "Deleted", "Unknown"}

Event == [id : Nat, tx : Txs, kind : Kinds, at : Nat \ {0}, category : Categories]

(* deletedAt = 0 is the NULL of a transaction that was not deleted. *)
Fact == [category : Categories, deletedAt : Nat, lastAt : Nat]

ASSUME EventsAssumption == Events \subseteq Event
ASSUME NoEventAssumption == NoEvent \notin Event
ASSUME NoFactAssumption == NoFact \notin Fact
ASSUME BatchSizeAssumption == BatchSize \in Nat \ {0}
ASSUME MaxFaultsAssumption == MaxFaults \in Nat

VARIABLES
  outbox,      \* committed rows of outbox_event
  published,   \* ids of the rows whose published_at is set
  held,        \* held[r]: the row relay r has locked, or NoEvent
  sent,        \* sent[r]: XADD of that row has been applied
  stream,      \* entries of finty.finance.events, never trimmed
  cursor,      \* last-delivered entry of the group `analytics`
  pending,     \* delivered entries not yet acknowledged (the PEL)
  recovered,   \* recovered[w]: worker w has claimed the pending entries
  batch,       \* batch[w]: entries worker w still has to handle
  acking,      \* acking[w]: entry whose projection is committed, or 0
  processed,   \* event ids in processed_event
  fact,        \* fact[t]: row of transaction_fact, or NoFact
  faults       \* crashes and failed calls so far

relayVars  == <<published, held, sent>>
workerVars == <<recovered, batch, acking>>
groupVars  == <<cursor, pending>>
modelVars  == <<processed, fact>>
vars == <<outbox, relayVars, stream, groupVars, workerVars, modelVars, faults>>

Decodable(e) == e.kind # "Unknown"

Init ==
  /\ outbox = {}
  /\ published = {}
  /\ held = [r \in Relays |-> NoEvent]
  /\ sent = [r \in Relays |-> FALSE]
  /\ stream = <<>>
  /\ cursor = 0
  /\ pending = {}
  /\ recovered = [w \in Workers |-> FALSE]
  /\ batch = [w \in Workers |-> {}]
  /\ acking = [w \in Workers |-> 0]
  /\ processed = {}
  /\ fact = [t \in Txs |-> NoFact]
  /\ faults = 0

-----------------------------------------------------------------------------
(* The producers: a business transaction commits its event row.            *)

Record(e) ==
  /\ \A f \in outbox : f.id # e.id
  /\ outbox' = outbox \cup {e}
  /\ UNCHANGED <<relayVars, stream, groupVars, workerVars, modelVars, faults>>

-----------------------------------------------------------------------------
(* The relay: OutboxRelay.publish_pending, one row per database transaction. *)

(* Rows FOR UPDATE SKIP LOCKED can return. *)
Available == {e \in outbox : e.id \notin published /\ \A r \in Relays : held[r] # e}

SelectPending(r) ==
  /\ held[r] = NoEvent
  /\ \E e \in Available :
       /\ \A f \in Available : e.id <= f.id
       /\ held' = [held EXCEPT ![r] = e]
  /\ UNCHANGED <<outbox, published, sent, stream, groupVars, workerVars, modelVars, faults>>

Publish(r) ==
  /\ held[r] # NoEvent
  /\ ~sent[r]
  /\ stream' = Append(stream, held[r])
  /\ sent' = [sent EXCEPT ![r] = TRUE]
  /\ UNCHANGED <<outbox, published, held, groupVars, workerVars, modelVars, faults>>

MarkedBeforePublishing(r) ==
  /\ held[r] # NoEvent
  /\ published' = published \cup {held[r].id}
  /\ held' = [held EXCEPT ![r] = NoEvent]
  /\ sent' = [sent EXCEPT ![r] = FALSE]
  /\ UNCHANGED <<outbox, stream, groupVars, workerVars, modelVars, faults>>

MarkPublished(r) ==
  /\ held[r] # NoEvent
  /\ sent[r]
  /\ published' = published \cup {held[r].id}
  /\ held' = [held EXCEPT ![r] = NoEvent]
  /\ sent' = [sent EXCEPT ![r] = FALSE]
  /\ UNCHANGED <<outbox, stream, groupVars, workerVars, modelVars, faults>>

(* The process dies, Redis does not answer (the XADD applied or not), or   *)
(* the commit fails: the row stays pending and its lock is released.       *)
RelayFails(r) ==
  /\ held[r] # NoEvent
  /\ faults < MaxFaults
  /\ faults' = faults + 1
  /\ held' = [held EXCEPT ![r] = NoEvent]
  /\ sent' = [sent EXCEPT ![r] = FALSE]
  /\ UNCHANGED <<outbox, published, stream, groupVars, workerVars, modelVars>>

-----------------------------------------------------------------------------
(* The worker: consume_events, EventConsumer and EventProjector.           *)

(* XAUTOCLAIM with min-idle-time 0 hands over everything unacknowledged,   *)
(* whichever worker it was delivered to.                                   *)
Recover(w) ==
  /\ ~recovered[w]
  /\ batch' = [batch EXCEPT ![w] = pending]
  /\ recovered' = [recovered EXCEPT ![w] = TRUE]
  /\ UNCHANGED <<outbox, relayVars, stream, groupVars, acking, modelVars, faults>>

ReadWithoutAdvancing(w) ==
  /\ recovered[w] /\ batch[w] = {} /\ acking[w] = 0
  /\ cursor < Len(stream)
  /\ pending' = pending \cup {cursor + 1}
  /\ batch' = [batch EXCEPT ![w] = {cursor + 1}]
  /\ UNCHANGED <<outbox, relayVars, stream, cursor, recovered, acking, modelVars, faults>>

ReadNew(w) ==
  /\ recovered[w]
  /\ batch[w] = {}
  /\ acking[w] = 0
  /\ cursor < Len(stream)
  /\ LET last == IF cursor + BatchSize < Len(stream) THEN cursor + BatchSize ELSE Len(stream)
     IN  /\ cursor' = last
         /\ pending' = pending \cup (cursor + 1 .. last)
         /\ batch' = [batch EXCEPT ![w] = cursor + 1 .. last]
  /\ UNCHANGED <<outbox, relayVars, stream, recovered, acking, modelVars, faults>>

(* Entries of a batch are handled in stream order. *)
IsNext(w, p) == p \in batch[w] /\ \A q \in batch[w] : p <= q

(* EventProjector._apply. Added and Categorized differ only in columns      *)
(* that no operation of finance-service changes after the insert.          *)
AppliedWithoutTombstone(f, e) ==
  IF f # NoFact /\ e.kind # "Deleted" /\ e.at < f.lastAt THEN f
  ELSE [category |-> e.category, deletedAt |-> IF e.kind = "Deleted" THEN e.at ELSE 0, lastAt |-> e.at]

AppliedInArrivalOrder(f, e) ==
  IF f # NoFact /\ f.deletedAt # 0 THEN f
  ELSE [category |-> e.category, deletedAt |-> IF e.kind = "Deleted" THEN e.at ELSE 0, lastAt |-> e.at]

Applied(f, e) ==
  IF f = NoFact THEN
    [category |-> e.category, deletedAt |-> IF e.kind = "Deleted" THEN e.at ELSE 0, lastAt |-> e.at]
  ELSE IF f.deletedAt # 0 THEN f
  ELSE IF e.kind = "Deleted" THEN
    [f EXCEPT !.deletedAt = e.at, !.lastAt = IF e.at > @ THEN e.at ELSE @]
  ELSE IF e.at < f.lastAt THEN f
  ELSE [f EXCEPT !.category = e.category, !.lastAt = e.at]

(* processed_event and transaction_fact change in one transaction; an id   *)
(* already there is a duplicate and leaves the fact alone.                 *)
Project(w) ==
  /\ acking[w] = 0
  /\ \E p \in batch[w] :
       LET e == stream[p] IN
       /\ IsNext(w, p)
       /\ Decodable(e)
       /\ processed' = processed \cup {e.id}
       /\ fact' = IF e.id \in processed THEN fact
                  ELSE [fact EXCEPT ![e.tx] = Applied(@, e)]
       /\ acking' = [acking EXCEPT ![w] = p]
       /\ batch' = [batch EXCEPT ![w] = @ \ {p}]
  /\ UNCHANGED <<outbox, relayVars, stream, groupVars, recovered, faults>>

(* A message outside the contract is logged and acknowledged. *)
Discard(w) ==
  /\ acking[w] = 0
  /\ \E p \in batch[w] :
       /\ IsNext(w, p)
       /\ ~Decodable(stream[p])
       /\ pending' = pending \ {p}
       /\ batch' = [batch EXCEPT ![w] = @ \ {p}]
  /\ UNCHANGED <<outbox, relayVars, stream, cursor, recovered, acking, modelVars, faults>>

Ack(w) ==
  /\ acking[w] # 0
  /\ pending' = pending \ {acking[w]}
  /\ acking' = [acking EXCEPT ![w] = 0]
  /\ UNCHANGED <<outbox, relayVars, stream, cursor, recovered, batch, modelVars, faults>>

(* The process dies or a call to Redis or the database fails: what was in  *)
(* memory is dropped and the pending entries are claimed again.            *)
FailsWithoutReclaiming(w) ==
  /\ recovered[w] /\ batch[w] # {}
  /\ faults < MaxFaults
  /\ faults' = faults + 1
  /\ batch' = [batch EXCEPT ![w] = {}]
  /\ acking' = [acking EXCEPT ![w] = 0]
  /\ UNCHANGED <<outbox, relayVars, stream, groupVars, recovered, modelVars>>

WorkerFails(w) ==
  /\ recovered[w]
  /\ faults < MaxFaults
  /\ faults' = faults + 1
  /\ recovered' = [recovered EXCEPT ![w] = FALSE]
  /\ batch' = [batch EXCEPT ![w] = {}]
  /\ acking' = [acking EXCEPT ![w] = 0]
  /\ UNCHANGED <<outbox, relayVars, stream, groupVars, modelVars>>

-----------------------------------------------------------------------------
RelayStep(r) == SelectPending(r) \/ Publish(r) \/ MarkPublished(r)

WorkerStep(w) == Recover(w) \/ ReadNew(w) \/ Project(w) \/ Discard(w) \/ Ack(w)

Next ==
  \/ \E e \in Events : Record(e)
  \/ \E r \in Relays : SelectPending(r) \/ Publish(r) \/ MarkPublished(r) \/ RelayFails(r)
  \/ \E w \in Workers :
       Recover(w) \/ ReadNew(w) \/ Project(w) \/ Discard(w) \/ Ack(w) \/ WorkerFails(w)

(* Both commands loop for ever and survive every exception, so a step of   *)
(* theirs that stays possible is taken; nothing forces users to act.       *)
Fairness ==
  /\ \A r \in Relays : WF_vars(RelayStep(r))
  /\ \A w \in Workers : WF_vars(WorkerStep(w))

Spec == Init /\ [][Next]_vars

FairSpec == Spec /\ Fairness

-----------------------------------------------------------------------------
(* The types of the variables. *)
TypeOK ==
  /\ outbox \subseteq Events
  /\ published \subseteq Nat
  /\ held \in [Relays -> Events \cup {NoEvent}]
  /\ sent \in [Relays -> BOOLEAN]
  /\ stream \in Seq(Events)
  /\ cursor \in 0 .. Len(stream)
  /\ pending \subseteq 1 .. cursor
  /\ recovered \in [Workers -> BOOLEAN]
  /\ batch \in [Workers -> SUBSET (1 .. cursor)]
  /\ acking \in [Workers -> 0 .. cursor]
  /\ processed \subseteq Nat
  /\ fact \in [Txs -> Fact \cup {NoFact}]
  /\ faults \in 0 .. MaxFaults

(* ADR-15: an event that a business transaction committed is never lost.   *)
(* Until it is projected it is still pending in the outbox, or it waits in *)
(* the stream where the group will deliver it or still has it pending --   *)
(* whatever relays and workers crashed between any two of their steps.     *)
NothingLost ==
  \A e \in outbox :
    Decodable(e) =>
      \/ e.id \in processed
      \/ e.id \notin published
      \/ \E p \in 1 .. Len(stream) : stream[p] = e /\ (p > cursor \/ p \in pending)

(* The ids of the events of a transaction that have been projected. *)
ProcessedOf(t) == {e \in outbox : e.tx = t /\ e.id \in processed}

(* EventProjector: the read model depends only on which events have been   *)
(* projected, not on the order, the duplicates or the crashes on the way.  *)
(* A deleted transaction stays deleted; a live one shows the category of   *)
(* an event that no projected event of that transaction is newer than.     *)
ProjectionIsOrderInsensitive ==
  \A t \in Txs :
    LET seen == ProcessedOf(t) IN
    /\ (fact[t] = NoFact) <=> (seen = {})
    /\ fact[t] # NoFact =>
         /\ (fact[t].deletedAt # 0) <=> (\E e \in seen : e.kind = "Deleted")
         /\ fact[t].deletedAt = 0 =>
              \E e \in seen :
                /\ e.category = fact[t].category
                /\ \A f \in seen : f.at <= e.at

(* The tombstone of models.py: once deleted_at is set the row never        *)
(* changes again, and last_event_at never goes back.                       *)
TombstonesAreFinal ==
  [][\A t \in Txs :
       fact[t] # NoFact =>
         /\ fact'[t] # NoFact
         /\ fact'[t].lastAt >= fact[t].lastAt
         /\ fact[t].deletedAt # 0 => fact'[t] = fact[t]]_vars

(* The relays, the stream and the workers implement ReadModel: each event  *)
(* takes effect exactly once, whatever is delivered twice or out of order. *)
Shown(t) ==
  IF fact[t] = NoFact THEN NoFact
  ELSE IF fact[t].deletedAt # 0 THEN Gone ELSE fact[t].category

Replica == INSTANCE ReadModel WITH
  log <- outbox, applied <- processed, shown <- [t \in Txs |-> Shown(t)]

ImplementsReadModel == Replica!Spec

(* Every event that a business transaction committed is projected in the   *)
(* end, once the faults stop.                                              *)
EveryEventIsProjected ==
  \A e \in Events :
    (e \in outbox /\ Decodable(e)) ~> (e.id \in processed)
=============================================================================
