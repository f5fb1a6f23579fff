------------------------- MODULE FinancePipelineProofs -------------------------
(***************************************************************************)
(* Proofs about FinancePipeline: finance-service is a producer as          *)
(* ReadModel describes them, and the read model converges to its ledger,   *)
(* for any accounts, transactions, sessions and numbers of events.         *)
(***************************************************************************)
EXTENDS FinancePipeline, FinanceLedgerProofs

USE DEF tableVars

-----------------------------------------------------------------------------
(* The inductive invariant.                                                *)

(* The requests that have an event, and those whose event has its identity. *)
HasEvent(j) == j # NoJob /\ j.op # "recompute" /\ j.phase # "read"

HasIdentity(j) == HasEvent(j) /\ j.phase = "flushed"

(* No two events get one identity, whichever of them is committed yet. *)
IdentitiesAreUnique ==
  /\ \A e, f \in outbox : e.id = f.id => e = f
  /\ \A s \in Sessions : HasIdentity(job[s]) =>
       /\ \A e \in outbox : e.id # job[s].id
       /\ \A o \in Sessions \ {s} : HasIdentity(job[o]) => job[o].id # job[s].id

(* The sequence starts at 1, and _utcnow() is after the first instant. *)
StampsArePositive ==
  /\ \A e \in outbox : e.id > 0 /\ e.at > 0
  /\ \A s \in Sessions :
       /\ HasEvent(job[s]) => job[s].at > 0
       /\ HasIdentity(job[s]) => job[s].id > 0

(* Every identity was taken by a request that first took an instant. *)
Recorded == {s \in Sessions : job[s] # NoJob /\ job[s].phase = "recorded"}

InstantsCoverIdentities ==
  IsFiniteSet(Recorded) /\ nextId + Cardinality(Recorded) <= clock + 1

(* Every event is of a transaction that was registered. *)
EventsAreOfRegistered == \A e \in outbox : Registered(e.tx)

EventsInv ==
  /\ IdentitiesAreUnique
  /\ StampsArePositive
  /\ InstantsCoverIdentities
  /\ EventsAreOfRegistered

Changing(s, t) == job[s] # NoJob /\ job[s].op = "recategorize" /\ job[s].tx = t

EventsOf(t) == {e \in outbox : e.tx = t}

(* The newest events of a transaction say its category, and a request that *)
(* changes it knows that category and has a newer instant.                 *)
NewestIsTrue(t) ==
  movement[t] # NoMovement =>
    /\ \A e \in Replica!Newest(EventsOf(t)) : e.category = movement[t].category
    /\ \A s \in Sessions : Changing(s, t) =>
         /\ job[s].read.category = movement[t].category
         /\ job[s].phase # "read" => \A e \in EventsOf(t) : e.at < job[s].at

OneChanges(t) == \A s, o \in Sessions : Changing(s, t) /\ Changing(o, t) => s = o

CategoriesInv == \A t \in Txs \ contested : OneChanges(t) /\ NewestIsTrue(t)

(* What is shown of a transaction comes from its projected events. *)
ShownInv ==
  /\ applied \subseteq {e.id : e \in outbox}
  /\ shown \in [Txs -> Categories \cup {NoFact, Gone}]
  /\ \A t \in Txs :
       IF Replica!AppliedOf(t) = {} THEN shown[t] = NoFact
       ELSE shown[t] \in Replica!Views(Replica!AppliedOf(t))

PInv == IInv /\ EventsInv /\ CategoriesInv /\ ShownInv

-----------------------------------------------------------------------------
(* What the pipeline needs to know of the steps of the ledger.             *)

Gives(s, k) == job' = [job EXCEPT ![s] = k]

(* The tables of accounts change, or nothing at all. *)
Untouched == UNCHANGED <<movement, outbox, job, clock, nextId>>

(* A request ends without an event: it fails, or it recomputed a balance. *)
Dropped(s) == Gives(s, NoJob) /\ UNCHANGED <<movement, outbox, clock, nextId>>

Begun(s, k) ==
  /\ job[s] = NoJob /\ Gives(s, k)
  /\ UNCHANGED <<movement, outbox, nextId>>
  /\ \/ /\ k.op = "register" /\ k.phase = "recorded" /\ Unused(k.tx)
        /\ k.at = clock + 1 /\ clock' = clock + 1
     \/ k.op = "recompute" /\ k.phase = "flushed" /\ UNCHANGED clock
     \/ /\ k.op \in {"recategorize", "delete"} /\ k.phase = "read" /\ UNCHANGED clock
        /\ k.tx \in Txs /\ movement[k.tx] # NoMovement /\ k.read = movement[k.tx]

Stamped(s, k) ==
  /\ job[s] \in Job /\ job[s] # NoJob /\ job[s].phase = "read" /\ job[s].op # "recompute"
  /\ Gives(s, k) /\ SameRequest(k, job[s])
  /\ k.phase = "recorded" /\ k.at = clock + 1 /\ clock' = clock + 1
  /\ UNCHANGED <<movement, outbox, nextId>>

Flushed(s, k) ==
  /\ job[s] \in Job /\ job[s] # NoJob /\ job[s].phase = "recorded" /\ job[s].op # "recompute"
  /\ Gives(s, k) /\ SameRequest(k, job[s])
  /\ k.phase = "flushed" /\ k.at = job[s].at /\ k.id = nextId /\ nextId' = nextId + 1
  /\ UNCHANGED <<movement, outbox, clock>>

(* A request commits its event, and the row of its transaction with it. *)
Committed(s, e) ==
  /\ HasIdentity(job[s]) /\ job[s] \in Job /\ Gives(s, NoJob)
  /\ e.id = job[s].id /\ e.at = job[s].at /\ e.tx = job[s].tx /\ e.tx \in Txs
  /\ outbox' = outbox \cup {e}
  /\ \A t \in Txs \ {e.tx} : movement'[t] = movement[t]
  /\ \/ /\ job[s].op = "register" /\ e.kind = "Added"
        /\ movement'[e.tx] # NoMovement /\ movement'[e.tx].category = e.category
     \/ /\ job[s].op = "recategorize" /\ e.kind = "Categorized"
        /\ movement'[e.tx] # NoMovement =>
             /\ movement[e.tx] # NoMovement
             /\ movement[e.tx].category = job[s].read.category => movement'[e.tx].category = e.category
     \/ job[s].op = "delete" /\ e.kind = "Deleted" /\ movement'[e.tx] = NoMovement
  /\ UNCHANGED <<clock, nextId>>

(* register_transaction commits the row and its event. *)
LEMMA RegisterCommits ==
  ASSUME IInv, NEW s \in Sessions, CommitRegister(s)
  PROVE  \E e \in Event : Committed(s, e)
<1> PICK j \in Job : j = job[s]
  BY CommitFacts
<1> DEFINE e == EventOf(j, "Added", j.row.category)
<1>1. Types /\ NoMovement \notin Movement /\ NoJob \notin Job
  BY MarkersAssumption DEF IInv
<1>2. /\ j # NoJob /\ WellFormed(j) /\ j.phase = "flushed" /\ j.op = "register"
      /\ Gives(s, NoJob) /\ UNCHANGED <<clock, nextId>>
      /\ movement' = [movement EXCEPT ![j.tx] = j.row] /\ outbox' = outbox \cup {e}
  BY CommitFacts DEF CommitRegister, Serves, Ends, Gives
<1>3. j.tx \in Txs /\ j.row \in Movement /\ j.row.category \in Categories
  BY <1>2 DEF WellFormed, Movement
<1>4. e \in Event
  BY <1>3 DEF EventOf, Event, Job
<1>5. e.id = j.id /\ e.at = j.at /\ e.tx = j.tx /\ e.kind = "Added" /\ e.category = j.row.category
  BY DEF EventOf
<1>6. movement'[j.tx] = j.row /\ \A t \in Txs \ {j.tx} : movement'[t] = movement[t]
  BY <1>1, <1>2, <1>3 DEF Types
<1> HIDE DEF e
<1>7. Committed(s, e)
  BY <1>1, <1>2, <1>3, <1>5, <1>6 DEF Committed, HasIdentity, HasEvent
<1>8. QED
  BY <1>4, <1>7

(* recategorize leaves the category of its event if the row had the one it read. *)
LEMMA RecategorizeCommits ==
  ASSUME IInv, NEW s \in Sessions, CommitRecategorize(s)
  PROVE  \E e \in Event : Committed(s, e)
<1> PICK j \in Job : j = job[s]
  BY CommitFacts
<1> DEFINE e == EventOf(j, "Categorized", j.row.category)
<1>1. Types /\ JobInv /\ NoMovement \notin Movement /\ NoJob \notin Job
  BY MarkersAssumption DEF IInv
<1>2. /\ j # NoJob /\ WellFormed(j) /\ j.phase = "flushed" /\ j.op = "recategorize"
      /\ Gives(s, NoJob) /\ UNCHANGED <<clock, nextId>>
      /\ movement' = Recategorized(j) /\ outbox' = outbox \cup {e}
  BY CommitFacts DEF CommitRecategorize, Serves, Ends, Gives
<1>3. j.tx \in Txs /\ j.row \in Movement /\ j.read \in Movement /\ j.row.category \in Categories
  BY <1>2 DEF WellFormed, Movement
<1>4. e \in Event
  BY <1>3 DEF EventOf, Event, Job
<1>5. e.id = j.id /\ e.at = j.at /\ e.tx = j.tx /\ e.kind = "Categorized" /\ e.category = j.row.category
  BY DEF EventOf
<1>6. ChangesRow(j) => movement[j.tx] \in Movement
  BY <1>1, <1>2, <1>3 DEF JobInv, RowsLocked, Types
<1>7. /\ \A t \in Txs \ {j.tx} : movement'[t] = movement[t]
      /\ movement'[j.tx] # NoMovement =>
           /\ movement[j.tx] # NoMovement
           /\ movement[j.tx].category = j.read.category => movement'[j.tx].category = j.row.category
  <2>1. CASE ~ChangesRow(j)
    BY <1>2, <2>1 DEF Recategorized, ChangesRow
  <2>2. CASE ChangesRow(j)
    <3> DEFINE c == IF j.row.category # j.read.category THEN j.row.category ELSE movement[j.tx].category
    <3>1. /\ movement'[j.tx] = [movement[j.tx] EXCEPT !.category = c, !.manual = TRUE]
          /\ \A t \in Txs \ {j.tx} : movement'[t] = movement[t]
      BY <1>1, <1>2, <1>3, <1>6, <2>2 DEF Types, Recategorized, Movement
    <3>2. movement'[j.tx].category = c /\ movement[j.tx] # NoMovement
      BY <1>1, <1>6, <2>2, <3>1 DEF Movement
    <3>3. QED
      BY <3>1, <3>2
  <2>3. QED
    BY <2>1, <2>2
<1> HIDE DEF e
<1>8. Committed(s, e)
  BY <1>1, <1>2, <1>3, <1>5, <1>7 DEF Committed, HasIdentity, HasEvent
<1>9. QED
  BY <1>4, <1>8

(* delete_transaction commits that the row is gone. *)
LEMMA DeleteCommits ==
  ASSUME IInv, NEW s \in Sessions, CommitDelete(s)
  PROVE  \E e \in Event : Committed(s, e)
<1> PICK j \in Job : j = job[s]
  BY CommitFacts
<1> DEFINE e == EventOf(j, "Deleted", j.read.category)
<1>1. Types /\ NoMovement \notin Movement /\ NoJob \notin Job
  BY MarkersAssumption DEF IInv
<1>2. /\ j # NoJob /\ WellFormed(j) /\ j.phase = "flushed" /\ j.op = "delete"
      /\ Gives(s, NoJob) /\ UNCHANGED <<clock, nextId>>
      /\ movement' = [movement EXCEPT ![j.tx] = NoMovement] /\ outbox' = outbox \cup {e}
  BY CommitFacts DEF CommitDelete, Serves, Ends, Gives
<1>3. j.tx \in Txs /\ j.read \in Movement /\ j.read.category \in Categories
  BY <1>2 DEF WellFormed, Movement
<1>4. e \in Event
  BY <1>3 DEF EventOf, Event, Job
<1>5. e.id = j.id /\ e.at = j.at /\ e.tx = j.tx /\ e.kind = "Deleted"
  BY DEF EventOf
<1>6. movement'[j.tx] = NoMovement /\ \A t \in Txs \ {j.tx} : movement'[t] = movement[t]
  BY <1>1, <1>2, <1>3 DEF Types
<1> HIDE DEF e
<1>7. Committed(s, e)
  BY <1>1, <1>2, <1>3, <1>5, <1>6 DEF Committed, HasIdentity, HasEvent
<1>8. QED
  BY <1>4, <1>7

(* Every step of the ledger has one of these shapes. *)
LEMMA LedgerShapes ==
  ASSUME IInv, [Next]_vars
  PROVE  \/ Untouched
         \/ \E s \in Sessions :
              \/ Dropped(s)
              \/ \E k \in Job : Begun(s, k) \/ Stamped(s, k) \/ Flushed(s, k)
              \/ \E e \in Event : Committed(s, e)
<1>1. Types /\ NoJob \notin Job
  BY MarkersAssumption DEF IInv
<1>2. ASSUME NEW a \in Accounts, ArchiveAccount(a) \/ DeleteAccount(a) \/ \E o \in Openings : CreateAccount(a, o)
      PROVE  Untouched
  BY <1>2 DEF ArchiveAccount, DeleteAccount, CreateAccount, Untouched
<1>3. ASSUME NEW s \in Sessions,
             Rollback(s) \/ RejectRecategorize(s) \/ RejectDelete(s) \/ CommitRecompute(s)
      PROVE  Dropped(s)
  BY <1>3 DEF Rollback, RejectRecategorize, RejectDelete, CommitRecompute, Ends, Dropped, Gives
<1>4. ASSUME NEW s \in Sessions, Request(s)
      PROVE  \E k \in Job : Begun(s, k)
  <2>1. ASSUME NEW t \in Txs, NEW a \in Accounts, NEW row \in Drafts(a), Register(s, t, row)
        PROVE  \E k \in Job : Begun(s, k)
    BY <1>1, <2>1, RegisterStep DEF Begun, Gives
  <2>2. ASSUME NEW t \in Txs, ReadToDelete(s, t) \/ \E c \in Categories : ReadToRecategorize(s, t, c)
        PROVE  \E k \in Job : Begun(s, k)
    BY <1>1, <2>2, ReadStep DEF Begun, Gives
  <2>3. ASSUME NEW a \in Accounts, Recompute(s, a)
        PROVE  \E k \in Job : Begun(s, k)
    BY <1>1, <2>3, RecomputeStep DEF Begun, Gives
  <2>4. QED
    BY <1>4, <2>1, <2>2, <2>3 DEF Request
<1>5. ASSUME NEW s \in Sessions, RecordRecategorize(s) \/ LockToDelete(s)
      PROVE  \E k \in Job : Stamped(s, k)
  <2>1. job[s].op # "recompute"
    BY <1>5 DEF RecordRecategorize, LockToDelete, Serves
  <2>2. QED
    BY <1>1, <1>5, <2>1, RecordStep DEF Stamped, Gives
<1>6. ASSUME NEW s \in Sessions, Flush(s)
      PROVE  \E k \in Job : Flushed(s, k)
  <2>1. job[s].op # "recompute"
    BY <1>1, <1>6 DEF Flush, Types, WellFormed
  <2>2. QED
    BY <1>1, <1>6, <2>1, FlushStep DEF Flushed, Gives
<1>7. ASSUME NEW s \in Sessions, CommitRegister(s) \/ CommitRecategorize(s) \/ CommitDelete(s)
      PROVE  \E e \in Event : Committed(s, e)
  BY <1>7, RegisterCommits, RecategorizeCommits, DeleteCommits
<1>8. CASE UNCHANGED vars
  BY <1>8 DEF vars, Untouched
<1>9. QED
  BY <1>2, <1>3, <1>4, <1>5, <1>6, <1>7, <1>8 DEF Next, Continue

-----------------------------------------------------------------------------
(* Identities and instants.                                                *)

(* The requests of the other sessions stay. *)
LEMMA GivesJob ==
  ASSUME Types, NEW s \in Sessions, NEW k, Gives(s, k)
  PROVE  job'[s] = k /\ \A o \in Sessions \ {s} : job'[o] = job[o]
  BY DEF Types, Gives

(* A committed event was not in the outbox, and no request that is left     *)
(* has its identity.                                                       *)
LEMMA CommittedIsNew ==
  ASSUME IInv, EventsInv, NEW s \in Sessions, NEW e, Committed(s, e)
  PROVE  /\ \A f \in outbox : f.id # e.id
         /\ \A o \in Sessions \ {s} : HasIdentity(job[o]) => job[o].id # e.id
         /\ 0 < e.id /\ e.id < nextId /\ 0 < e.at /\ e.at <= clock
  BY DEF IInv, EventsInv, IdentitiesAreUnique, StampsArePositive, StampsAreNew, StampsBounded,
     Committed, HasIdentity, HasEvent

(* Every step keeps the identities unique. *)
LEMMA IdentitiesNext == ASSUME IInv, EventsInv, [Next]_vars PROVE IdentitiesAreUnique'
<1>1. Types /\ StampsBounded /\ IdentitiesAreUnique /\ NoJob \notin Job
  BY MarkersAssumption DEF IInv, StampsAreNew, EventsInv
<1>2. CASE Untouched
  BY <1>1, <1>2 DEF Untouched, IdentitiesAreUnique, HasIdentity, HasEvent
<1>3. ASSUME NEW s \in Sessions, Dropped(s) PROVE IdentitiesAreUnique'
  BY <1>1, <1>3, GivesJob DEF Dropped, IdentitiesAreUnique, HasIdentity, HasEvent
<1>4. ASSUME NEW s \in Sessions, NEW k \in Job, Begun(s, k) \/ Stamped(s, k)
      PROVE  IdentitiesAreUnique'
  <2>1. ~HasIdentity(k)
    BY <1>4 DEF Begun, Stamped, HasIdentity, HasEvent
  <2>2. job'[s] = k /\ (\A o \in Sessions \ {s} : job'[o] = job[o]) /\ outbox' = outbox
    BY <1>1, <1>4, GivesJob DEF Begun, Stamped
  <2>3. QED
    BY <1>1, <2>1, <2>2 DEF IdentitiesAreUnique, HasIdentity, HasEvent
<1>5. ASSUME NEW s \in Sessions, NEW k \in Job, Flushed(s, k)
      PROVE  IdentitiesAreUnique'
  <2>1. job'[s] = k /\ (\A o \in Sessions \ {s} : job'[o] = job[o]) /\ outbox' = outbox /\ k.id = nextId
    BY <1>1, <1>5, GivesJob DEF Flushed
  <2>2. \A e \in outbox : e.id # nextId
    BY <1>1, StampTypes DEF StampsBounded
  <2>3. \A o \in Sessions : job[o] # NoJob => job[o].id # nextId
    BY <1>1, StampTypes DEF StampsBounded
  <2>4. QED
    BY <1>1, <2>1, <2>2, <2>3 DEF IdentitiesAreUnique, HasIdentity, HasEvent
<1>6. ASSUME NEW s \in Sessions, NEW e \in Event, Committed(s, e)
      PROVE  IdentitiesAreUnique'
  <2>1. job'[s] = NoJob /\ (\A o \in Sessions \ {s} : job'[o] = job[o]) /\ outbox' = outbox \cup {e}
    BY <1>1, <1>6, GivesJob DEF Committed
  <2>2. QED
    BY <1>1, <1>6, <2>1, CommittedIsNew DEF IdentitiesAreUnique, HasIdentity, HasEvent
<1>7. QED
  BY <1>2, <1>3, <1>4, <1>5, <1>6, LedgerShapes

(* Every step keeps identities and instants positive. *)
LEMMA PositiveNext == ASSUME IInv, EventsInv, [Next]_vars PROVE StampsArePositive'
<1>1. Types /\ StampsBounded /\ StampsArePositive /\ NoJob \notin Job
  BY MarkersAssumption DEF IInv, StampsAreNew, EventsInv
<1>2. CASE Untouched
  BY <1>1, <1>2 DEF Untouched, StampsArePositive, HasIdentity, HasEvent
<1>3. ASSUME NEW s \in Sessions, Dropped(s) PROVE StampsArePositive'
  BY <1>1, <1>3, GivesJob DEF Dropped, StampsArePositive, HasIdentity, HasEvent
<1>4. ASSUME NEW s \in Sessions, NEW k \in Job, Begun(s, k) \/ Stamped(s, k)
      PROVE  StampsArePositive'
  <2>1. ~HasIdentity(k) /\ (HasEvent(k) => k.at > 0)
    BY <1>1, <1>4, StampTypes DEF Begun, Stamped, HasIdentity, HasEvent
  <2>2. job'[s] = k /\ (\A o \in Sessions \ {s} : job'[o] = job[o]) /\ outbox' = outbox
    BY <1>1, <1>4, GivesJob DEF Begun, Stamped
  <2>3. QED
    BY <1>1, <2>1, <2>2 DEF StampsArePositive, HasIdentity, HasEvent
<1>5. ASSUME NEW s \in Sessions, NEW k \in Job, Flushed(s, k)
      PROVE  StampsArePositive'
  <2>1. /\ job'[s] = k /\ (\A o \in Sessions \ {s} : job'[o] = job[o]) /\ outbox' = outbox
        /\ k.id = nextId /\ k.at = job[s].at /\ HasEvent(job[s])
    BY <1>1, <1>5, GivesJob DEF Flushed, HasEvent
  <2>2. nextId > 0 /\ k.at > 0
    BY <1>1, <2>1 DEF StampsBounded, StampsArePositive
  <2>3. QED
    BY <1>1, <2>1, <2>2 DEF StampsArePositive, HasIdentity, HasEvent
<1>6. ASSUME NEW s \in Sessions, NEW e \in Event, Committed(s, e)
      PROVE  StampsArePositive'
  <2>1. job'[s] = NoJob /\ (\A o \in Sessions \ {s} : job'[o] = job[o]) /\ outbox' = outbox \cup {e}
    BY <1>1, <1>6, GivesJob DEF Committed
  <2>2. QED
    BY <1>1, <1>6, <2>1, CommittedIsNew DEF StampsArePositive, HasIdentity, HasEvent
<1>7. QED
  BY <1>2, <1>3, <1>4, <1>5, <1>6, LedgerShapes

(* Every step keeps the sequence behind the clock: whoever takes an         *)
(* identity has taken an instant before.                                   *)
LEMMA CoverNext == ASSUME IInv, EventsInv, [Next]_vars PROVE InstantsCoverIdentities'
<1>1. Types /\ InstantsCoverIdentities /\ NoJob \notin Job /\ clock \in Nat /\ nextId \in Nat
  BY MarkersAssumption, StampTypes DEF IInv, EventsInv
<1>2. IsFiniteSet(Recorded) /\ Cardinality(Recorded) \in Nat /\ nextId + Cardinality(Recorded) <= clock + 1
  BY <1>1, FS_CardinalityType DEF InstantsCoverIdentities
<1>3. CASE Untouched
  BY <1>1, <1>3 DEF Untouched, InstantsCoverIdentities, Recorded
<1>4. ASSUME NEW s \in Sessions, Recorded' = Recorded \ {s}, UNCHANGED <<nextId, clock>>
      PROVE  InstantsCoverIdentities'
  <2>1. IsFiniteSet(Recorded') /\ Cardinality(Recorded') <= Cardinality(Recorded)
    BY <1>2, <1>4, FS_RemoveElement
  <2>2. Cardinality(Recorded') \in Nat
    BY <2>1, FS_CardinalityType
  <2>3. QED
    BY <1>1, <1>2, <1>4, <2>1, <2>2 DEF InstantsCoverIdentities
<1>5. ASSUME NEW s \in Sessions, Recorded' = Recorded \cup {s}, UNCHANGED nextId, clock' = clock + 1
      PROVE  InstantsCoverIdentities'
  BY <1>1, <1>2, <1>5, FS_AddElement DEF InstantsCoverIdentities
<1>6. ASSUME NEW s \in Sessions, Dropped(s) \/ \E e \in Event : Committed(s, e)
      PROVE  InstantsCoverIdentities'
  <2>1. job'[s] = NoJob /\ \A o \in Sessions \ {s} : job'[o] = job[o]
    BY <1>1, <1>6, GivesJob DEF Dropped, Committed
  <2>2. Recorded' = Recorded \ {s}
    BY <2>1 DEF Recorded
  <2>3. QED
    BY <1>4, <1>6, <2>2 DEF Dropped, Committed
<1>7. ASSUME NEW s \in Sessions, NEW k \in Job, Begun(s, k)
      PROVE  InstantsCoverIdentities'
  <2>1. job'[s] = k /\ (\A o \in Sessions \ {s} : job'[o] = job[o]) /\ k # NoJob
    BY <1>1, <1>7, GivesJob DEF Begun
  <2>2. CASE k.phase = "recorded"
    <3>1. Recorded' = Recorded \cup {s}
      BY <2>1, <2>2 DEF Recorded
    <3>2. QED
      BY <1>5, <1>7, <2>2, <3>1 DEF Begun
  <2>3. CASE k.phase # "recorded"
    <3>1. Recorded' = Recorded \ {s}
      BY <2>1, <2>3 DEF Recorded
    <3>2. QED
      BY <1>4, <1>7, <2>3, <3>1 DEF Begun
  <2>4. QED
    BY <2>2, <2>3
<1>8. ASSUME NEW s \in Sessions, NEW k \in Job, Stamped(s, k)
      PROVE  InstantsCoverIdentities'
  <2>1. job'[s] = k /\ (\A o \in Sessions \ {s} : job'[o] = job[o]) /\ k # NoJob /\ k.phase = "recorded"
    BY <1>1, <1>8, GivesJob DEF Stamped
  <2>2. Recorded' = Recorded \cup {s}
    BY <2>1 DEF Recorded
  <2>3. QED
    BY <1>5, <1>8, <2>2 DEF Stamped
<1>9. ASSUME NEW s \in Sessions, NEW k \in Job, Flushed(s, k)
      PROVE  InstantsCoverIdentities'
  <2>1. job'[s] = k /\ (\A o \in Sessions \ {s} : job'[o] = job[o]) /\ k.phase = "flushed" /\ s \in Recorded
    BY <1>1, <1>9, GivesJob DEF Flushed, Recorded
  <2>2. Recorded' = Recorded \ {s}
    BY <2>1 DEF Recorded
  <2>3. IsFiniteSet(Recorded') /\ Cardinality(Recorded') = Cardinality(Recorded) - 1
    BY <1>2, <2>1, <2>2, FS_RemoveElement
  <2>4. nextId' = nextId + 1 /\ clock' = clock
    BY <1>9 DEF Flushed
  <2>5. QED
    BY <1>1, <1>2, <2>3, <2>4 DEF InstantsCoverIdentities
<1>10. QED
  BY <1>3, <1>6, <1>7, <1>8, <1>9, LedgerShapes

(* Every step keeps: an event's transaction has been registered, if only   *)
(* by that event.                                                          *)
LEMMA RegisteredNext == ASSUME IInv, EventsInv, [Next]_vars PROVE EventsAreOfRegistered'
<1>1. EventsAreOfRegistered /\ JobInv
  BY DEF EventsInv, IInv
<1>2. CASE outbox' = outbox
  BY <1>1, <1>2 DEF EventsAreOfRegistered, Registered
<1>3. ASSUME NEW s \in Sessions, NEW e \in Event, Committed(s, e)
      PROVE  EventsAreOfRegistered'
  <2>1. outbox' = outbox \cup {e}
    BY <1>3 DEF Committed
  <2>2. Registered(e.tx)'
    <3>1. CASE e.kind = "Added"
      BY <2>1, <3>1 DEF Registered
    <3>2. CASE e.kind # "Added"
      <4>1. Registered(e.tx)
        BY <1>1, <1>3, <3>2 DEF Committed, HasIdentity, HasEvent, JobInv, ReadsAreTrue
      <4>2. QED
        BY <2>1, <4>1 DEF Registered
    <3>3. QED
      BY <3>1, <3>2
  <2>3. QED
    BY <1>1, <2>1, <2>2 DEF EventsAreOfRegistered, Registered
<1>4. QED
  BY <1>2, <1>3, LedgerShapes DEF Untouched, Dropped, Begun, Stamped, Flushed

(* The committed events are among those the model bounds. *)
LEMMA RecordedEvents == IInv /\ EventsInv => outbox \subseteq Recordable
<1> SUFFICES ASSUME IInv, EventsInv, NEW e \in outbox PROVE e \in Recordable
  OBVIOUS
<1>1. Types /\ StampsBounded /\ InstantsCoverIdentities /\ clock \in Nat /\ nextId \in Nat /\ e \in Event
  BY StampTypes DEF IInv, StampsAreNew, EventsInv, Types
<1>2. e.id > 0 /\ e.at > 0 /\ e.at <= clock /\ e.id < nextId
  BY <1>1 DEF StampsBounded, EventsInv, StampsArePositive
<1>3. nextId <= clock + 1 /\ clock <= MaxStamps
  BY <1>1, BoundsAssumption, FS_CardinalityType DEF InstantsCoverIdentities, Types
<1>4. e.id \in 1 .. MaxStamps /\ e.at \in 1 .. MaxStamps
  BY <1>1, <1>2, <1>3, BoundsAssumption DEF Event
<1>5. QED
  BY <1>1, <1>4 DEF Recordable, Event

(* A step of the ledger leaves the outbox or appends one event, which the  *)
(* model bounds and whose identity no committed event has.                 *)
LEMMA LedgerAppends ==
  ASSUME IInv, EventsInv, [Next]_vars
  PROVE  \/ outbox' = outbox
         \/ \E e \in Recordable : outbox' = outbox \cup {e} /\ \A f \in outbox : f.id # e.id
<1>1. ASSUME NEW s \in Sessions, NEW e \in Event, Committed(s, e)
      PROVE  e \in Recordable /\ outbox' = outbox \cup {e} /\ \A f \in outbox : f.id # e.id
  <2>1. /\ \A f \in outbox : f.id # e.id
        /\ 0 < e.id /\ e.id < nextId /\ 0 < e.at /\ e.at <= clock
    BY <1>1, CommittedIsNew
  <2>2. Types /\ InstantsCoverIdentities /\ clock \in Nat /\ nextId \in Nat
    BY StampTypes DEF IInv, EventsInv
  <2>3. nextId <= clock + 1 /\ clock <= MaxStamps
    BY <2>2, BoundsAssumption, FS_CardinalityType DEF InstantsCoverIdentities, Types
  <2>4. e.id \in 1 .. MaxStamps /\ e.at \in 1 .. MaxStamps
    BY <2>1, <2>2, <2>3, BoundsAssumption DEF Event
  <2>5. QED
    BY <1>1, <2>1, <2>4 DEF Committed, Recordable, Event
<1>2. QED
  BY <1>1, LedgerShapes DEF Untouched, Dropped, Begun, Stamped, Flushed

-----------------------------------------------------------------------------
(* The category of the newest event.                                       *)

(* The session that starts to change a transaction sees the others that do. *)
LEMMA ContestedWhenTwo ==
  ASSUME IInv, LedgerStep, NEW t \in Txs \ contested'
  PROVE  OneChanges(t) => OneChanges(t)'
<1> SUFFICES ASSUME OneChanges(t), NEW s \in Sessions, NEW o \in Sessions,
                    Changing(s, t)', Changing(o, t)', s # o
             PROVE  FALSE
  BY DEF OneChanges
<1>1. Types /\ NoJob \notin Job /\ [Next]_vars
  BY MarkersAssumption DEF IInv, LedgerStep
<1>2. \A p \in Sessions : \A q \in Sessions \ {p} :
        Changing(p, t)' /\ job[q] = job'[q] /\ Changing(q, t)' => t \in contested'
  BY DEF LedgerStep, Contested, Changing
<1>3. CASE job' = job
  BY <1>3 DEF OneChanges, Changing
<1>4. ASSUME NEW p \in Sessions, NEW k, Gives(p, k) PROVE FALSE
  <2>1. \A q \in Sessions \ {p} : job'[q] = job[q]
    BY <1>1, <1>4, GivesJob
  <2>2. QED
    BY <1>2, <2>1
<1>5. QED
  BY <1>1, <1>3, <1>4, LedgerShapes DEF Untouched, Dropped, Begun, Stamped, Flushed, Committed

(* A step that leaves the rows and the outbox, and begins to change only    *)
(* rows it has just read, with an instant later than all.                  *)
LEMMA NewestWhenServed ==
  ASSUME IInv, NEW t \in Txs, NewestIsTrue(t), UNCHANGED <<movement, outbox>>,
         NEW s \in Sessions, NEW k, Gives(s, k),
         (k # NoJob /\ k.op = "recategorize" /\ k.tx = t /\ movement[t] # NoMovement) =>
           /\ k.read.category = movement[t].category
           /\ k.phase # "read" => \A e \in EventsOf(t) : e.at < k.at
  PROVE  NewestIsTrue(t)'
<1>1. job'[s] = k /\ \A o \in Sessions \ {s} : job'[o] = job[o]
  BY GivesJob DEF IInv
<1>2. EventsOf(t)' = EventsOf(t)
  BY DEF EventsOf
<1>3. QED
  BY <1>1, <1>2 DEF NewestIsTrue, Changing, Replica!Newest

(* The event that a request commits becomes the newest of its transaction.  *)
LEMMA NewestWhenCommitted ==
  ASSUME IInv, EventsInv, NEW t \in Txs, NewestIsTrue(t), OneChanges(t),
         NEW s \in Sessions, NEW e \in Event, Committed(s, e)
  PROVE  NewestIsTrue(t)'
<1> SUFFICES ASSUME movement'[t] # NoMovement
             PROVE  /\ \A f \in Replica!Newest(EventsOf(t))' : f.category = movement'[t].category
                    /\ \A o \in Sessions : Changing(o, t)' =>
                         /\ job'[o].read.category = movement'[t].category
                         /\ job'[o].phase # "read" => \A f \in EventsOf(t)' : f.at < job'[o].at
  BY DEF NewestIsTrue
<1>1. Types /\ JobInv /\ NoJob \notin Job
  BY MarkersAssumption DEF IInv
<1>2. /\ job'[s] = NoJob /\ \A o \in Sessions \ {s} : job'[o] = job[o]
      /\ outbox' = outbox \cup {e} /\ e.tx = job[s].tx /\ e.at = job[s].at
      /\ job[s] # NoJob /\ job[s].phase # "read"
  BY <1>1, GivesJob DEF Committed, HasIdentity, HasEvent
<1>3. CASE e.tx # t
  <2>1. EventsOf(t)' = EventsOf(t) /\ movement'[t] = movement[t]
    BY <1>2, <1>3 DEF EventsOf, Committed
  <2>2. QED
    BY <1>2, <2>1 DEF NewestIsTrue, Changing, Replica!Newest
<1>4. CASE e.tx = t /\ job[s].op = "register"
  <2>1. /\ \A f \in outbox : f.tx # t
        /\ \A o \in Sessions \ {s} : job[o] # NoJob => job[o].tx # t
    <3>1. job[s] # NoJob /\ job[s].op = "register" /\ job[s].tx = t /\ RegistrationsAreNew
      BY <1>1, <1>2, <1>4 DEF JobInv
    <3>2. QED
      BY <3>1 DEF RegistrationsAreNew
  <2>2. EventsOf(t)' = {e}
    BY <1>2, <1>4, <2>1 DEF EventsOf
  <2>3. e.category = movement'[t].category
    BY <1>4 DEF Committed
  <2>4. QED
    BY <1>2, <2>1, <2>2, <2>3 DEF Changing, Replica!Newest
<1>5. CASE e.tx = t /\ job[s].op = "recategorize"
  <2>1. /\ movement[t] # NoMovement
        /\ movement[t].category = job[s].read.category => movement'[t].category = e.category
    BY <1>5 DEF Committed
  <2>2. Changing(s, t)
    BY <1>2, <1>5 DEF Changing
  <2>3. /\ job[s].read.category = movement[t].category
        /\ \A f \in EventsOf(t) : f.at < e.at
    BY <1>2, <2>1, <2>2 DEF NewestIsTrue
  <2>4. \A o \in Sessions : ~Changing(o, t)'
    BY <1>2, <2>2 DEF OneChanges, Changing
  <2>5. EventsOf(t)' = EventsOf(t) \cup {e}
    BY <1>2, <1>5 DEF EventsOf
  <2>6. e.at \in Nat /\ \A f \in EventsOf(t) : f.at \in Nat
    BY <1>1, StampTypes DEF EventsOf, Event
  <2>7. \A f \in Replica!Newest(EventsOf(t))' : f = e
    BY <2>3, <2>5, <2>6 DEF Replica!Newest
  <2>8. QED
    BY <2>1, <2>3, <2>4, <2>7
<1>6. CASE e.tx = t /\ job[s].op = "delete"
  BY <1>6 DEF Committed
<1>7. QED
  BY <1>3, <1>4, <1>5, <1>6 DEF Committed

(* Every step of the ledger keeps what is known of the categories. *)
LEMMA CategoriesNext == ASSUME IInv, EventsInv, CategoriesInv, LedgerStep PROVE CategoriesInv'
<1> SUFFICES ASSUME NEW t \in Txs \ contested' PROVE NewestIsTrue(t)'
  <2>1. ASSUME NEW t \in Txs \ contested' PROVE OneChanges(t)'
    <3>1. t \in Txs \ contested
      BY DEF LedgerStep
    <3>2. QED
      BY <3>1, ContestedWhenTwo DEF CategoriesInv
  <2>2. QED
    BY <2>1 DEF CategoriesInv
<1>1. t \in Txs /\ OneChanges(t) /\ NewestIsTrue(t)
  BY DEF LedgerStep, CategoriesInv
<1>2. [Next]_vars /\ Types /\ StampsBounded /\ NoJob \notin Job
  BY MarkersAssumption DEF IInv, LedgerStep, StampsAreNew
<1>3. CASE Untouched
  BY <1>1, <1>3 DEF Untouched, NewestIsTrue, EventsOf, Changing, Replica!Newest
<1>4. ASSUME NEW s \in Sessions, Dropped(s) PROVE NewestIsTrue(t)'
  BY <1>1, <1>4, NewestWhenServed DEF Dropped
<1>5. ASSUME NEW s \in Sessions, NEW k \in Job, Begun(s, k) PROVE NewestIsTrue(t)'
  BY <1>1, <1>5, NewestWhenServed DEF Begun
<1>6. ASSUME NEW s \in Sessions, NEW k \in Job, Stamped(s, k) PROVE NewestIsTrue(t)'
  <2>1. \A e \in EventsOf(t) : e.at < k.at
    BY <1>2, <1>6, StampTypes DEF Stamped, StampsBounded, EventsOf
  <2>2. k.op = job[s].op /\ k.tx = job[s].tx /\ k.read = job[s].read /\ job[s] # NoJob
    BY <1>6 DEF Stamped, SameRequest
  <2>3. (k.op = "recategorize" /\ k.tx = t /\ movement[t] # NoMovement) =>
          k.read.category = movement[t].category
    BY <1>1, <2>2 DEF NewestIsTrue, Changing
  <2>4. QED
    BY <1>1, <1>6, <2>1, <2>3, NewestWhenServed DEF Stamped
<1>7. ASSUME NEW s \in Sessions, NEW k \in Job, Flushed(s, k) PROVE NewestIsTrue(t)'
  <2>1. /\ k.op = job[s].op /\ k.tx = job[s].tx /\ k.read = job[s].read /\ k.at = job[s].at
        /\ job[s] # NoJob /\ job[s].phase # "read"
    BY <1>7 DEF Flushed, SameRequest
  <2>2. (k.op = "recategorize" /\ k.tx = t /\ movement[t] # NoMovement) =>
          k.read.category = movement[t].category /\ \A e \in EventsOf(t) : e.at < k.at
    BY <1>1, <2>1 DEF NewestIsTrue, Changing
  <2>3. QED
    BY <1>1, <1>7, <2>2, NewestWhenServed DEF Flushed
<1>8. ASSUME NEW s \in Sessions, NEW e \in Event, Committed(s, e) PROVE NewestIsTrue(t)'
  BY <1>1, <1>8, NewestWhenCommitted
<1>9. QED
  BY <1>2, <1>3, <1>4, <1>5, <1>6, <1>7, <1>8, LedgerShapes

-----------------------------------------------------------------------------
(* What the read model shows.                                              *)

(* An event of the ledger is not of those already projected. *)
LEMMA AppliedStays ==
  ASSUME IInv, EventsInv, ShownInv, LedgerStep
  PROVE  \A t \in Txs : Replica!AppliedOf(t)' = Replica!AppliedOf(t)
<1>1. [Next]_vars /\ applied' = applied
  BY DEF LedgerStep
<1>2. CASE outbox' = outbox
  BY <1>1, <1>2 DEF Replica!AppliedOf
<1>3. ASSUME NEW e \in Recordable, outbox' = outbox \cup {e}, \A f \in outbox : f.id # e.id
      PROVE  \A t \in Txs : Replica!AppliedOf(t)' = Replica!AppliedOf(t)
  <2>1. e.id \notin applied
    BY <1>3 DEF ShownInv
  <2>2. QED
    BY <1>1, <1>3, <2>1 DEF Replica!AppliedOf
<1>4. QED
  BY <1>1, <1>2, <1>3, LedgerAppends

(* Only the transaction of a projected event has one more. *)
LEMMA AppliedGrows ==
  ASSUME EventsInv, NEW e \in outbox, applied' = applied \cup {e.id}, UNCHANGED outbox
  PROVE  \A t \in Txs : Replica!AppliedOf(t)' =
                        IF t = e.tx THEN Replica!AppliedOf(t) \cup {e} ELSE Replica!AppliedOf(t)
<1>1. \A f \in outbox : f.id = e.id => f = e
  BY DEF EventsInv, IdentitiesAreUnique
<1>2. QED
  BY <1>1 DEF Replica!AppliedOf

(* Every view is a category, or that the transaction is gone. *)
LEMMA ViewsType ==
  ASSUME IInv, NEW S \in SUBSET outbox
  PROVE  Replica!Views(S) \subseteq Categories \cup {Gone}
  BY DEF IInv, Types, Event, Replica!Views, Replica!Newest

(* Every step keeps what is shown a view of what is projected. *)
LEMMA ShownNext == ASSUME IInv, EventsInv, ShownInv, NextPipeline PROVE ShownInv'
<1>1. CASE LedgerStep
  <2>1. applied' = applied /\ shown' = shown /\ [Next]_vars
    BY <1>1 DEF LedgerStep
  <2>2. applied' \subseteq {e.id : e \in outbox'}
    BY <2>1, LedgerAppends DEF ShownInv
  <2>3. \A t \in Txs : Replica!AppliedOf(t)' = Replica!AppliedOf(t)
    BY <1>1, AppliedStays
  <2>4. QED
    BY <2>1, <2>2, <2>3 DEF ShownInv, Replica!Views, Replica!Newest, Replica!AppliedOf
<1>2. CASE Project
  <2>1. PICK e \in outbox : Replica!Apply(e)
    BY <1>2 DEF Project
  <2>2. e.tx \in Txs
    BY DEF IInv, Types, Event
  <2>3. PICK view \in Replica!Views(Replica!AppliedOf(e.tx) \cup {e}) : shown' = [shown EXCEPT ![e.tx] = view]
    BY <2>1 DEF Replica!Apply
  <2>4. applied' = applied \cup {e.id} /\ outbox' = outbox
    BY <2>1 DEF Replica!Apply
  <2>5. \A t \in Txs : Replica!AppliedOf(t)' =
                      IF t = e.tx THEN Replica!AppliedOf(t) \cup {e} ELSE Replica!AppliedOf(t)
    BY <2>4, AppliedGrows
  <2>6. view \in Categories \cup {NoFact, Gone}
    <3>1. Replica!AppliedOf(e.tx) \cup {e} \in SUBSET outbox
      BY DEF Replica!AppliedOf
    <3>2. QED
      BY <2>3, <3>1, ViewsType
  <2>7. shown' \in [Txs -> Categories \cup {NoFact, Gone}] /\ shown'[e.tx] = view
        /\ \A t \in Txs \ {e.tx} : shown'[t] = shown[t]
    BY <2>2, <2>3, <2>6 DEF ShownInv
  <2>8. applied' \subseteq {f.id : f \in outbox'}
    BY <2>4 DEF ShownInv
  <2>9. ASSUME NEW t \in Txs
        PROVE  (IF Replica!AppliedOf(t) = {} THEN shown[t] = NoFact
                ELSE shown[t] \in Replica!Views(Replica!AppliedOf(t)))'
    <3>1. CASE t = e.tx
      BY <2>3, <2>5, <2>7, <3>1 DEF Replica!Views, Replica!Newest
    <3>2. CASE t # e.tx
      BY <2>5, <2>7, <3>2 DEF ShownInv, Replica!Views, Replica!Newest
    <3>3. QED
      BY <3>1, <3>2
  <2>10. QED
    BY <2>7, <2>8, <2>9 DEF ShownInv
<1>3. QED
  BY <1>1, <1>2 DEF NextPipeline

-----------------------------------------------------------------------------
(* The invariant holds in every state.                                     *)

(* Projecting an event is invisible to the ledger. *)
LEMMA PipelineSteps == [NextPipeline]_pipelineVars => [Next]_vars
  BY DEF NextPipeline, LedgerStep, Project, Replica!Apply, pipelineVars, vars

(* The first state satisfies the invariant. *)
LEMMA PInvInit == InitPipeline => PInv
<1> SUFFICES ASSUME InitPipeline PROVE PInv
  OBVIOUS
<1>1. IInv
  BY IInvInit DEF InitPipeline
<1>2. IdentitiesAreUnique /\ StampsArePositive /\ EventsAreOfRegistered
  BY DEF InitPipeline, Init, IdentitiesAreUnique, StampsArePositive, EventsAreOfRegistered,
     HasIdentity, HasEvent
<1>3. InstantsCoverIdentities
  <2>1. Recorded = {}
    BY DEF InitPipeline, Init, Recorded
  <2>2. QED
    BY <2>1, FS_EmptySet DEF InitPipeline, Init, InstantsCoverIdentities
<1>4. CategoriesInv
  BY DEF InitPipeline, Init, CategoriesInv, OneChanges, NewestIsTrue, Changing
<1>5. ShownInv
  BY DEF InitPipeline, Init, ShownInv, Replica!AppliedOf
<1>6. QED
  BY <1>1, <1>2, <1>3, <1>4, <1>5 DEF PInv, EventsInv

(* Every step keeps the invariant. *)
LEMMA PInvNext == PInv /\ [NextPipeline]_pipelineVars => PInv'
<1> SUFFICES ASSUME PInv, [NextPipeline]_pipelineVars PROVE PInv'
  OBVIOUS
<1>1. IInv /\ EventsInv /\ CategoriesInv /\ ShownInv /\ [Next]_vars
  BY PipelineSteps DEF PInv
<1>2. IInv' /\ EventsInv'
  BY <1>1, IInvNext, IdentitiesNext, PositiveNext, CoverNext, RegisteredNext DEF EventsInv
<1>3. CASE UNCHANGED pipelineVars
  <2>1. CategoriesInv'
    BY <1>1, <1>3 DEF CategoriesInv, pipelineVars, vars, OneChanges, NewestIsTrue, Changing, EventsOf, Replica!Newest
  <2>2. ShownInv'
    BY <1>1, <1>3 DEF pipelineVars, vars, ShownInv, Replica!AppliedOf, Replica!Views, Replica!Newest
  <2>3. QED
    BY <1>2, <2>1, <2>2 DEF PInv
<1>4. CASE LedgerStep
  BY <1>1, <1>2, <1>4, CategoriesNext, ShownNext DEF PInv, NextPipeline
<1>5. CASE Project
  <2>1. UNCHANGED <<movement, outbox, job, contested>>
    BY <1>5 DEF Project, Replica!Apply
  <2>2. CategoriesInv'
    BY <1>1, <2>1 DEF CategoriesInv, OneChanges, NewestIsTrue, Changing, EventsOf, Replica!Newest
  <2>3. QED
    BY <1>1, <1>2, <1>5, <2>2, ShownNext DEF PInv, NextPipeline
<1>6. QED
  BY <1>3, <1>4, <1>5 DEF NextPipeline

(* The invariant holds in every reachable state. *)
THEOREM PipelineInvariant == SpecPipeline => []PInv
  BY PInvInit, PInvNext, PTL DEF SpecPipeline

-----------------------------------------------------------------------------
(* A step of the pipeline is a commit or a projection of ReadModel, or      *)
(* none: finance-service gives every event an identity of its own, though  *)
(* requests take theirs and commit in different orders.                    *)
THEOREM LedgerIsAProducer == SpecPipeline => ImplementsReadModel
<1>1. InitPipeline => Replica!Init
  BY DEF InitPipeline, Init, Replica!Init
<1>2. PInv /\ [NextPipeline]_pipelineVars => [Replica!Next]_(Replica!vars)
  <2> SUFFICES ASSUME PInv, [NextPipeline]_pipelineVars PROVE [Replica!Next]_(Replica!vars)
    OBVIOUS
  <2>1. CASE UNCHANGED pipelineVars
    BY <2>1 DEF pipelineVars, vars, Replica!vars
  <2>2. CASE LedgerStep
    <3>1. IInv /\ EventsInv /\ [Next]_vars /\ UNCHANGED <<applied, shown>>
      BY <2>2 DEF PInv, LedgerStep
    <3>2. CASE outbox' = outbox
      BY <3>1, <3>2 DEF Replica!vars
    <3>3. ASSUME NEW e \in Recordable, outbox' = outbox \cup {e}, \A f \in outbox : f.id # e.id
          PROVE  Replica!Next
      BY <3>1, <3>3 DEF Replica!Next, Replica!Commit
    <3>4. QED
      BY <3>1, <3>2, <3>3, LedgerAppends
  <2>3. CASE Project
    <3>1. PICK e \in outbox : Replica!Apply(e)
      BY <2>3 DEF Project
    <3>2. e \in Recordable
      BY RecordedEvents DEF PInv
    <3>3. QED
      BY <3>1, <3>2 DEF Replica!Next
  <2>4. QED
    BY <2>1, <2>2, <2>3 DEF NextPipeline
<1>3. QED
  BY <1>1, <1>2, PipelineInvariant, PTL DEF SpecPipeline, ImplementsReadModel, Replica!Spec

(* Once a deletion is projected, the transaction stays gone. *)
THEOREM GoneStaysGone == SpecPipeline => NothingResurrected
<1>1. PInv /\ [NextPipeline]_pipelineVars => \A t \in Txs : shown[t] = Gone => shown'[t] = Gone
  <2> SUFFICES ASSUME PInv, NextPipeline, NEW t \in Txs, shown[t] = Gone PROVE shown'[t] = Gone
    BY DEF pipelineVars
  <2>1. IInv /\ EventsInv /\ ShownInv
    BY DEF PInv
  <2>2. CASE LedgerStep
    BY <2>2 DEF LedgerStep
  <2>3. CASE Project
    <3>1. PICK e \in outbox : Replica!Apply(e)
      BY <2>3 DEF Project
    <3>2. PICK d \in Replica!AppliedOf(t) : d.kind = "Deleted"
      <4>1. Replica!AppliedOf(t) # {} /\ Gone \in Replica!Views(Replica!AppliedOf(t))
        BY <2>1, ShownAssumption DEF ShownInv
      <4>2. \A f \in Replica!AppliedOf(t) : f.category # Gone
        BY <2>1, ShownAssumption DEF IInv, Types, Event, Replica!AppliedOf
      <4>3. QED
        BY <4>1, <4>2 DEF Replica!Views, Replica!Newest
    <3>3. CASE e.tx = t
      BY <2>1, <3>1, <3>2, <3>3 DEF Replica!Apply, Replica!Views, ShownInv
    <3>4. CASE e.tx # t
      BY <2>1, <3>1, <3>4 DEF Replica!Apply, ShownInv
    <3>5. QED
      BY <3>3, <3>4
  <2>4. QED
    BY <2>2, <2>3 DEF NextPipeline
<1>2. QED
  BY <1>1, PipelineInvariant, PTL DEF SpecPipeline, NothingResurrected

(* Eventual consistency: once every event is projected, analytics-service  *)
(* shows of every transaction what finance-service has, unless two         *)
(* requests recategorised it at the same time.                             *)
THEOREM ReadModelIsConsistent == SpecPipeline => []ReadModelConverges
<1>1. PInv => ReadModelConverges
  <2> SUFFICES ASSUME PInv, Quiescent, NEW t \in Txs \ contested PROVE shown[t] = Truth(t)
    BY DEF ReadModelConverges
  <2>1. IInv /\ EventsInv /\ CategoriesInv /\ ShownInv
    BY DEF PInv
  <2>2. EventsTellTheTruth /\ NewestIsTrue(t) /\ EventsAreOfRegistered
    BY <2>1 DEF IInv, CategoriesInv, EventsInv
  <2>3. Replica!AppliedOf(t) = EventsOf(t)
    BY DEF Quiescent, Replica!AppliedOf, EventsOf
  <2>4. CASE EventsOf(t) = {}
    <3>1. movement[t] = NoMovement
      BY <2>2, <2>4 DEF EventsTellTheTruth, Registered, EventsOf
    <3>2. QED
      BY <2>1, <2>3, <2>4, <3>1 DEF ShownInv, Truth, EventsOf
  <2>5. CASE \E d \in EventsOf(t) : d.kind = "Deleted"
    <3>1. movement[t] = NoMovement
      BY <2>2, <2>5 DEF EventsTellTheTruth, EventsOf
    <3>2. QED
      BY <2>1, <2>3, <2>5, <3>1 DEF ShownInv, Truth, EventsOf, Replica!Views
  <2>6. CASE EventsOf(t) # {} /\ ~ \E d \in EventsOf(t) : d.kind = "Deleted"
    <3>1. movement[t] # NoMovement
      BY <2>2, <2>6 DEF EventsTellTheTruth, EventsAreOfRegistered, EventsOf
    <3>2. \A view \in Replica!Views(EventsOf(t)) : view = movement[t].category
      BY <2>2, <2>6, <3>1 DEF NewestIsTrue, Replica!Views
    <3>3. QED
      BY <2>1, <2>3, <2>6, <3>1, <3>2 DEF ShownInv, Truth
  <2>7. QED
    BY <2>4, <2>5, <2>6
<1>2. QED
  BY <1>1, PipelineInvariant, PTL
=============================================================================
