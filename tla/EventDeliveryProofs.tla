------------------------- MODULE EventDeliveryProofs -------------------------
(***************************************************************************)
(* Proofs about EventDelivery for every set of events, relays and workers  *)
(* and every number of faults.                                             *)
(***************************************************************************)
EXTENDS EventDelivery, TLAPS

(* Every variable but those an action names. *)
USE DEF relayVars, workerVars, groupVars, modelVars

-----------------------------------------------------------------------------
(* Applying an event to a row of transaction_fact gives a row again. *)
LEMMA AppliedType ==
  ASSUME NEW f \in Fact \cup {NoFact}, NEW e \in Event
  PROVE  Applied(f, e) \in Fact
  BY NoFactAssumption DEF Applied, Fact, Event

(* The initial state is typed. *)
LEMMA TypeInit == Init => TypeOK
  BY MaxFaultsAssumption DEF Init, TypeOK

(* The outbox, the relay's row locks and the stream keep their types. *)
LEMMA TypeNext == TypeOK /\ [Next]_vars => TypeOK'
<1> SUFFICES ASSUME TypeOK, [Next]_vars PROVE TypeOK'
  OBVIOUS
<1> USE EventsAssumption, BatchSizeAssumption, MaxFaultsAssumption DEF TypeOK
<1>1. ASSUME NEW e \in Events, Record(e) PROVE TypeOK'
  BY <1>1 DEF Record
<1>2. ASSUME NEW r \in Relays, SelectPending(r) PROVE TypeOK'
  BY <1>2 DEF SelectPending, Available
<1>3. ASSUME NEW r \in Relays, Publish(r) PROVE TypeOK'
  BY <1>3 DEF Publish
<1>4. ASSUME NEW r \in Relays, MarkPublished(r) PROVE TypeOK'
  <2>1. held[r] \in Event
    BY <1>4 DEF MarkPublished
  <2>2. held[r].id \in Nat
    BY <2>1 DEF Event
  <2>3. QED
    BY <1>4, <2>2 DEF MarkPublished
<1>5. ASSUME NEW r \in Relays, RelayFails(r) PROVE TypeOK'
  BY <1>5 DEF RelayFails
<1>6. ASSUME NEW w \in Workers, Recover(w) PROVE TypeOK'
  BY <1>6 DEF Recover
<1>7. ASSUME NEW w \in Workers, ReadNew(w) PROVE TypeOK'
  <2> DEFINE last == IF cursor + BatchSize < Len(stream) THEN cursor + BatchSize ELSE Len(stream)
  <2>1. /\ cursor \in Nat /\ Len(stream) \in Nat
        /\ last \in Nat /\ cursor < last /\ last <= Len(stream)
    BY <1>7 DEF ReadNew
  <2>2. /\ cursor' = last
        /\ pending' = pending \cup (cursor + 1 .. last)
        /\ batch' = [batch EXCEPT ![w] = cursor + 1 .. last]
        /\ UNCHANGED <<outbox, published, held, sent, stream, recovered, acking, processed, fact, faults>>
    BY <1>7 DEF ReadNew
  <2> HIDE DEF last
  <2>3. cursor' \in 0 .. Len(stream') /\ pending' \subseteq 1 .. cursor'
    BY <2>1, <2>2
  <2>4. batch' \in [Workers -> SUBSET (1 .. cursor')]
    <3>1. \A B \in SUBSET (1 .. cursor) : B \in SUBSET (1 .. last)
      BY <2>1
    <3>2. (cursor + 1 .. last) \in SUBSET (1 .. last)
      BY <2>1
    <3>3. batch \in [Workers -> SUBSET (1 .. last)]
      BY <3>1
    <3>4. QED
      BY <3>2, <3>3, <2>2
  <2>5. acking' \in [Workers -> 0 .. cursor']
    BY <2>1, <2>2
  <2>6. QED
    BY <2>2, <2>3, <2>4, <2>5
<1>8. ASSUME NEW w \in Workers, Project(w) PROVE TypeOK'
  <2>1. PICK p \in batch[w] :
          /\ processed' = processed \cup {stream[p].id}
          /\ fact' = IF stream[p].id \in processed THEN fact
                     ELSE [fact EXCEPT ![stream[p].tx] = Applied(@, stream[p])]
          /\ acking' = [acking EXCEPT ![w] = p]
          /\ batch' = [batch EXCEPT ![w] = @ \ {p}]
    BY <1>8 DEF Project
  <2>2. p \in 1 .. cursor /\ p \in 0 .. cursor /\ p \in 1 .. Len(stream)
    OBVIOUS
  <2>3. stream[p] \in Event
    BY <2>2
  <2>4. stream[p].id \in Nat /\ stream[p].tx \in Txs
    BY <2>3 DEF Event
  <2>5. Applied(fact[stream[p].tx], stream[p]) \in Fact
    BY <2>3, <2>4, AppliedType
  <2>6. fact' \in [Txs -> Fact \cup {NoFact}]
    BY <2>1, <2>4, <2>5
  <2>7. QED
    BY <1>8, <2>1, <2>2, <2>4, <2>6 DEF Project
<1>9. ASSUME NEW w \in Workers, Discard(w) PROVE TypeOK'
  BY <1>9 DEF Discard, IsNext
<1>10. ASSUME NEW w \in Workers, Ack(w) PROVE TypeOK'
  <2>1. cursor \in Nat
    OBVIOUS
  <2>2. 0 \in 0 .. cursor
    BY <2>1
  <2>3. QED
    BY <1>10, <2>2 DEF Ack
<1>11. ASSUME NEW w \in Workers, WorkerFails(w) PROVE TypeOK'
  BY <1>11 DEF WorkerFails
<1>12. CASE UNCHANGED vars
  BY <1>12 DEF vars
<1>13. QED
  BY <1>1, <1>2, <1>3, <1>4, <1>5, <1>6, <1>7, <1>8, <1>9, <1>10, <1>11, <1>12 DEF Next

(* Every variable keeps its type: no entry is pending, in a batch or being *)
(* acknowledged that the group has not delivered.                          *)
THEOREM TypeCorrect == Spec => []TypeOK
<1>1. QED
  BY TypeInit, TypeNext, PTL DEF Spec

-----------------------------------------------------------------------------
(* The inductive invariant.  NothingLost alone is not inductive: it says   *)
(* nothing of a row between its XADD and its mark, nor of an entry between *)
(* the commit of its projection and its XACK.                              *)

InStream(e) == \E p \in 1 .. Len(stream) : stream[p] = e

(* event_id and id identify a row. *)
UniqueIds == \A e, f \in outbox : e.id = f.id => e = f

(* A relay locks committed rows, and marks only what it has published. *)
RelaysHoldRows ==
  \A r \in Relays :
    /\ held[r] # NoEvent => held[r] \in outbox
    /\ sent[r] => held[r] # NoEvent /\ InStream(held[r])

(* A row marked as published is in the stream. *)
PublishedInStream == \A i \in published : \E p \in 1 .. Len(stream) : stream[p].id = i

StreamFromOutbox == \A p \in 1 .. Len(stream) : stream[p] \in outbox

ProcessedFromOutbox == \A i \in processed : \E e \in outbox : e.id = i

(* What the group has forgotten is projected ... *)
AckedOnlyWhenProcessed ==
  \A p \in 1 .. cursor :
    (p \notin pending /\ Decodable(stream[p])) => stream[p].id \in processed

(* ... because an entry is acknowledged after the commit that projects it. *)
AckingOnlyWhenProcessed ==
  \A w \in Workers :
    (acking[w] # 0 /\ Decodable(stream[acking[w]])) => stream[acking[w]].id \in processed

(* A row of transaction_fact against the events projected on it. *)
FactMatches(f, seen) ==
  /\ (f = NoFact) <=> (seen = {})
  /\ f # NoFact =>
       /\ (f.deletedAt # 0) <=> (\E e \in seen : e.kind = "Deleted")
       /\ f.deletedAt = 0 =>
            /\ \A e \in seen : e.at <= f.lastAt
            /\ \E e \in seen : e.at = f.lastAt /\ e.category = f.category

FactsMatch == \A t \in Txs : FactMatches(fact[t], ProcessedOf(t))

PublicationInv == UniqueIds /\ RelaysHoldRows /\ PublishedInStream /\ StreamFromOutbox

ConsumptionInv == AckedOnlyWhenProcessed /\ AckingOnlyWhenProcessed

ProjectionInv == ProcessedFromOutbox /\ FactsMatch

IInv == TypeOK /\ PublicationInv /\ ConsumptionInv /\ ProjectionInv

-----------------------------------------------------------------------------
(* The stream only grows: an entry keeps its position. *)
LEMMA AppendKeepsEntries ==
  ASSUME NEW S, NEW s \in Seq(S), NEW e \in S
  PROVE  /\ Append(s, e) \in Seq(S)
         /\ Len(Append(s, e)) = Len(s) + 1
         /\ \A p \in 1 .. Len(s) : Append(s, e)[p] = s[p]
         /\ Append(s, e)[Len(s) + 1] = e
  OBVIOUS

(* Before anything is published the invariant holds. *)
LEMMA IInvInit == Init => IInv
<1> SUFFICES ASSUME Init PROVE IInv
  OBVIOUS
<1>1. TypeOK
  BY TypeInit
<1>2. PublicationInv
  BY DEF Init, PublicationInv, UniqueIds, RelaysHoldRows, PublishedInStream, StreamFromOutbox
<1>3. ConsumptionInv
  BY DEF Init, ConsumptionInv, AckedOnlyWhenProcessed, AckingOnlyWhenProcessed
<1>4. ProjectionInv
  BY DEF Init, ProjectionInv, ProcessedFromOutbox, FactsMatch, FactMatches, ProcessedOf
<1>5. QED
  BY <1>1, <1>2, <1>3, <1>4 DEF IInv

(* The relays: a row is marked only when the stream has it. *)
LEMMA PublicationNext == TypeOK /\ PublicationInv /\ [Next]_vars => PublicationInv'
<1> SUFFICES ASSUME TypeOK, PublicationInv, [Next]_vars PROVE PublicationInv'
  OBVIOUS
<1> USE DEF PublicationInv
<1>1. ASSUME NEW e \in Events, Record(e) PROVE PublicationInv'
  BY <1>1 DEF Record, UniqueIds, RelaysHoldRows, InStream, PublishedInStream, StreamFromOutbox
<1>2. ASSUME NEW r \in Relays, SelectPending(r) PROVE PublicationInv'
  <2>1. PICK e \in outbox : held' = [held EXCEPT ![r] = e]
    BY <1>2 DEF SelectPending, Available
  <2>2. UNCHANGED <<outbox, published, sent, stream>> /\ ~sent[r]
    BY <1>2 DEF SelectPending, RelaysHoldRows
  <2>3. RelaysHoldRows'
    BY <2>1, <2>2, NoEventAssumption, EventsAssumption DEF RelaysHoldRows, InStream, TypeOK
  <2>4. QED
    BY <2>2, <2>3 DEF UniqueIds, PublishedInStream, StreamFromOutbox
<1>3. ASSUME NEW r \in Relays, Publish(r) PROVE PublicationInv'
  <2>1. /\ held[r] \in outbox /\ held[r] \in Events
        /\ stream' = Append(stream, held[r])
        /\ sent' = [sent EXCEPT ![r] = TRUE]
        /\ held[r] # NoEvent
        /\ UNCHANGED <<outbox, published, held>>
    BY <1>3 DEF Publish, RelaysHoldRows, TypeOK
  <2>2. /\ stream \in Seq(Events) /\ Len(stream) \in Nat
        /\ Len(stream') = Len(stream) + 1
        /\ \A p \in 1 .. Len(stream) : stream'[p] = stream[p]
        /\ stream'[Len(stream) + 1] = held[r]
    BY <2>1, AppendKeepsEntries DEF TypeOK
  <2>3. \A e : InStream(e) => InStream(e)'
    BY <2>2 DEF InStream
  <2>4. InStream(held[r])'
    BY <2>1, <2>2 DEF InStream
  <2>5. RelaysHoldRows'
    BY <2>1, <2>3, <2>4 DEF RelaysHoldRows, TypeOK
  <2>6. PublishedInStream'
    BY <2>1, <2>2 DEF PublishedInStream
  <2>7. StreamFromOutbox'
    BY <2>1, <2>2 DEF StreamFromOutbox
  <2>8. QED
    BY <2>1, <2>5, <2>6, <2>7 DEF UniqueIds
<1>4. ASSUME NEW r \in Relays, MarkPublished(r) PROVE PublicationInv'
  <2>1. PublishedInStream'
    BY <1>4 DEF MarkPublished, PublishedInStream, RelaysHoldRows, InStream
  <2>2. RelaysHoldRows'
    BY <1>4 DEF MarkPublished, RelaysHoldRows, InStream, TypeOK
  <2>3. QED
    BY <1>4, <2>1, <2>2 DEF MarkPublished, UniqueIds, StreamFromOutbox
<1>5. ASSUME NEW r \in Relays, RelayFails(r) PROVE PublicationInv'
  <2>1. RelaysHoldRows'
    BY <1>5 DEF RelayFails, RelaysHoldRows, InStream, TypeOK
  <2>2. QED
    BY <1>5, <2>1 DEF RelayFails, UniqueIds, PublishedInStream, StreamFromOutbox
<1>6. CASE UNCHANGED <<outbox, published, held, sent, stream>>
  BY <1>6 DEF UniqueIds, RelaysHoldRows, InStream, PublishedInStream, StreamFromOutbox
<1>7. ASSUME NEW w \in Workers,
             Recover(w) \/ ReadNew(w) \/ Project(w) \/ Discard(w) \/ Ack(w) \/ WorkerFails(w)
      PROVE PublicationInv'
  <2>1. UNCHANGED <<outbox, published, held, sent, stream>>
    BY <1>7 DEF Recover, ReadNew, Project, Discard, Ack, WorkerFails
  <2>2. QED
    BY <1>6, <2>1
<1>8. QED
  BY <1>1, <1>2, <1>3, <1>4, <1>5, <1>6, <1>7 DEF Next, vars

(* The group: an entry leaves it only after its projection is committed. *)
LEMMA ConsumptionNext == TypeOK /\ ConsumptionInv /\ [Next]_vars => ConsumptionInv'
<1> SUFFICES ASSUME TypeOK, ConsumptionInv, [Next]_vars PROVE ConsumptionInv'
  OBVIOUS
<1> USE DEF ConsumptionInv
<1>1. CASE UNCHANGED <<stream, cursor, pending, acking, processed>>
  BY <1>1 DEF AckedOnlyWhenProcessed, AckingOnlyWhenProcessed
<1>2. ASSUME NEW r \in Relays, Publish(r) PROVE ConsumptionInv'
  <2>1. /\ stream' = Append(stream, held[r]) /\ held[r] \in Events /\ stream \in Seq(Events)
        /\ UNCHANGED <<cursor, pending, acking, processed>>
    BY <1>2 DEF Publish, TypeOK
  <2>2. cursor \in Nat /\ cursor <= Len(stream) /\ Len(stream) \in Nat
    BY DEF TypeOK
  <2>3. \A p \in 1 .. cursor : stream'[p] = stream[p]
    BY <2>1, <2>2, AppendKeepsEntries
  <2>4. \A w \in Workers : acking[w] # 0 => acking[w] \in 1 .. cursor
    BY <2>2 DEF TypeOK
  <2>5. QED
    BY <2>1, <2>3, <2>4 DEF AckedOnlyWhenProcessed, AckingOnlyWhenProcessed, Decodable
<1>3. ASSUME NEW w \in Workers, ReadNew(w) PROVE ConsumptionInv'
  <2> DEFINE last == IF cursor + BatchSize < Len(stream) THEN cursor + BatchSize ELSE Len(stream)
  <2>1. /\ cursor' = last
        /\ pending' = pending \cup (cursor + 1 .. last)
        /\ UNCHANGED <<stream, acking, processed>>
    BY <1>3 DEF ReadNew
  <2>2. cursor \in Nat /\ Len(stream) \in Nat
    BY DEF TypeOK
  <2> HIDE DEF last
  <2>3. \A p \in 1 .. last : p \notin pending' => p \in 1 .. cursor /\ p \notin pending
    BY <2>1, <2>2
  <2>4. QED
    BY <2>1, <2>3 DEF AckedOnlyWhenProcessed, AckingOnlyWhenProcessed, Decodable
<1>4. ASSUME NEW w \in Workers, Project(w) PROVE ConsumptionInv'
  <2>1. PICK p \in batch[w] :
          /\ processed' = processed \cup {stream[p].id}
          /\ acking' = [acking EXCEPT ![w] = p]
    BY <1>4 DEF Project
  <2>2. UNCHANGED <<stream, cursor, pending>>
    BY <1>4 DEF Project
  <2>3. AckedOnlyWhenProcessed'
    BY <2>1, <2>2 DEF AckedOnlyWhenProcessed, Decodable
  <2>4. AckingOnlyWhenProcessed'
    BY <2>1, <2>2 DEF AckingOnlyWhenProcessed, Decodable, TypeOK
  <2>5. QED
    BY <2>3, <2>4
<1>5. ASSUME NEW w \in Workers, Discard(w) PROVE ConsumptionInv'
  <2>1. PICK p \in batch[w] : ~Decodable(stream[p]) /\ pending' = pending \ {p}
    BY <1>5 DEF Discard
  <2>2. UNCHANGED <<stream, cursor, acking, processed>>
    BY <1>5 DEF Discard
  <2>3. QED
    BY <2>1, <2>2 DEF AckedOnlyWhenProcessed, AckingOnlyWhenProcessed, Decodable
<1>6. ASSUME NEW w \in Workers, Ack(w) PROVE ConsumptionInv'
  BY <1>6 DEF Ack, AckedOnlyWhenProcessed, AckingOnlyWhenProcessed, Decodable, TypeOK
<1>7. ASSUME NEW w \in Workers, WorkerFails(w) PROVE ConsumptionInv'
  BY <1>7 DEF WorkerFails, AckedOnlyWhenProcessed, AckingOnlyWhenProcessed, Decodable, TypeOK
<1>8. QED
  BY <1>1, <1>2, <1>3, <1>4, <1>5, <1>6, <1>7
     DEF Next, vars, Record, SelectPending, MarkPublished, RelayFails, Recover

-----------------------------------------------------------------------------
(* Projecting an event on a row that matches the events seen so far gives   *)
(* a row that matches them and the new one: _apply does not depend on the   *)
(* order in which they came.                                                *)
LEMMA AppliedMatches ==
  ASSUME NEW f \in Fact \cup {NoFact}, NEW e \in Event, NEW seen \in SUBSET Event,
         FactMatches(f, seen)
  PROVE  FactMatches(Applied(f, e), seen \cup {e})
<1> DEFINE g == Applied(f, e)
<1>1. g \in Fact /\ g # NoFact
  BY AppliedType, NoFactAssumption
<1>2. CASE f = NoFact
  <2>1. seen = {}
    BY <1>2 DEF FactMatches
  <2>2. /\ g.category = e.category /\ g.lastAt = e.at
        /\ g.deletedAt = IF e.kind = "Deleted" THEN e.at ELSE 0
    BY <1>2 DEF Applied
  <2>3. e.at \in Nat /\ e.at # 0
    BY DEF Event
  <2>4. QED
    BY <1>1, <2>1, <2>2, <2>3 DEF FactMatches
<1>3. CASE f # NoFact /\ f.deletedAt # 0
  <2>1. g = f
    BY <1>3 DEF Applied
  <2>2. QED
    BY <1>1, <1>3, <2>1 DEF FactMatches
<1>4. CASE f # NoFact /\ f.deletedAt = 0 /\ e.kind = "Deleted"
  <2>1. g.deletedAt = e.at /\ e.at # 0
    BY <1>4 DEF Applied, Fact, Event
  <2>2. QED
    BY <1>1, <1>4, <2>1 DEF FactMatches
<1>5. CASE f # NoFact /\ f.deletedAt = 0 /\ e.kind # "Deleted"
  <2>1. /\ \A d \in seen : d.kind # "Deleted" /\ d.at <= f.lastAt
        /\ \E d \in seen : d.at = f.lastAt /\ d.category = f.category
    BY <1>5 DEF FactMatches
  <2>2. e.at \in Nat /\ f.lastAt \in Nat /\ f \in Fact
    BY <1>5 DEF Event, Fact
  <2>3. \A d \in seen : d.at \in Nat
    BY DEF Event
  <2>4. CASE e.at < f.lastAt
    <3>1. g = f
      BY <1>5, <2>4 DEF Applied
    <3>2. QED
      BY <1>1, <1>5, <2>1, <2>2, <2>4, <3>1 DEF FactMatches
  <2>5. CASE ~(e.at < f.lastAt)
    <3>1. g.deletedAt = 0 /\ g.category = e.category /\ g.lastAt = e.at
      BY <1>5, <2>2, <2>5 DEF Applied, Fact
    <3>2. \A d \in seen \cup {e} : d.kind # "Deleted" /\ d.at <= e.at
      BY <1>5, <2>1, <2>2, <2>3, <2>5
    <3>3. QED
      BY <1>1, <3>1, <3>2 DEF FactMatches
  <2>6. QED
    BY <2>4, <2>5
<1>6. QED
  BY <1>2, <1>3, <1>4, <1>5

(* Only Project changes what the facts must match. *)
LEMMA ProjectionNext ==
  TypeOK /\ PublicationInv /\ ProjectionInv /\ [Next]_vars => ProjectionInv'
<1> SUFFICES ASSUME TypeOK, PublicationInv, ProjectionInv, [Next]_vars PROVE ProjectionInv'
  OBVIOUS
<1> USE DEF ProjectionInv
<1>1. CASE UNCHANGED <<outbox, processed, fact>>
  BY <1>1 DEF ProcessedFromOutbox, FactsMatch, FactMatches, ProcessedOf
<1>2. ASSUME NEW e \in Events, Record(e) PROVE ProjectionInv'
  <2>1. /\ \A f \in outbox : f.id # e.id
        /\ outbox' = outbox \cup {e}
        /\ UNCHANGED <<processed, fact>>
    BY <1>2 DEF Record
  <2>2. ProcessedFromOutbox'
    BY <2>1 DEF ProcessedFromOutbox
  <2>3. e.id \notin processed
    BY <2>1 DEF ProcessedFromOutbox
  <2>4. \A t \in Txs : ProcessedOf(t)' = ProcessedOf(t)
    BY <2>1, <2>3 DEF ProcessedOf
  <2>5. FactsMatch'
    BY <2>1, <2>4 DEF FactsMatch, FactMatches
  <2>6. QED
    BY <2>2, <2>5
<1>3. ASSUME NEW w \in Workers, Project(w) PROVE ProjectionInv'
  <2>1. PICK p \in batch[w] :
          /\ processed' = processed \cup {stream[p].id}
          /\ fact' = IF stream[p].id \in processed THEN fact
                     ELSE [fact EXCEPT ![stream[p].tx] = Applied(@, stream[p])]
    BY <1>3 DEF Project
  <2> DEFINE e == stream[p]
  <2>2. outbox' = outbox
    BY <1>3 DEF Project
  <2>3. p \in 1 .. Len(stream)
    BY DEF TypeOK
  <2>4. e \in outbox /\ e \in Event /\ e.tx \in Txs
    BY <2>3, EventsAssumption DEF PublicationInv, StreamFromOutbox, TypeOK, Event
  <2>5. ProcessedFromOutbox'
    BY <2>1, <2>2, <2>4 DEF ProcessedFromOutbox
  <2>6. CASE e.id \in processed
    <3>1. processed' = processed /\ fact' = fact
      BY <2>1, <2>6
    <3>2. QED
      BY <1>1, <2>2, <3>1
  <2>7. CASE e.id \notin processed
    <3>1. \A t \in Txs : t # e.tx => ProcessedOf(t)' = ProcessedOf(t)
      <4>1. \A f \in outbox : f.id \in processed' => f.id \in processed \/ f = e
        BY <2>1, <2>4 DEF PublicationInv, UniqueIds
      <4>2. QED
        BY <2>1, <2>2, <4>1 DEF ProcessedOf
    <3>2. \A t \in Txs : t = e.tx => ProcessedOf(t)' = ProcessedOf(t) \cup {e}
      BY <2>1, <2>2, <2>4 DEF ProcessedOf, PublicationInv, UniqueIds
    <3>3. /\ fact' = [fact EXCEPT ![e.tx] = Applied(@, e)]
          /\ fact \in [Txs -> Fact \cup {NoFact}]
      BY <2>1, <2>7 DEF TypeOK
    <3>4. FactMatches(fact[e.tx], ProcessedOf(e.tx))
      BY <2>4 DEF FactsMatch
    <3>5. ProcessedOf(e.tx) \in SUBSET Event
      BY EventsAssumption DEF ProcessedOf, TypeOK
    <3>6. FactMatches(Applied(fact[e.tx], e), ProcessedOf(e.tx) \cup {e})
      BY <2>4, <3>3, <3>4, <3>5, AppliedMatches
    <3>7. ASSUME NEW t \in Txs PROVE FactMatches(fact'[t], ProcessedOf(t)')
      <4>1. CASE t = e.tx
        <5>1. /\ fact'[t] = Applied(fact[e.tx], e)
              /\ ProcessedOf(t)' = ProcessedOf(e.tx) \cup {e}
          BY <2>4, <3>2, <3>3, <4>1
        <5>2. QED
          BY <3>6, <5>1
      <4>2. CASE t # e.tx
        <5>1. fact'[t] = fact[t] /\ ProcessedOf(t)' = ProcessedOf(t)
          BY <3>1, <3>3, <4>2
        <5>2. QED
          BY <5>1 DEF FactsMatch
      <4>3. QED
        BY <4>1, <4>2
    <3>8. FactsMatch'
      BY <3>7 DEF FactsMatch, FactMatches
    <3>9. QED
      BY <2>5, <3>8
  <2>8. QED
    BY <2>6, <2>7
<1>4. QED
  BY <1>1, <1>2, <1>3
     DEF Next, vars, SelectPending, Publish, MarkPublished, RelayFails, Recover, ReadNew,
         Discard, Ack, WorkerFails

(* The inductive invariant, on which every theorem below rests. *)
THEOREM Invariance == Spec => []IInv
<1>1. IInv /\ [Next]_vars => IInv'
  BY TypeNext, PublicationNext, ConsumptionNext, ProjectionNext DEF IInv
<1>2. QED
  BY <1>1, IInvInit, PTL DEF Spec

(* No committed event is ever lost between the outbox and the read model. *)
THEOREM NoEventLost == Spec => []NothingLost
<1>1. IInv => NothingLost
  <2> SUFFICES ASSUME IInv, NEW e \in outbox, Decodable(e),
                      e.id \notin processed, e.id \in published
               PROVE  \E p \in 1 .. Len(stream) : stream[p] = e /\ (p > cursor \/ p \in pending)
    BY DEF NothingLost
  <2>1. PICK p \in 1 .. Len(stream) : stream[p].id = e.id
    BY DEF IInv, PublicationInv, PublishedInStream
  <2>2. stream[p] = e
    BY <2>1 DEF IInv, PublicationInv, StreamFromOutbox, UniqueIds
  <2>3. p > cursor \/ p \in 1 .. cursor
    BY DEF IInv, TypeOK
  <2>4. p > cursor \/ p \in pending
    BY <2>2, <2>3 DEF IInv, ConsumptionInv, AckedOnlyWhenProcessed
  <2>5. QED
    BY <2>2, <2>4
<1>2. QED
  BY <1>1, Invariance, PTL

(* The read model depends on the set of projected events alone. *)
THEOREM OrderInsensitive == Spec => []ProjectionIsOrderInsensitive
<1>1. IInv => ProjectionIsOrderInsensitive
  <2> SUFFICES ASSUME IInv, NEW t \in Txs
               PROVE  /\ (fact[t] = NoFact) <=> (ProcessedOf(t) = {})
                      /\ fact[t] # NoFact =>
                           /\ (fact[t].deletedAt # 0) <=> (\E e \in ProcessedOf(t) : e.kind = "Deleted")
                           /\ fact[t].deletedAt = 0 =>
                                \E e \in ProcessedOf(t) :
                                  /\ e.category = fact[t].category
                                  /\ \A f \in ProcessedOf(t) : f.at <= e.at
    BY DEF ProjectionIsOrderInsensitive
  <2>1. FactMatches(fact[t], ProcessedOf(t))
    BY DEF IInv, ProjectionInv, FactsMatch
  <2>2. QED
    BY <2>1 DEF FactMatches
<1>2. QED
  BY <1>1, Invariance, PTL

-----------------------------------------------------------------------------
(* What _apply does to a row that exists. *)
LEMMA AppliedKeeps ==
  ASSUME NEW f \in Fact, NEW e \in Event
  PROVE  /\ Applied(f, e).lastAt >= f.lastAt
         /\ f.deletedAt # 0 => Applied(f, e) = f
<1>1. f # NoFact /\ f.lastAt \in Nat /\ e.at \in Nat
  BY NoFactAssumption DEF Fact, Event
<1>2. CASE f.deletedAt # 0
  BY <1>1, <1>2 DEF Applied
<1>3. CASE f.deletedAt = 0 /\ e.kind = "Deleted"
  <2>1. Applied(f, e).lastAt = IF e.at > f.lastAt THEN e.at ELSE f.lastAt
    BY <1>1, <1>3 DEF Applied, Fact
  <2>2. QED
    BY <1>1, <1>3, <2>1
<1>4. CASE f.deletedAt = 0 /\ e.kind # "Deleted"
  <2>1. Applied(f, e) = IF e.at < f.lastAt THEN f
                        ELSE [f EXCEPT !.category = e.category, !.lastAt = e.at]
    BY <1>1, <1>4 DEF Applied
  <2>2. QED
    BY <1>1, <1>4, <2>1 DEF Fact
<1>5. QED
  BY <1>2, <1>3, <1>4

(* A projected deletion is never undone and no row forgets how recent the *)
(* event was that it shows.                                               *)
THEOREM TombstonesStay == Spec => TombstonesAreFinal
<1> DEFINE Final(t) ==
      fact[t] # NoFact =>
        /\ fact'[t] # NoFact
        /\ fact'[t].lastAt >= fact[t].lastAt
        /\ fact[t].deletedAt # 0 => fact'[t] = fact[t]
<1>1. TypeOK /\ [Next]_vars => \A t \in Txs : Final(t)
  <2> SUFFICES ASSUME TypeOK, [Next]_vars, NEW t \in Txs PROVE Final(t)
    OBVIOUS
  <2>1. CASE UNCHANGED fact
    <3>1. fact[t] # NoFact => fact[t].lastAt \in Nat
      BY DEF TypeOK, Fact
    <3>2. QED
      BY <2>1, <3>1
  <2>2. ASSUME NEW w \in Workers, Project(w) PROVE Final(t)
    <3>1. PICK p \in batch[w] :
            fact' = IF stream[p].id \in processed THEN fact
                    ELSE [fact EXCEPT ![stream[p].tx] = Applied(@, stream[p])]
      BY <2>2 DEF Project
    <3>2. stream[p] \in Event /\ fact \in [Txs -> Fact \cup {NoFact}]
      BY EventsAssumption DEF TypeOK
    <3>3. CASE fact'[t] = fact[t]
      <4>1. fact[t] # NoFact => fact[t].lastAt \in Nat
        BY <3>2 DEF Fact
      <4>2. QED
        BY <3>3, <4>1
    <3>4. CASE fact'[t] = Applied(fact[t], stream[p]) /\ fact[t] # NoFact
      <4>1. fact[t] \in Fact
        BY <3>2, <3>4
      <4>2. Applied(fact[t], stream[p]) \in Fact
        BY <3>2, <4>1, AppliedType
      <4>3. QED
        BY <3>2, <3>4, <4>1, <4>2, AppliedKeeps, NoFactAssumption
    <3>5. fact'[t] = fact[t] \/ fact'[t] = Applied(fact[t], stream[p])
      BY <3>1, <3>2
    <3>6. QED
      BY <3>3, <3>4, <3>5
  <2>3. QED
    BY <2>1, <2>2
       DEF Next, vars, Record, SelectPending, Publish, MarkPublished, RelayFails, Recover,
           ReadNew, Discard, Ack, WorkerFails
<1>2. TypeOK /\ [Next]_vars => [\A t \in Txs : Final(t)]_vars
  BY <1>1
<1> HIDE DEF Final
<1>3. Spec => [][\A t \in Txs : Final(t)]_vars
  BY <1>2, TypeCorrect, PTL DEF Spec
<1>4. QED
  BY <1>3 DEF TombstonesAreFinal, Final

-----------------------------------------------------------------------------
(* The refinement.  What the read model shows of a transaction once an     *)
(* event is projected is one of the views ReadModel allows of the events   *)
(* projected so far, because the row matches them.                         *)
ShowsViews ==
  \A t \in Txs : ProcessedOf(t) # {} => Shown(t) \in Replica!Views(ProcessedOf(t))

(* The inductive invariant makes every row shown a view. *)
LEMMA ShownIsAView == IInv => ShowsViews
<1> SUFFICES ASSUME IInv, NEW t \in Txs, ProcessedOf(t) # {}
             PROVE  Shown(t) \in Replica!Views(ProcessedOf(t))
  BY DEF ShowsViews
<1>1. FactMatches(fact[t], ProcessedOf(t))
  BY DEF IInv, ProjectionInv, FactsMatch
<1>2. fact[t] # NoFact
  BY <1>1 DEF FactMatches
<1>3. CASE fact[t].deletedAt # 0
  BY <1>1, <1>2, <1>3 DEF FactMatches, Shown, Replica!Views
<1>4. CASE fact[t].deletedAt = 0
  <2>1. /\ ~(\E e \in ProcessedOf(t) : e.kind = "Deleted")
        /\ \A e \in ProcessedOf(t) : e.at <= fact[t].lastAt
    BY <1>1, <1>2, <1>4 DEF FactMatches
  <2>2. PICK e \in ProcessedOf(t) : e.at = fact[t].lastAt /\ e.category = fact[t].category
    BY <1>1, <1>2, <1>4 DEF FactMatches
  <2>3. e \in Replica!Newest(ProcessedOf(t))
    BY <2>1, <2>2 DEF Replica!Newest
  <2>4. Shown(t) = e.category
    BY <1>2, <1>4, <2>2 DEF Shown
  <2>5. QED
    BY <2>1, <2>3, <2>4 DEF Replica!Views
<1>5. QED
  BY <1>3, <1>4

(* Every step of the detailed system is a step of ReadModel or leaves it   *)
(* alone: committing a row is Commit, projecting a new event is Apply, and *)
(* everything the relays, the group and the acknowledgements do is         *)
(* invisible.                                                              *)
LEMMA StepRefines == IInv /\ ShowsViews' /\ [Next]_vars => [Replica!Next]_(Replica!vars)
<1> SUFFICES ASSUME IInv, ShowsViews', [Next]_vars PROVE [Replica!Next]_(Replica!vars)
  OBVIOUS
<1>1. CASE UNCHANGED <<outbox, processed, fact>>
  BY <1>1 DEF Replica!vars, Shown
<1>2. ASSUME NEW e \in Events, Record(e) PROVE Replica!Next
  BY <1>2 DEF Record, Replica!Next, Replica!Commit, Shown
<1>3. ASSUME NEW w \in Workers, Project(w) PROVE [Replica!Next]_(Replica!vars)
  <2>1. PICK p \in batch[w] :
          /\ Decodable(stream[p])
          /\ processed' = processed \cup {stream[p].id}
          /\ fact' = IF stream[p].id \in processed THEN fact
                     ELSE [fact EXCEPT ![stream[p].tx] = Applied(@, stream[p])]
    BY <1>3 DEF Project
  <2>2. outbox' = outbox
    BY <1>3 DEF Project
  <2>3. PICK e \in outbox : e = stream[p]
    BY DEF IInv, TypeOK, PublicationInv, StreamFromOutbox
  <2>4. e \in Events /\ e \in Event /\ e.tx \in Txs
    BY EventsAssumption DEF IInv, TypeOK, Event
  <2>5. CASE e.id \in processed
    <3>1. UNCHANGED <<outbox, processed, fact>>
      BY <2>1, <2>2, <2>3, <2>5
    <3>2. QED
      BY <1>1, <3>1
  <2>6. CASE e.id \notin processed
    <3>1. \A t \in Txs : ProcessedOf(t)' = ProcessedOf(t) \cup (IF t = e.tx THEN {e} ELSE {})
      BY <2>1, <2>2, <2>3 DEF ProcessedOf, IInv, PublicationInv, UniqueIds
    <3>2. \A t \in Txs : t # e.tx => Shown(t)' = Shown(t)
      BY <2>1, <2>3, <2>6 DEF Shown, IInv, TypeOK
    <3>3. ASSUME NEW t \in Txs, t = e.tx
          PROVE  Shown(t)' \in Replica!Views(ProcessedOf(t) \cup {e})
      <4>1. ProcessedOf(t)' = ProcessedOf(t) \cup {e}
        BY <3>1, <3>3
      <4>2. QED
        BY <4>1 DEF ShowsViews, Replica!Views, Replica!Newest
    <3>4. Replica!Apply(e)
      BY <2>1, <2>2, <2>3, <2>4, <2>6, <3>2, <3>3
         DEF Replica!Apply, Replica!AppliedOf, ProcessedOf, Decodable
    <3>5. QED
      BY <2>4, <3>4 DEF Replica!Next
  <2>7. QED
    BY <2>5, <2>6
<1>4. QED
  BY <1>1, <1>2, <1>3
     DEF Next, vars, SelectPending, Publish, MarkPublished, RelayFails, Recover, ReadNew,
         Discard, Ack, WorkerFails

(* The outbox, the relays, the stream and the workers implement a read      *)
(* model on which every committed event takes effect at most once.          *)
THEOREM Refinement == Spec => ImplementsReadModel
<1>1. Init => Replica!Init
  BY DEF Init, Replica!Init, Shown
<1>2. QED
  BY <1>1, StepRefines, ShownIsAView, Invariance, PTL DEF Spec, ImplementsReadModel, Replica!Spec
=============================================================================
