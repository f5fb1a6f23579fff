---------------------------- MODULE FinancePipeline ----------------------------
(***************************************************************************)
(* From a user's request to the read model: FinanceLedger is the producer  *)
(* of the events, and what relays, stream and workers do with them is      *)
(* ReadModel, which EventDelivery implements.  The question is whether,    *)
(* once every event is projected, analytics-service shows what             *)
(* finance-service has.                                                    *)
(***************************************************************************)
EXTENDS FinanceLedger

CONSTANTS NoFact, Gone

ASSUME ShownAssumption == {NoFact, Gone} \cap Categories = {} /\ NoFact # Gone

VARIABLES
  applied,   \* ids of the projected events
  shown,     \* shown[t]: what transaction_fact says of the transaction
  contested  \* history: recategorised by two requests at the same time

pipelineVars == <<vars, applied, shown, contested>>

(* The events a ledger bounded by MaxStamps can record. *)
Recordable ==
  [id : 1 .. MaxStamps, tx : Txs, account : Accounts,
   kind : {"Added", "Categorized", "Deleted"}, at : 1 .. MaxStamps, category : Categories]

Replica == INSTANCE ReadModel WITH log <- outbox, Events <- Recordable

InitPipeline ==
  /\ Init
  /\ applied = {}
  /\ shown = [t \in Txs |-> NoFact]
  /\ contested = {}

(* Another request is recategorising the transaction s has just read. *)
Contested(s) ==
  IF /\ job'[s] # NoJob /\ job'[s].op = "recategorize"
     /\ \E o \in Sessions \ {s} :
          job[o] # NoJob /\ job[o].op = "recategorize" /\ job[o].tx = job'[s].tx
  THEN {job'[s].tx} ELSE {}

LedgerStep ==
  /\ Next
  /\ contested' = contested \cup UNION {Contested(s) : s \in Sessions}
  /\ UNCHANGED <<applied, shown>>

Project ==
  /\ \E e \in outbox : Replica!Apply(e)
  /\ UNCHANGED <<account, movement, lock, job, clock, nextId, drift, contested>>

NextPipeline == LedgerStep \/ Project

SpecPipeline == InitPipeline /\ [][NextPipeline]_pipelineVars

-----------------------------------------------------------------------------
Quiescent ==
  /\ \A s \in Sessions : job[s] = NoJob
  /\ \A e \in outbox : e.id \in applied

(* What finance-service answers about the transaction. *)
Truth(t) ==
  IF movement[t] # NoMovement THEN movement[t].category
  ELSE IF \E e \in outbox : e.tx = t THEN Gone ELSE NoFact

(* Eventual consistency (ADR-15): with no request running and every event  *)
(* projected, in whatever order, the read model shows what the ledger has, *)
(* unless two requests recategorised the transaction at the same time.     *)
ReadModelConverges ==
  Quiescent => \A t \in Txs \ contested : shown[t] = Truth(t)

(* A transaction gone from the ledger is never shown with a category again  *)
(* once its deletion is projected, though a recategorisation that raced    *)
(* the deletion may commit its event, or have it projected, later.         *)
NothingResurrected ==
  [][\A t \in Txs : shown[t] = Gone => shown'[t] = Gone]_pipelineVars

(* finance-service is a producer as EventDelivery and ReadModel assume:    *)
(* one event at a time, under an identity no other event has.              *)
ImplementsReadModel == Replica!Spec

-----------------------------------------------------------------------------
(* ARCHITECTURE.md:2135 and :460 promise eventual consistency without      *)
(* exception.                                                              *)
ReadModelAlwaysConverges == Quiescent => \A t \in Txs : shown[t] = Truth(t)
=============================================================================
