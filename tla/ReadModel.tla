------------------------------ MODULE ReadModel ------------------------------
(***************************************************************************)
(* What analytics-service promises about finance-service's transactions,   *)
(* without outbox, stream, crashes or duplicates: every committed event is *)
(* applied at most once, in any order, and what the read model shows of a  *)
(* transaction is determined by the set of its applied events.             *)
(***************************************************************************)
EXTENDS Naturals

CONSTANTS
  Txs,      \* transactions
  Events,   \* events the producers may commit
  NoFact,   \* the read model does not know the transaction
  Gone      \* the transaction is deleted

VARIABLES
  log,      \* committed events
  applied,  \* ids of the applied ones
  shown     \* shown[t]: a category, NoFact or Gone

vars == <<log, applied, shown>>

Init ==
  /\ log = {}
  /\ applied = {}
  /\ shown = [t \in Txs |-> NoFact]

Newest(S) == {e \in S : \A f \in S : f.at <= e.at}

(* What a non-empty set of events lets the read model show. A deletion     *)
(* wins over everything, before or after it.                               *)
Views(S) ==
  IF \E e \in S : e.kind = "Deleted" THEN {Gone} ELSE {e.category : e \in Newest(S)}

Commit(e) ==
  /\ \A f \in log : f.id # e.id
  /\ log' = log \cup {e}
  /\ UNCHANGED <<applied, shown>>

AppliedOf(t) == {e \in log : e.tx = t /\ e.id \in applied}

Apply(e) ==
  /\ e \in log
  /\ e.kind # "Unknown"
  /\ e.id \notin applied
  /\ applied' = applied \cup {e.id}
  /\ \E view \in Views(AppliedOf(e.tx) \cup {e}) : shown' = [shown EXCEPT ![e.tx] = view]
  /\ UNCHANGED log

Next == \E e \in Events : Commit(e) \/ Apply(e)

Spec == Init /\ [][Next]_vars
=============================================================================
