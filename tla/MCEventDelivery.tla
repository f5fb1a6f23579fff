--------------------------- MODULE MCEventDelivery ---------------------------
(* Instances of EventDelivery for TLC: two events of one transaction, with *)
(* identities allocated out of the order of their instants.                *)
EXTENDS EventDelivery

CONSTANTS t1, a, b

ev(id, kind, at, category) ==
  [id |-> id, tx |-> t1, kind |-> kind, at |-> at, category |-> category]

(* Identity 3 is given to one of three events: a change older than that of *)
(* identity 2, a deletion, or a message outside the contract.              *)
MCEvents ==
  {ev(2, "Categorized", 4, b), ev(3, "Categorized", 1, a),
   ev(3, "Deleted", 3, a), ev(3, "Unknown", 3, a)}
=============================================================================
