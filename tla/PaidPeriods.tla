------------------------------ MODULE PaidPeriods ------------------------------
(***************************************************************************)
(* What subscription-service promises the services that ask it: which      *)
(* periods a user has paid.  They never overlap, none starts in the        *)
(* future, and nothing takes one back.  Subscription implements it.        *)
(***************************************************************************)
EXTENDS Naturals

CONSTANTS
  Payers,
  PaidFor,     \* length of a paid period
  LastInstant  \* bound of the model on the clock

ASSUME PaidAssumption == PaidFor \in Nat \ {0} /\ LastInstant \in Nat

VARIABLES
  instant,  \* the clock
  paid      \* paid[u]: the periods u has paid, each with its start and end

paidVars == <<instant, paid>>

InitPaid == instant = 0 /\ paid = [u \in Payers |-> {}]

(* confirm_payment: a renewal starts when the earlier periods are over.    *)
(* The request reads its clock before it waits for the rows, so a period   *)
(* may be known later than it starts, even after its end.                  *)
Pay(u) ==
  /\ \E start \in 0 .. instant :
       /\ \A p \in paid[u] : p.end <= start
       /\ paid' = [paid EXCEPT ![u] = @ \cup {[start |-> start, end |-> start + PaidFor]}]
  /\ UNCHANGED instant

InstantPasses ==
  /\ instant < LastInstant
  /\ instant' = instant + 1
  /\ UNCHANGED paid

NextPaid == InstantPasses \/ \E u \in Payers : Pay(u)

SpecPaid == InitPaid /\ [][NextPaid]_paidVars
=============================================================================
