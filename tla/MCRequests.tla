------------------------------ MODULE MCRequests ------------------------------
(* Instances for TLC of parts of the system that share no state: a behaviour *)
(* moves one of them, and the instance has the behaviours of each.  The two  *)
(* commands of Maintenance run against the same requests, one at a time.     *)
EXTENDS Reports, PremiumAccess, ExchangeRates, Maintenance, MovementsPage

CONSTANTS u1, r1, r2, w1, w2, q1, q2, b1, b2, all, food

VARIABLE part

MCDeviations == {0, -3}

(* A part that does not move starts in one state. *)
Init ==
  /\ part \in {"reports", "access", "rates", "audit", "filling", "page"}
  /\ InitReports /\ InitAccess /\ InitRates
  /\ InitMaintenance
  /\ part \notin {"audit", "filling"} =>
       Consistent /\ \A e \in Kept : entries[e].label = "food"
  /\ InitPage
  /\ part # "page" => form.filter = all /\ \A f \in Filters : total[f] = 0

Next ==
  /\ UNCHANGED part
  /\ \/ part = "reports" /\ NextReports
        /\ UNCHANGED <<accessVars, rateVars, maintenanceVars, pageVars>>
     \/ part = "access" /\ NextAccess
        /\ UNCHANGED <<reportVars, rateVars, maintenanceVars, pageVars>>
     \/ part = "rates" /\ NextRates
        /\ UNCHANGED <<reportVars, accessVars, maintenanceVars, pageVars>>
     \/ part = "audit" /\ (NextRequest \/ NextAudit)
        /\ UNCHANGED <<reportVars, accessVars, rateVars, pageVars>>
     \/ part = "filling" /\ (NextRequest \/ NextBackfill)
        /\ UNCHANGED <<reportVars, accessVars, rateVars, pageVars>>
     \/ part = "page" /\ NextMovementsPage
        /\ UNCHANGED <<reportVars, accessVars, rateVars, maintenanceVars>>

Spec ==
  /\ Init
  /\ [][Next]_<<part, reportVars, accessVars, rateVars, maintenanceVars, pageVars>>
  /\ part = "reports" => ReportsFairness
=============================================================================
