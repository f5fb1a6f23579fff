----------------------------- MODULE RiskProfiles -----------------------------
(***************************************************************************)
(* recommendation-service: the risk profile of one user and the investment  *)
(* plans the user keeps.  Requests run at READ COMMITTED: what one has      *)
(* read may have changed when it writes.                                   *)
(***************************************************************************)
EXTENDS Investment, FiniteSets

CONSTANTS
  Savers,           \* requests of the user that may be open at once
  Submissions,      \* questionnaires the user may send
  Wanted,           \* plans the user may ask for: [instrument, contribution, horizon]
  MaxPlans,
  NoRow, AtRest

ASSUME PlansAssumption ==
  \A want \in Wanted : want.contribution \in Int /\ want.horizon \in Int

VARIABLES
  profileRow,   \* the row of risk_profile, NoRow until one is inserted
  saver,        \* what each open request has read and is about to write
  kept          \* rows of investment_plan

riskVars == <<profileRow, saver, kept>>

InitRisk == profileRow = NoRow /\ saver = [s \in Savers |-> AtRest] /\ kept = {}

Settle(s) == saver' = [saver EXCEPT ![s] = AtRest]

(* RiskProfileService.save: the row is read.  *)
BeginSave(s, answers) ==
  /\ saver[s] = AtRest
  /\ ValidAnswers(answers)
  /\ saver' = [saver EXCEPT ![s] = [op |-> "save", read |-> profileRow, answers |-> answers]]
  /\ UNCHANGED <<profileRow, kept>>

(* and the commit: an insert, refused by the primary key if the row is there *)
(* by now, or an update of the columns that differ from the copy read.      *)
EndSave(s) ==
  /\ saver[s] # AtRest /\ saver[s].op = "save"
  /\ LET read == saver[s].read
         answers == saver[s].answers
     IN  profileRow' =
           IF read = NoRow THEN IF profileRow = NoRow THEN answers ELSE profileRow
           ELSE [q \in Questions |-> IF answers[q] # read[q] THEN answers[q] ELSE profileRow[q]]
  /\ Settle(s)
  /\ UNCHANGED kept

(* InvestmentPlanService.create: no profile, or an invalid plan, is refused. *)
BeginPlan(s, want) ==
  /\ saver[s] = AtRest
  /\ profileRow # NoRow
  /\ ValidPlan(want.instrument, ProfileTypeOf(profileRow), want.contribution, want.horizon)
  /\ saver' = [saver EXCEPT ![s] = [op |-> "plan", want |-> want, type |-> ProfileTypeOf(profileRow)]]
  /\ UNCHANGED <<profileRow, kept>>

EndPlan(s) ==
  /\ saver[s] # AtRest /\ saver[s].op = "plan"
  /\ \E id \in (1 .. MaxPlans) \ {p.id : p \in kept} :
       kept' = kept \cup {[id |-> id, want |-> saver[s].want, type |-> saver[s].type]}
  /\ Settle(s)
  /\ UNCHANGED profileRow

DeletePlan(p) ==
  /\ p \in kept
  /\ kept' = kept \ {p}
  /\ UNCHANGED <<profileRow, saver>>

NextRisk ==
  \/ \E s \in Savers :
       \/ \E answers \in Submissions : BeginSave(s, answers)
       \/ EndSave(s)
       \/ \E want \in Wanted : BeginPlan(s, want)
       \/ EndPlan(s)
  \/ \E p \in kept : DeletePlan(p)

SpecRisk == InitRisk /\ [][NextRisk]_riskVars

-----------------------------------------------------------------------------
(* InvestmentPlanService._view: the projection shown with a plan. *)
ViewAtCurrentProfile(p) ==
  Projection(p.want.contribution, p.want.horizon, MonthlyRate[ProfileTypeOf(profileRow)])

View(p) == Projection(p.want.contribution, p.want.horizon, MonthlyRate[p.type])

(* The same by the book: a balance that, month after month, earns the rate  *)
(* and receives the contribution.  After n months it is saved[n] over the  *)
(* power n - 1 of RateScale.                                               *)
Saved(contribution, rate) ==
  LET saved[n \in Nat] ==
        IF n = 0 THEN 0 ELSE (RateScale + rate) * saved[n - 1] + contribution * Powers(RateScale)[n - 1]
  IN  saved

MonthByMonth(p) ==
  LET scale == Powers(RateScale)[p.want.horizon - 1]
      saved == Saved(p.want.contribution, MonthlyRate[p.type])[p.want.horizon]
  IN  (2 * saved + scale) \div (2 * scale)

(* investment_plan.py:3, "para que su proyeccion no cambie si el usuario    *)
(* responde de nuevo el cuestionario": every plan kept is of an instrument  *)
(* that fits the profile it was made under, is worth what saving month by   *)
(* month would give, and no later questionnaire, however it is interleaved  *)
(* with the plan's creation, moves its projection.                         *)
PlansStand ==
  [][/\ \A p \in kept' :
          /\ p.want.instrument \in InstrumentsFor(p.type)
          /\ View(p)'.value = MonthByMonth(p)
          /\ View(p)'.value >= View(p)'.total
     /\ \A p \in kept \cap kept' : View(p)' = View(p)]_riskVars
=============================================================================
