------------------------------ MODULE Investment ------------------------------
(***************************************************************************)
(* recommendation-service: the rules of investing.  The questionnaire and   *)
(* the profile it gives, the kinds of instrument advised to each profile,   *)
(* what makes a plan valid and what a plan is projected to be worth.        *)
(***************************************************************************)
EXTENDS Integers, FiniteSetsExt

CONSTANTS
  Questions,      \* the questions of the questionnaire
  MonthlyRate,    \* of each profile: a twelfth of its illustrative annual rate
  RateScale,      \* the unit of that rate: 100 for whole percents
  MaxHorizon      \* months

ProfileTypes == {"conservative", "moderate", "aggressive"}

ASSUME InvestmentAssumption ==
  MonthlyRate \in [ProfileTypes -> Nat] /\ RateScale \in Nat \ {0} /\ MaxHorizon \in Nat

Instruments == {"cdt", "liquidity_fund", "collective_investment_fund", "etf", "stocks"}

(* RiskProfile.from_answers: every question, each worth 1 to 3. *)
ValidAnswers(answers) ==
  Questions \subseteq DOMAIN answers /\ \A q \in Questions : answers[q] \in 1 .. 3

Score(answers) == MapThenSumSet(LAMBDA q : answers[q], Questions)

ProfileTypeOf(answers) ==
  CASE Score(answers) <= 8 -> "conservative"
    [] Score(answers) \in 9 .. 11 -> "moderate"
    [] OTHER -> "aggressive"

InstrumentsFor(type) ==
  CASE type = "conservative" -> {"cdt", "liquidity_fund"}
    [] type = "moderate" -> {"collective_investment_fund"}
    [] type = "aggressive" -> {"etf", "stocks"}

(* build_plan *)
ValidPlan(instrument, type, contribution, horizon) ==
  /\ contribution > 0
  /\ horizon \in 1 .. MaxHorizon
  /\ instrument \in InstrumentsFor(type)

Powers(base) ==
  LET power[n \in Nat] == IF n = 0 THEN 1 ELSE base * power[n - 1]
  IN  power

(* project: contributions at the end of each month, compounded monthly.    *)
(* The value has the closed form c * ((1 + r)^n - 1) / r, rounded once.     *)
Projection(contribution, horizon, rate) ==
  LET grown == contribution * (Powers(RateScale + rate)[horizon] - Powers(RateScale)[horizon])
      scale == rate * Powers(RateScale)[horizon - 1]
  IN  [total |-> contribution * horizon,
       value |-> IF rate = 0 THEN contribution * horizon ELSE (2 * grown + scale) \div (2 * scale)]
=============================================================================
