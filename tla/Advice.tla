-------------------------------- MODULE Advice --------------------------------
(***************************************************************************)
(* recommendation-service: the recommendations of a user, computed when     *)
(* they are read from what analytics-service answers (as an internal caller *)
(* of it, that is with everything PREMIUM sees) and from the risk profile.  *)
(***************************************************************************)
EXTENDS SpendingFigures, Investment

CONSTANTS
  SurplusMonths,     \* complete months before the current one
  DefaultCurrency,
  PesosPerDollar,    \* the rate of the day, in RateParts of a peso
  RateParts,         \* 100 for a rate with two decimals
  InverseQuantum,    \* its inverse is kept as a whole number of these parts of one
  NoProfile

(* The thresholds as they are shipped: the trend reaches back over the      *)
(* complete months and the current one, and the rounding of an average is   *)
(* less than what makes a spike.                                           *)
ASSUME AdviceAssumption ==
  /\ {PesosPerDollar, RateParts, InverseQuantum} \subseteq Nat \ {0}
  /\ SurplusMonths \in Nat \ {0} /\ SurplusMonths < TrendMonths
  /\ SpikePercent \in Nat \ {0} /\ SpikeMinimum \in Int
  /\ 2 * SpikePercent * SpikeMinimum > 100 + SpikePercent
  /\ \A C \in SUBSET {f.currency : f \in Candidates} :
       NoFigure \notin [C -> [Window(Today, TrendMonths) -> Int]]

Locks == {"none", "premium_required", "entitlements_unavailable"}

(* What the domain makes of the answers of analytics-service: its insights, *)
(* its patterns, and the net of every month in the trend of its dashboard.  *)
AnalyticsSnapshot(insights, patterns, dashboard) ==
  [insights |-> UNION {{<<c, i>> : i \in insights[c]} : c \in DOMAIN insights},
   patterns |-> patterns,
   nets |-> [c \in DOMAIN dashboard |->
              [m \in DOMAIN dashboard[c].trend |-> Net(dashboard[c].trend[m])]]]

(* HttpAnalyticsReader.snapshot *)
Snapshot(u) ==
  AnalyticsSnapshot(InsightsOf(u, Today), PatternsOf(u, Today), DashboardOf(u, Today, "premium"))

(* optimization_recommendations *)
Optimization(snapshot) ==
  {[code |-> "build_budget", currency |-> found[1], deficit |-> found[2].deficit]
    : found \in {found \in snapshot.insights : found[2].code = "negative_savings"}}
  \cup
  {[code |-> "reduce_category", currency |-> found[1], category |-> found[2].category,
    saving |-> found[2].current - found[2].average]
    : found \in {found \in snapshot.insights : found[2].code = "category_spike"}}
  \cup
  {[code |-> "review_recurring_expense", of |-> pattern.of,
    annual |-> HalfUp(pattern.average * pattern.frequency * 12, 100)]
    : pattern \in snapshot.patterns}

(* monthly_surpluses: per currency, a month without movements counts zero. *)
SurplusesIncludingCurrent(snapshot) ==
  LET currencies == IF DOMAIN snapshot.nets = {} THEN {DefaultCurrency} ELSE DOMAIN snapshot.nets
      net(c, m) == IF c \in DOMAIN snapshot.nets /\ m \in DOMAIN snapshot.nets[c]
                   THEN snapshot.nets[c][m] ELSE 0
  IN  [c \in currencies |->
        HalfUp(SumOver(Window(Today, SurplusMonths), LAMBDA m : net(c, m)), SurplusMonths)]

Surpluses(snapshot) ==
  LET currencies == IF DOMAIN snapshot.nets = {} THEN {DefaultCurrency} ELSE DOMAIN snapshot.nets
      net(c, m) == IF c \in DOMAIN snapshot.nets /\ m \in DOMAIN snapshot.nets[c]
                   THEN snapshot.nets[c][m] ELSE 0
  IN  [c \in currencies |->
        HalfUp(SumOver(Window(Today - 1, SurplusMonths), LAMBDA m : net(c, m)), SurplusMonths)]

(* investment_recommendations *)
Invest(type, currency, surplus) ==
  [code |-> "invest_by_risk_profile", currency |-> currency, surplus |-> surplus,
   instruments |-> InstrumentsFor(type)]

Saving(currency, surplus) ==
  [code |-> "build_emergency_fund", currency |-> currency, surplus |-> surplus, instruments |-> {}]

Investing(type, surpluses) ==
  IF type = NoProfile THEN {}
  ELSE {IF surpluses[c] <= 0 THEN Saving(c, surpluses[c]) ELSE Invest(type, c, surpluses[c])
        : c \in DOMAIN surpluses}

NoSnapshot == [insights |-> {}, patterns |-> {}, nets |-> NoFigure]

(* RecommendationService.recommendations, of the snapshot or without one.   *)
Recommendations(snapshot, type, lock) ==
  [degraded |-> snapshot = NoSnapshot,
   locked |-> lock # "none",
   optimization |-> Optimization(snapshot),
   investment |-> IF lock # "none" \/ type = NoProfile THEN {}
                  ELSE IF snapshot = NoSnapshot THEN {Invest(type, NoFigure, NoFigure)}
                  ELSE Investing(type, Surpluses(snapshot))]

(* Recommendation.money_entries *)
MoneyOf(item) ==
  CASE item.code = "build_budget" -> <<item.currency, item.deficit>>
    [] item.code = "reduce_category" -> <<item.currency, item.saving>>
    [] item.code = "review_recurring_expense" -> <<item.of[3], item.annual>>
    [] OTHER -> <<item.currency, item.surplus>>

(* ExchangeRate.convert, with the rate of the day or its inverse: the rate  *)
(* has decimals and Money rounds the product to cents.                     *)
Converted(money, target) ==
  CASE money[1] = target -> money
    [] <<money[1], target>> = <<"USD", "COP">> -> <<"COP", HalfUp(money[2] * PesosPerDollar, RateParts)>>
    [] <<money[1], target>> = <<"COP", "USD">> ->
         <<"USD", HalfUp(money[2] * HalfUp(InverseQuantum * RateParts, PesosPerDollar), InverseQuantum)>>

(* _display: the equivalent of each amount in the currency asked for.      *)
Display(items, target) ==
  {[of |-> item, shown |-> Converted(MoneyOf(item), target)]
    : item \in {item \in items : MoneyOf(item)[1] # NoFigure}}

-----------------------------------------------------------------------------
(* Of what a user is advised, with and without analytics-service, under a   *)
(* profile and a lock; free: what there is without the lock.               *)
Follows(u, type, lock, advice, degraded, free) ==
  LET of(c) == {f \in MineOf(u) : f.currency = c}
      complete(c) == {f \in of(c) : f.month \in Window(Today - 1, SurplusMonths)}
      currencies == {f.currency : f \in MineOf(u)} \cup {DefaultCurrency}
  IN  /\ \A item \in advice.investment :
           /\ item.currency \in currencies
           /\ item.code = "invest_by_risk_profile" =>
                Net(TotalsOf(complete(item.currency))) > 0 /\ item.instruments = InstrumentsFor(type)
           /\ item.code = "build_emergency_fund" =>
                2 * Net(TotalsOf(complete(item.currency))) < SurplusMonths
      /\ \A c \in currencies :
           (\E item \in advice.optimization : item.code = "build_budget" /\ item.currency = c)
             <=> Net(TotalsOf(In(of(c), Today))) < 0
      /\ \A item \in advice.optimization : item.code = "reduce_category" => item.saving > 0
      /\ advice.optimization = free.optimization
      /\ lock # "none" => advice.investment \cup degraded.investment = {}
      /\ (lock = "none" /\ type # NoProfile) =>
           /\ \A c \in currencies : complete(c) # {} =>
                \E item \in advice.investment : item.currency = c
           /\ degraded.investment # {}

(* In RateParts of a peso, at the rate of the day. *)
Worth(money) == money[2] * (IF money[1] = "USD" THEN PesosPerDollar ELSE RateParts)

(* An amount is shown in the currency asked for and is worth what it stands *)
(* for to half a cent of that currency; in dollars, as near to that as the *)
(* decimals of the inverse of the rate allow for an amount that large.     *)
ShownTruly(entry, target) ==
  LET own == MoneyOf(entry.of)
      large == IF own[2] < 0 THEN -own[2] ELSE own[2]
      most == InverseQuantum * Worth(<<target, 1>>)
                + (IF target = "USD" THEN PesosPerDollar * large ELSE 0)
  IN  /\ entry.shown[1] = target
      /\ 2 * InverseQuantum * (Worth(entry.shown) - Worth(own)) \in -most .. most

(* What is advised follows from all the facts of the user, wherever the     *)
(* windows of the two services fall: investing only out of a surplus of     *)
(* the complete months, in a currency the user has, in instruments of the   *)
(* profile, and whatever the current month holds; a budget exactly when     *)
(* this month spends more than it earns; a saving that frees something;    *)
(* nothing premium behind a lock, and the free part is the same with it;    *)
(* and the equivalent shown of an amount is true.                          *)
AdviceFollowsFacts ==
  \A u \in Users, type \in ProfileTypes \cup {NoProfile}, lock \in Locks :
    LET advice == Recommendations(Snapshot(u), type, lock) IN
    /\ Follows(u, type, lock, advice,
               Recommendations(NoSnapshot, type, lock), Recommendations(Snapshot(u), type, "none"))
    /\ \A target \in {"COP", "USD"} :
         \A entry \in Display(advice.optimization \cup advice.investment, target) :
           MoneyOf(entry.of)[1] \in {"COP", "USD"} => ShownTruly(entry, target)
=============================================================================
