---------------------------- MODULE SpendingFigures ----------------------------
(***************************************************************************)
(* analytics-service: what is computed when it is read.  The dashboard,    *)
(* the insights, the recurring expenses and the monthly report of a user,  *)
(* and the public summary, from the facts of the read model.  A period is  *)
(* the number of its month, an amount a number of cents, and a category or *)
(* a description its place in alphabetical order, 0 if there is none.      *)
(***************************************************************************)
EXTENDS Integers, FiniteSets, FiniteSetsExt, SequencesExt

CONSTANTS
  Candidates,        \* transactions the read model may come to hold
  Today,             \* the month it is
  TrendMonths, SpikePercent, SpikeMinimum, SpikeLookback,
  PatternWindow, PatternMinimum, PatternPercent, PublicMinimum,
  FreeMonths,        \* months a FREE user sees, the current one included
  NoFigure

VARIABLE facts   \* rows of transaction_fact that are not deleted

(* The columns of transaction_fact, and windows of whole months. *)
ASSUME FiguresAssumption ==
  /\ IsFiniteSet(Candidates)
  /\ \A f \in Candidates : f.month \in Int /\ f.amount \in Int /\ f.kind \in {"expense", "income"}
  /\ Today \in Int /\ NoFigure \notin Int
  /\ {TrendMonths, SpikeLookback, PatternWindow, PatternMinimum, FreeMonths} \subseteq Nat \ {0}

Users == {f.user : f \in Candidates}

(* The history of a dashboard request goes as far back as the facts do. *)
Periods == LET first == Min({f.month : f \in Candidates}) IN first .. Today

-----------------------------------------------------------------------------
(* Decimal.quantize: away from zero on a tie, or to the even neighbour. *)
Magnitude(n, d) == (2 * n + d) \div (2 * d)

HalfUp(n, d) == IF n < 0 THEN -Magnitude(-n, d) ELSE Magnitude(n, d)

HalfEven(n, d) ==
  LET up == Magnitude(n, d) IN IF (2 * n) % (2 * d) = d /\ up % 2 = 1 THEN up - 1 ELSE up

SumOver(S, value(_)) == SumFunctionOnSet([x \in S |-> value(x)], S)

SumOf(F) == SumOver(F, LAMBDA f : f.amount)

Expenses(F) == {f \in F : f.kind = "expense"}
In(F, p) == {f \in F : f.month = p}

TotalsOf(F) == [income |-> SumOf(F \ Expenses(F)), expense |-> SumOf(Expenses(F))]

Net(totals) == totals.income - totals.expense

(* In ten thousandths. *)
Share(part, whole) == IF whole = 0 THEN 0 ELSE HalfEven(10000 * part, whole)

SavingsRate(totals) ==
  IF totals.income = 0 THEN NoFigure ELSE HalfUp(10000 * Net(totals), totals.income)

(* In tenths of a percent. *)
ExpenseChange(current, before) ==
  IF before.expense = 0 THEN NoFigure
  ELSE HalfUp(1000 * (current.expense - before.expense), before.expense)

Window(p, size) == (p - size + 1) .. p

-----------------------------------------------------------------------------
(* Dashboard.build over the facts given.  earliest is the first month the   *)
(* user may see, NoFigure for all of them.                                 *)
Categories(F) ==
  LET totals == TotalsOf(F) IN
  {LET rows == {f \in F : f.kind = key[1] /\ f.category = key[2]}
       whole == IF key[1] = "expense" THEN totals.expense ELSE totals.income
   IN  [kind |-> key[1], category |-> key[2], total |-> SumOf(rows), share |-> Share(SumOf(rows), whole)]
   : key \in {<<f.kind, f.category>> : f \in F}}

SectionWithAllAccounts(F, p, window, compared) ==
  LET current == In(F, p)
      before == TotalsOf(In(F, p - 1))
  IN  [totals     |-> TotalsOf(current),
       savings    |-> SavingsRate(TotalsOf(current)),
       categories |-> Categories(current),
       accounts   |-> [a \in {f.account : f \in F} |-> TotalsOf({f \in F : f.account = a})],
       trend      |-> [m \in window |-> TotalsOf(In(F, m))],
       comparison |-> IF compared
                      THEN [totals |-> before, change |-> ExpenseChange(TotalsOf(current), before)]
                      ELSE NoFigure]

Section(F, p, window, compared) ==
  LET current == In(F, p)
      before == TotalsOf(In(F, p - 1))
  IN  [totals     |-> TotalsOf(current),
       savings    |-> SavingsRate(TotalsOf(current)),
       categories |-> Categories(current),
       accounts   |-> [a \in {f.account : f \in current} |-> TotalsOf({f \in current : f.account = a})],
       trend      |-> [m \in window |-> TotalsOf(In(F, m))],
       comparison |-> IF compared
                      THEN [totals |-> before, change |-> ExpenseChange(TotalsOf(current), before)]
                      ELSE NoFigure]

DashboardAlwaysCompared(p, F, months, earliest) ==
  LET window == Window(p, months)
      shown == {f \in F : f.month \in window}
      relevant == {f \in F : f.month \in window \/ f.month = p - 1}
  IN  [c \in {f.currency : f \in shown} |-> Section({f \in relevant : f.currency = c}, p, window, TRUE)]

Dashboard(p, F, months, earliest) ==
  LET window == Window(p, months)
      compared == earliest = NoFigure \/ p - 1 >= earliest
      shown == {f \in F : f.month \in window}
      relevant == {f \in F : f.month \in window \/ (compared /\ f.month = p - 1)}
  IN  [c \in {f.currency : f \in shown} |->
        Section({f \in relevant : f.currency = c}, p, window, compared)]

-----------------------------------------------------------------------------
(* detect_insights. *)
SpentOn(F, p, category) == SumOf({f \in Expenses(In(F, p)) : f.category = category})

Named(F, p) == {f.category : f \in Expenses(In(F, p))} \ {0}

NegativeSavings(F, p) ==
  LET totals == TotalsOf(In(F, p)) IN
  IF totals.expense <= totals.income THEN {}
  ELSE {[code |-> "negative_savings", totals |-> totals, deficit |-> -Net(totals)]}

Spikes(F, p) ==
  {[code |-> "category_spike", category |-> c, current |-> SpentOn(F, p, c),
    average |-> HalfUp(SumOver(Window(p - 1, SpikeLookback), LAMBDA m : SpentOn(F, m, c)),
                       SpikeLookback)]
   : c \in {c \in Named(F, p) :
       LET past == SumOver(Window(p - 1, SpikeLookback), LAMBDA m : SpentOn(F, m, c)) IN
       /\ past > 0
       /\ SpentOn(F, p, c) >= SpikeMinimum
       /\ 100 * SpikeLookback * SpentOn(F, p, c) >= (100 + SpikePercent) * past}}

(* The first by name of those with the largest total. *)
TopCategory(F, p) ==
  LET largest == {c \in Named(F, p) : \A d \in Named(F, p) : SpentOn(F, p, d) <= SpentOn(F, p, c)}
      whole == TotalsOf(In(F, p)).expense
  IN  IF largest = {} THEN {}
      ELSE {[code |-> "top_category", category |-> Min(largest),
             share |-> Share(SpentOn(F, p, Min(largest)), whole)]}

Insights(p, F) ==
  [c \in {f.currency : f \in In(F, p)} |->
    LET mine == {f \in F : f.currency = c} IN
    NegativeSavings(mine, p) \cup Spikes(mine, p) \cup TopCategory(mine, p)]

-----------------------------------------------------------------------------
(* detect_patterns.  The median is doubled to stay a whole number.         *)
DoubledMedian(F) ==
  LET sorted == SetToSortSeq(F, LAMBDA f, g : f.amount < g.amount)
      n == Len(sorted)
      middle == (n + 1) \div 2
  IN  IF n % 2 = 1 THEN 2 * sorted[middle].amount
      ELSE sorted[middle].amount + sorted[middle + 1].amount

Close(F) ==
  LET center == DoubledMedian(F) IN
  {f \in F : 100 * (2 * f.amount - center) \in (-PatternPercent * center) .. (PatternPercent * center)}

Recurring(p, F) ==
  LET candidates == {f \in Expenses(F) : f.description # 0 /\ f.month \in Window(p, PatternWindow)}
      groups == {{f \in candidates : <<f.description, f.category, f.currency>> = key}
                 : key \in {<<f.description, f.category, f.currency>> : f \in candidates}}
      MonthsOf(G) == {f.month : f \in G}
  IN  {[of |-> CHOOSE key \in {<<f.description, f.category, f.currency>> : f \in G} : TRUE,
        average |-> HalfUp(SumOf(Close(G)), Cardinality(Close(G))),
        months |-> Cardinality(MonthsOf(Close(G))),
        occurrences |-> Cardinality(Close(G)),
        frequency |-> HalfEven(100 * Cardinality(Close(G)), Cardinality(MonthsOf(Close(G)))),
        last |-> Max(MonthsOf(Close(G)))]
       : G \in {G \in groups : Cardinality(MonthsOf(Close(G))) >= PatternMinimum}}

-----------------------------------------------------------------------------
(* MonthlyReport.build: the movements of the month and, per currency, type  *)
(* and category, their total and their number.                             *)
Report(p, F) ==
  LET own == In(F, p)
      rows(key) == {f \in own : <<f.currency, f.kind, f.category>> = key}
  IN  [lines |-> own,
       summary |-> [key \in {<<f.currency, f.kind, f.category>> : f \in own} |->
                     [total |-> SumOf(rows(key)), count |-> Cardinality(rows(key))]]]

(* SpendingSummary.build: a row of fewer than PublicMinimum distinct users   *)
(* is left out.                                                            *)
SpendingSummary(spent) ==
  LET rows(key) == {f \in spent : <<f.category, f.currency>> = key}
      people(key) == Cardinality({f.user : f \in rows(key)})
  IN  {[key |-> key, users |-> people(key), total |-> SumOf(rows(key)),
        average |-> HalfUp(SumOf(rows(key)), people(key))]
       : key \in {key \in {<<f.category, f.currency>> : f \in spent} : people(key) >= PublicMinimum}}

(* PublicSummaryService.spending_summary: all users together.               *)
PublicSummary(p) == SpendingSummary(Expenses(In(facts, p)))

-----------------------------------------------------------------------------
(* load_facts and AnalyticsService: each figure reads the months it needs.  *)
Load(u, first, last) == {f \in facts : f.user = u /\ f.month \in first .. last}

FirstVisible == Today - FreeMonths + 1

LesserOf(a, b) == IF a <= b THEN a ELSE b

TrendOf(plan) == IF plan = "free" THEN LesserOf(TrendMonths, FreeMonths) ELSE TrendMonths

EarliestOf(plan) == IF plan = "free" THEN FirstVisible ELSE NoFigure

DashboardLoadingTrend(u, p, plan) ==
  Dashboard(p, Load(u, p - TrendOf(plan) + 2, p), TrendOf(plan), EarliestOf(plan))

DashboardOf(u, p, plan) ==
  LET first == LesserOf(p - TrendOf(plan) + 1, p - 1) IN
  Dashboard(p, Load(u, first, p), TrendOf(plan), EarliestOf(plan))

InsightsOf(u, p) == Insights(p, Load(u, p - SpikeLookback, p))

PatternsOf(u, p) == Recurring(p, Load(u, p - PatternWindow + 1, p))

ReportOf(u, p) == Report(p, Load(u, p, p))

-----------------------------------------------------------------------------
(* The events of the ledger: a transaction is added, and may be deleted. *)
InitFigures == facts = {}

Learn(f) == f \notin facts /\ facts' = facts \cup {f}

Forget(f) == f \in facts /\ facts' = facts \ {f}

NextFigures == \E f \in Candidates : Learn(f) \/ Forget(f)

SpecFigures == InitFigures /\ [][NextFigures]_facts

-----------------------------------------------------------------------------
MineOf(u) == {f \in facts : f.user = u}

Plans == {"free", "premium"}

(* What a plan may ask for: the gating refuses an older month to FREE. *)
MayAsk(p, plan) == plan = "premium" \/ p >= FirstVisible

(* Each figure reads a window of months and is the same as if it had read   *)
(* all of them: no window of a query is shorter than what its rule looks   *)
(* back at, whatever the plan.                                             *)
LoadedFactsSuffice ==
  \A u \in Users, p \in Periods :
    /\ \A plan \in Plans :
         MayAsk(p, plan) =>
           DashboardOf(u, p, plan) = Dashboard(p, MineOf(u), TrendOf(plan), EarliestOf(plan))
    /\ InsightsOf(u, p) = Insights(p, MineOf(u))
    /\ PatternsOf(u, p) = Recurring(p, MineOf(u))

(* The views of one user tell one story: the shares and the accounts of a   *)
(* month add up to its totals; a month is the same in its own dashboard,   *)
(* in the trend and in the comparison of a later one, and in the report;   *)
(* no other currency moves any of it; and a public row (ADR-13) is of at    *)
(* least PublicMinimum users and adds up what their dashboards show.        *)
Spent(u, p, key) ==
  LET dashboard == DashboardOf(u, p, "premium") IN
  IF key[2] \notin DOMAIN dashboard THEN {}
  ELSE {row \in dashboard[key[2]].categories : row.kind = "expense" /\ row.category = key[1]}

PublicRowsAgree(p) ==
  \A row \in PublicSummary(p) :
    /\ row.users = Cardinality({u \in Users : Spent(u, p, row.key) # {}})
    /\ row.users >= PublicMinimum
    /\ row.total = SumOver(UNION {{<<u, shown>> : shown \in Spent(u, p, row.key)} : u \in Users},
                          LAMBDA pair : pair[2].total)

ViewsAgree ==
  /\ \A p \in Periods : PublicRowsAgree(p)
  /\ \A u \in Users, p \in Periods :
    LET dashboard == DashboardOf(u, p, "premium")
        report == ReportOf(u, p).summary
    IN  \A c \in DOMAIN dashboard :
          LET section == dashboard[c]
              kind(k) == {row \in section.categories : row.kind = k}
              accounts == DOMAIN section.accounts
              alone == {f \in MineOf(u) : f.currency = c}
          IN  /\ SumOver(kind("expense"), LAMBDA row : row.total) = section.totals.expense
              /\ SumOver(kind("income"), LAMBDA row : row.total) = section.totals.income
              /\ SumOver(accounts, LAMBDA a : Net(section.accounts[a])) = Net(section.totals)
              /\ section.trend[p] = section.totals
              /\ section.comparison.totals = TotalsOf(In(alone, p - 1))
              /\ \A m \in DOMAIN section.trend \cap Periods :
                   LET then == DashboardOf(u, m, "premium") IN
                   section.trend[m] = IF c \in DOMAIN then THEN then[c].totals
                                      ELSE [income |-> 0, expense |-> 0]
              /\ \A row \in section.categories :
                   report[<<c, row.kind, row.category>>].total = row.total
              /\ section = Dashboard(p, alone, TrendMonths, NoFigure)[c]

(* INV-06: what FREE is shown of a visible month is what the facts of the   *)
(* window alone give, but for the months of the trend before the window:   *)
(* the trend goes FreeMonths back from the month asked for, and no further. *)
WithoutTrend(section) ==
  [totals |-> section.totals, savings |-> section.savings, categories |-> section.categories,
   accounts |-> section.accounts, comparison |-> section.comparison]

HiddenMonthsStayHidden ==
  \A u \in Users, p \in FirstVisible .. Today :
    LET asked == DashboardOf(u, p, "free")
        alone(c) == Section({f \in MineOf(u) : f.currency = c /\ f.month >= FirstVisible},
                            p, Window(p, TrendOf("free")), p > FirstVisible)
    IN  \A c \in DOMAIN asked :
          /\ WithoutTrend(asked[c]) = WithoutTrend(alone(c))
          /\ \A m \in DOMAIN asked[c].trend :
               /\ m > p - FreeMonths
               /\ m >= FirstVisible => asked[c].trend[m] = alone(c).trend[m]

-----------------------------------------------------------------------------
(* ARCHITECTURE.md:1003, "solo los ultimos 3 meses, incluido el actual":    *)
(* nor does the trend.                                                     *)
FreeSeesOnlyTheWindow ==
  \A u \in Users, p \in FirstVisible .. Today :
    DashboardOf(u, p, "free") =
      Dashboard(p, {f \in MineOf(u) : f.month >= FirstVisible}, TrendOf("free"), FirstVisible)
=============================================================================
