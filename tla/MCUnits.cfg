CONSTANTS
  s1 = s1
  s2 = s2
  c1 = c1
  c2 = c2
  Candidates <- MCCandidates
  Today = 7
  TrendMonths = 6
  SpikePercent = 30
  SpikeMinimum = 5
  SpikeLookback = 3
  PatternWindow = 6
  PatternMinimum = 3
  PatternPercent = 10
  PublicMinimum = 3
  FreeMonths = 3
  NoFigure = NoFigure
  Questions = {1, 2, 3, 4, 5}
  MonthlyRate <- MCRate
  MaxHorizon = 3
  RateScale = 100
  SurplusMonths = 3
  DefaultCurrency = "COP"
  PesosPerDollar = 37
  RateParts = 10
  InverseQuantum = 10000
  NoProfile = NoProfile
  Savers = {s1, s2}
  Submissions <- MCSubmissions
  Wanted <- MCWanted
  MaxPlans = 1
  NoRow = NoRow
  AtRest = AtRest
  Catalog <- MCCatalog
  Keywords <- MCKeywords
  Fallback <- MCFallback
  LocalKeywords <- MCKeywords
  LocalFallback <- MCFallback
  Failing = Failing
  Names = {"savings", "card", "", "long"}
  Length <- MCLength
  MaxLength = 120
  Currencies = {"COP", "cop", "pesos"}
  Largest = 30
  CodeOf <- MCCodeOf
  Balances <- MCBalances
  Amounts = {0, 15, 20}
  Descriptions <- MCDescriptions
  Chosen = {Blank, "meals", "salary", "travel"}
  Providers = {"RULE", "AI", "MOCK", "OOPS"}
  Replies <- MCReplies
  Strange <- MCStrange
  MaxAccounts = 2
  MaxMovements = 1
  Blank = Blank
  Nobody = Nobody
  Callers = {c1, c2}
  Typed = {"ana", "Ana"}
  EmailOf <- MCEmailOf
  Passwords = {"weak", "p1", "p2"}
  Strong = {"p1", "p2"}
  Edits <- MCEdits
  ProfileDefaults <- MCDefaults
  NoUser = NoUser
  Waiting = Waiting
INIT Init
NEXT Next
INVARIANTS
  LoadedFactsSuffice
  ViewsAgree
  HiddenMonthsStayHidden
  AdviceFollowsFacts
  RegistrationsAreTruthful
PROPERTIES
  PlansStand
  UpdatesDoNotOverwrite
CHECK_DEADLOCK FALSE
