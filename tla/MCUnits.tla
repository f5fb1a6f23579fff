-------------------------------- MODULE MCUnits --------------------------------
(* Instances for TLC of parts of the system that share no state: a behaviour *)
(* moves one of them, and the instance has the behaviours of each.           *)
EXTENDS Advice, RiskProfiles, Registration, Identity

CONSTANTS s1, s2, c1, c2

VARIABLE part

Fact(id, user, month, kind, category, amount) ==
  [id |-> id, user |-> user, month |-> month, kind |-> kind, category |-> category,
   amount |-> amount, currency |-> "COP", account |-> "a", description |-> category]

(* One user with seven months, two currencies and two accounts, and the     *)
(* expenses of two others in one category.                                  *)
MCCandidates ==
  {Fact(1, "u", 1, "expense", 1, 10), Fact(2, "u", 4, "expense", 1, 9),
   Fact(3, "u", 5, "expense", 1, 11), Fact(4, "u", 6, "income", 2, 14),
   Fact(5, "u", 7, "expense", 1, 15), Fact(6, "u", 7, "income", 2, 20),
   [Fact(7, "u", 5, "income", 2, 3) EXCEPT !.currency = "USD"],
   [Fact(8, "u", 7, "expense", 0, 5) EXCEPT !.account = "b"],
   Fact(9, "v", 7, "expense", 1, 4), Fact(10, "v", 7, "expense", 1, 6),
   Fact(11, "w", 7, "expense", 1, 2)}
MCRate == [conservative |-> 0, moderate |-> 1, aggressive |-> 3]

AllBut(first, rest) == [q \in Questions |-> IF q = 1 THEN first ELSE rest]
MCSubmissions == {AllBut(1, 1), AllBut(3, 2), AllBut(1, 2), AllBut(3, 3)}
MCWanted ==
  {[instrument |-> i, contribution |-> 199, horizon |-> 3] : i \in Instruments}
    \cup {[instrument |-> "cdt", contribution |-> 0, horizon |-> 3],
          [instrument |-> "etf", contribution |-> 5, horizon |-> 4]}

MCCatalog ==
  [c \in {"meals", "debt", "salary", "other_in", "other_out"} |->
     IF c \in {"salary", "other_in"} THEN "income" ELSE "expense"]
MCKeywords ==
  [expense |-> <<<<"meals", {"lunch"}>>, <<"debt", {"interest"}>>>>,
   income  |-> <<<<"salary", {"payroll", "interest"}>>>>]
MCFallback == [expense |-> "other_out", income |-> "other_in"]
MCStrange ==
  {Suggestion("meals", 75, "manual"), Suggestion("travel", 75, "rule"),
   Suggestion("salary", 90, "ai"), Suggestion("meals", 120, "ai")}
MCReplies == {Reply("meals", 120), Reply("travel", 50)}
MCDescriptions == {{}, {"lunch", "interest"}}
MCBalances == {-10, 15, 20}
MCLength == [n \in Names |-> CASE n = "" -> 0 [] n = "long" -> 121 [] OTHER -> 4]
MCCodeOf ==
  [c \in {"COP", "cop", "USD", "usd", "pesos"} |->
     CASE c \in {"COP", "cop"} -> "COP" [] c \in {"USD", "usd"} -> "USD" [] OTHER -> ""]

MCEmailOf == [t \in Typed |-> "ana"]
MCDefaults ==
  [display_name |-> "Ana", language |-> "es", preferred_currency |-> "COP"]
MCEdits ==
  {[display_name |-> "Anita"], [display_name |-> ""], [language |-> "es"],
   [preferred_currency |-> "usd", language |-> "en"], [preferred_currency |-> "pesos"]}

-----------------------------------------------------------------------------
Init ==
  /\ part \in {"figures", "plans", "registration", "identity"}
  /\ InitFigures /\ InitRisk /\ InitRegistration /\ InitIdentity

Next ==
  /\ UNCHANGED part
  /\ \/ part = "figures" /\ NextFigures
        /\ UNCHANGED <<riskVars, registrationVars, identityVars>>
     \/ part = "plans" /\ NextRisk
        /\ UNCHANGED <<facts, registrationVars, identityVars>>
     \/ part = "registration" /\ NextRegistration
        /\ UNCHANGED <<facts, riskVars, identityVars>>
     \/ part = "identity" /\ NextIdentity
        /\ UNCHANGED <<facts, riskVars, registrationVars>>
=============================================================================
