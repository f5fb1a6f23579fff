---------------------------- MODULE Categorization ----------------------------
(***************************************************************************)
(* How a transaction gets its category: the rules that look for words in    *)
(* its description, the categorizers of categorization-service, and the     *)
(* client with which finance-service asks for a suggestion and does without *)
(* it.  A description is the set of the keywords that occur in it; a        *)
(* confidence is a percentage.                                             *)
(***************************************************************************)
EXTENDS Integers, Sequences

CONSTANTS
  Catalog,      \* Catalog[name]: the type of transaction the category applies to
  Keywords,     \* Keywords[type]: its rules in order, <<category, words>>
  Fallback,     \* Fallback[type]: the category when no rule matches
  LocalKeywords, LocalFallback,  \* those of the copy finance-service keeps (D-13)
  Failing       \* no answer: a timeout, an error of the network or of the service

Types == {"income", "expense"}

(* CategorySuggestion *)
Suggestion(category, confidence, source) ==
  [category |-> category, confidence |-> confidence, source |-> source]

(* The rules finance-service falls back on know its own catalogue. *)
ASSUME LocalRulesAssumption ==
  \A type \in Types : LET rules == LocalKeywords[type] IN
    /\ DOMAIN rules \subseteq Nat
    /\ \A category \in {LocalFallback[type]} \cup {rules[i][1] : i \in DOMAIN rules} :
         category \in DOMAIN Catalog /\ Catalog[category] = type

(* RuleBasedCategorizer: the first rule one of whose words occurs.         *)
FirstRule(rules, fallback, words) ==
  LET matching == {i \in DOMAIN rules : rules[i][2] \cap words # {}}
  IN  IF matching = {} THEN Suggestion(fallback, 20, "rule")
      ELSE LET first == CHOOSE i \in matching : \A j \in matching : i <= j
           IN  Suggestion(rules[first][1], 75, "rule")

ByRules(words, type) == FirstRule(Keywords[type], Fallback[type], words)

LocalRules(words, type) == FirstRule(LocalKeywords[type], LocalFallback[type], words)

(* What the client of a provider answers. *)
Reply(category, confidence) == [category |-> category, confidence |-> confidence]

Known == {Fallback[type] : type \in Types}
         \cup UNION {{Keywords[type][i][1] : i \in DOMAIN Keywords[type]} : type \in Types}

(* AICategorizer: no client, one that fails and one that answers a category *)
(* nobody knows all end in the rules; a confidence out of range is clamped. *)
ByAI(words, type, reply) ==
  IF reply = Failing \/ reply.category \notin Known THEN ByRules(words, type)
  ELSE Suggestion(reply.category,
                  CASE reply.confidence < 0 -> 0 [] reply.confidence > 100 -> 100
                    [] OTHER -> reply.confidence, "ai")

(* MockCategorizer as the factory builds it. *)
ByMock(type) == Suggestion(Fallback[type], 100, "mock")

(* CategorizerFactory and CategorizationService.suggest: the answer of the   *)
(* service under each configuration; an unknown provider answers an error.  *)
Suggested(provider, words, type) ==
  CASE provider = "RULE" -> ByRules(words, type)
    [] provider = "AI" -> ByAI(words, type, Failing)
    [] provider = "MOCK" -> ByMock(type)
    [] OTHER -> Failing

UncheckedRemote(words, type, answer) ==
  IF answer = Failing \/ answer.source \notin {"rule", "mock", "ai"} THEN LocalRules(words, type)
  ELSE answer

(* RemoteCategorizer: a failure, a source the service cannot have, and a    *)
(* category the catalogue does not have for the type end in local rules.   *)
ByRemote(words, type, answer) ==
  IF \/ answer = Failing
     \/ answer.source \notin {"rule", "mock", "ai"}
     \/ answer.confidence \notin 0 .. 100
     \/ answer.category \notin DOMAIN Catalog
     \/ Catalog[answer.category] # type
  THEN LocalRules(words, type)
  ELSE answer
=============================================================================
