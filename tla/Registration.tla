----------------------------- MODULE Registration -----------------------------
(***************************************************************************)
(* finance-service: what makes an account and a transaction valid.  The     *)
(* accounts of one user and their transactions, as the builders, the        *)
(* category catalogue and the constraints of the tables let them be.  How   *)
(* concurrent requests share the rows is the subject of FinanceLedger.      *)
(***************************************************************************)
EXTENDS Categorization, Amounts, FiniteSets, FiniteSetsExt

CONSTANTS
  Names,          \* names users type for their accounts
  Length,         \* Length[name]: its letters, without the blanks around it
  MaxLength,
  Currencies,     \* codes as they are typed
  Balances,       \* opening balances users ask for
  Amounts,
  Descriptions,
  Chosen,         \* categories users name, Blank among them
  Providers,      \* values of CATEGORIZER_PROVIDER
  Replies,        \* of the client of an AI provider, once there is one
  Strange,        \* answers outside the contract of the suggestions
  MaxAccounts, MaxMovements,
  Blank, Nobody

VARIABLES
  accountRows,    \* rows of finance_account
  movementRows    \* rows of finance_transaction

registrationVars == <<accountRows, movementRows>>

(* Amounts are whole thousandths; a code in capitals stays what it is; and  *)
(* no category is missing by name.                                         *)
ASSUME RegistrationAssumption ==
  /\ Balances \cup Amounts \subseteq Int
  /\ \A typed \in Currencies : ValidCode(typed) => CodeOf[CodeOf[typed]] = CodeOf[typed]
  /\ Nobody \notin DOMAIN Catalog \cup {"rule", "mock", "ai", "manual"}

InitRegistration == accountRows = {} /\ movementRows = {}

AccountTypes == {"cash", "bank", "credit"}

-----------------------------------------------------------------------------
(* The field of a name. *)
ValidName(name) == Length[name] \in 1 .. MaxLength

(* What the API accepts of the body of a request. *)
AccountInput(name, currency, balance) == ValidName(name) /\ ValidCode(currency) /\ MoneyField(balance)

TransactionInput(amount, chosen) == MoneyField(amount) /\ chosen # Blank

(* AccountBuilder.build *)
ValidAccount(name, type, balance) ==
  /\ ValidName(name)
  /\ balance < 0 => type = "credit"

(* AccountDraft; asked is a history: the balance the user typed.           *)
AccountDraft(id, name, type, currency, balance) ==
  [id |-> id, name |-> name, type |-> type, currency |-> CodeOf[currency], asked |-> balance,
   opening |-> Money(balance), balance |-> Money(balance), archived |-> FALSE]

(* create_account; the name is unique among the accounts of the user.      *)
CreateAccount(name, type, currency, balance) ==
  /\ AccountInput(name, currency, balance)
  /\ ValidAccount(name, type, Money(balance))
  /\ name \notin {a.name : a \in accountRows}
  /\ \E id \in (1 .. MaxAccounts) \ {a.id : a \in accountRows} :
       accountRows' = accountRows \cup {AccountDraft(id, name, type, currency, balance)}
  /\ UNCHANGED movementRows

Replace(old, new) == accountRows' = (accountRows \ {old}) \cup {new}

(* rename_account: the rule of the name is the one of the creation.        *)
RenameAccount(a, name) ==
  /\ ValidAccount(name, a.type, 0)
  /\ name \notin {b.name : b \in accountRows \ {a}}
  /\ Replace(a, [a EXCEPT !.name = name])
  /\ UNCHANGED movementRows

ArchiveAccount(a) ==
  /\ Replace(a, [a EXCEPT !.archived = TRUE])
  /\ UNCHANGED movementRows

-----------------------------------------------------------------------------
Sign(type) == IF type = "income" THEN 1 ELSE -1

(* TransactionBuilder.build, but for the category. *)
ValidMovement(a, amount, when) ==
  /\ Money(amount) > 0
  /\ when # "future"
  /\ ~a.archived

(* TransactionBuilder._resolve_category: the user's choice, or a suggestion. *)
Categorized(words, type, chosen, answer) ==
  IF chosen # Nobody THEN Suggestion(chosen, 100, "manual") ELSE ByRemote(words, type, answer)

(* TransactionService._resolve_category *)
InCatalog(category, type) == category \in DOMAIN Catalog /\ Catalog[category] = type

(* INV-14 *)
BalanceAllowed(a, balance) == balance >= 0 \/ a.type = "credit"

(* What categorization-service, or the network, may answer. *)
Answers(words, type) ==
  {Failing} \cup Strange \cup {Suggested(provider, words, type) : provider \in Providers}
            \cup {ByAI(words, type, reply) : reply \in Replies}

(* TransactionDraft; asked and named are a history: what the user typed.    *)
TransactionDraft(id, a, amount, type, suggestion, chosen) ==
  [id |-> id, account |-> a.id, amount |-> Money(amount), type |-> type, category |-> suggestion.category,
   source |-> suggestion.source, confidence |-> suggestion.confidence,
   asked |-> amount, named |-> chosen]

(* register_transaction; a balance the column does not hold is an error of  *)
(* the database and rolls the request back.                                *)
RegisterMovement(a, amount, type, when, words, chosen, answer) ==
  LET suggestion == Categorized(words, type, chosen, answer)
      balance == a.balance + Sign(type) * Money(amount)
  IN  /\ TransactionInput(amount, chosen)
      /\ ValidMovement(a, amount, when)
      /\ BalanceAllowed(a, balance) /\ Fits(balance)
      /\ InCatalog(suggestion.category, type)
      /\ \E id \in (1 .. MaxMovements) \ {m.id : m \in movementRows} :
           movementRows' = movementRows \cup {TransactionDraft(id, a, amount, type, suggestion, chosen)}
      /\ Replace(a, [a EXCEPT !.balance = balance])

(* recategorize *)
RecategorizeMovement(m, chosen) ==
  /\ chosen \notin {Blank, Nobody}
  /\ InCatalog(chosen, m.type)
  /\ movementRows' = (movementRows \ {m}) \cup
       {[m EXCEPT !.category = chosen, !.source = "manual", !.confidence = 100, !.named = chosen]}
  /\ UNCHANGED accountRows

NextRegistration ==
  \/ \E name \in Names, type \in AccountTypes, currency \in Currencies, balance \in Balances :
       CreateAccount(name, type, currency, balance)
  \/ \E a \in accountRows : ArchiveAccount(a) \/ \E name \in Names : RenameAccount(a, name)
  \/ \E a \in accountRows, amount \in Amounts, type \in Types, words \in Descriptions,
        when \in {"today", "future"} :
       \/ \E answer \in Answers(words, type) :
            RegisterMovement(a, amount, type, when, words, Nobody, answer)
       \/ \E chosen \in Chosen : RegisterMovement(a, amount, type, when, words, chosen, Failing)
  \/ \E m \in movementRows, chosen \in Chosen : RecategorizeMovement(m, chosen)

SpecRegistration == InitRegistration /\ [][NextRegistration]_registrationVars

-----------------------------------------------------------------------------
(* AccountService.summary: the active accounts of the user by currency.     *)
Summary ==
  LET active == {a \in accountRows : ~a.archived}
      of(c) == {a \in active : a.currency = c}
  IN  [c \in {a.currency : a \in active} |->
        [balance |-> SumFunctionOnSet([a \in of(c) |-> a.balance], of(c)), accounts |-> Cardinality(of(c))]]

(* audit_categorization, with Nobody for an empty column. *)
MiscategorizedRows == {m \in movementRows : (m.source = Nobody) # (m.category = Nobody)}

(* INV-08, A-12, A-14: whatever categorization-service answers, a           *)
(* transaction ends up in a category of the catalogue for its type; it is   *)
(* recorded as manual exactly when the user named the category, and then it *)
(* is the one named; and no answer can make a registration fail (A-22).    *)
CategoriesAreTruthful ==
  /\ \A m \in movementRows :
       /\ InCatalog(m.category, m.type)
       /\ m.confidence \in 0 .. 100
       /\ m.source = "manual" <=> m.named # Nobody
       /\ m.source = "manual" => m.category = m.named
       /\ m.source \in {"rule", "mock", "ai", "manual"}
  /\ MiscategorizedRows = {}
  /\ \A words \in Descriptions, type \in Types : \A answer \in Answers(words, type) :
       InCatalog(Categorized(words, type, Nobody, answer).category, type)

(* What the creation of an account promises holds for ever after: however   *)
(* it was renamed and used, each account could be opened as it stands, the  *)
(* names tell the accounts apart, a currency has one total however it was   *)
(* typed, and the totals shown are to the cent what the user typed, never  *)
(* rounded on the way from the request to the column.                      *)
AccountsStand ==
  /\ \A a \in accountRows : ValidAccount(a.name, a.type, a.balance) /\ Fits(a.balance)
  /\ \A a, b \in accountRows : a.name = b.name => a = b
  /\ \A c \in DOMAIN Summary :
       LET active == {a \in accountRows : ~a.archived /\ a.currency = c}
           moved == {m \in movementRows : m.account \in {a.id : a \in active}}
       IN  /\ CodeOf[c] = c
           /\ Summary[c].balance = SumFunctionOnSet([a \in active |-> a.asked], active)
                                    + SumFunctionOnSet([m \in moved |-> Sign(m.type) * m.asked], moved)

(* What a user is shown of the registered money and its categories is what  *)
(* was registered, whatever categorization-service answered meanwhile.     *)
RegistrationsAreTruthful == CategoriesAreTruthful /\ AccountsStand
=============================================================================
