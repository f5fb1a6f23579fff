----------------------------- MODULE UnitsProofs -----------------------------
(***************************************************************************)
(* Proofs about identity, the figures of analytics-service, the             *)
(* registrations of finance-service and the plans of                       *)
(* recommendation-service.                                                 *)
(***************************************************************************)
EXTENDS Advice, RiskProfiles, Registration, Identity, SumsOverSets

-----------------------------------------------------------------------------
(* Identity.  A row agrees with what was last asked for it, and a request   *)
(* that edits a profile has found its row, which is never removed.         *)
Registering == [op : {"register"}, email : Emails, password : Passwords]

Edited == {Cleaned(edit) : edit \in {edit \in Edits : DOMAIN edit \subseteq Fields}}

Editing == [op : {"edit"}, email : Emails, edit : Edited, read : UserRows]

IdentityTypes ==
  /\ userRows \in [Emails -> UserRows \cup {NoUser}]
  /\ asked \in [Emails -> Profiles]
  /\ caller \in [Callers -> Registering \cup Editing \cup {Waiting}]

RowsAsAsked ==
  \A e \in Emails : IF userRows[e] = NoUser THEN asked[e] = ProfileDefaults
                    ELSE userRows[e].profile = asked[e]

EditsHaveRows ==
  \A c \in Callers : caller[c] # Waiting /\ caller[c].op = "edit" => userRows[caller[c].email] # NoUser

IdentityInv == IdentityTypes /\ RowsAsAsked /\ EditsHaveRows

(* A new profile, and one that an edit is merged into, is a profile. *)
LEMMA ProfilesAreTyped ==
  /\ ProfileDefaults \in Profiles
  /\ \A profile \in Profiles, edit \in Edited : Merged(profile, edit) \in Profiles
<1>1. ProfileDefaults \in Profiles
  BY IdentityAssumption DEF Profiles, FieldValues
<1>2. ASSUME NEW profile \in Profiles, NEW edit \in Edited PROVE Merged(profile, edit) \in Profiles
  <2>1. PICK raw \in Edits : DOMAIN raw \subseteq Fields /\ edit = Cleaned(raw)
    BY <1>2 DEF Edited
  <2>2. DOMAIN edit = DOMAIN raw
    BY <2>1 DEF Cleaned
  <2>3. \A f \in DOMAIN edit : edit[f] \in FieldValues
    BY <2>1, <2>2 DEF FieldValues
  <2>4. QED
    BY <1>2, <2>3 DEF Merged, Profiles
<1>3. QED
  BY <1>1, <1>2

(* What the insertion of a user does. *)
LEMMA RegisterEnds ==
  ASSUME IdentityInv, NEW c \in Callers, EndRegister(c)
  PROVE  /\ IdentityInv'
         /\ asked' = asked
         /\ \A e \in Emails : userRows[e] # NoUser => userRows'[e] = userRows[e]
<1>1. PICK j \in Registering : j = caller[c]
  BY DEF EndRegister, IdentityInv, IdentityTypes, Editing
<1>2. NewUser(j.password) \in UserRows /\ NewUser(j.password).profile = ProfileDefaults
  BY <1>1, ProfilesAreTyped DEF NewUser, UserRows, Registering
<1>3. /\ caller' = [caller EXCEPT ![c] = Waiting]
      /\ asked' = asked
      /\ userRows' = IF userRows[j.email] # NoUser THEN userRows
                     ELSE [userRows EXCEPT ![j.email] = NewUser(j.password)]
  BY <1>1 DEF EndRegister, Release
<1>4. j.email \in Emails
  BY <1>1 DEF Registering
<1>5. IdentityTypes'
  BY <1>2, <1>3, <1>4 DEF IdentityInv, IdentityTypes
<1>6. \A e \in Emails : userRows'[e] = IF e = j.email /\ userRows[e] = NoUser THEN NewUser(j.password)
                                      ELSE userRows[e]
  BY <1>3, <1>4 DEF IdentityInv, IdentityTypes
<1>7. NoUser # NewUser(j.password)
  BY <1>2, IdentityAssumption
<1>8. RowsAsAsked'
  BY <1>2, <1>3, <1>6, <1>7 DEF RowsAsAsked, IdentityInv
<1>9. \A d \in Callers : caller'[d] # Waiting => caller'[d] = caller[d]
  BY <1>3 DEF IdentityInv, IdentityTypes
<1>10. \A d \in Callers : caller[d] # Waiting /\ caller[d].op = "edit" => caller[d].email \in Emails
  BY DEF IdentityInv, IdentityTypes, Editing, Registering
<1>11. EditsHaveRows'
  BY <1>6, <1>7, <1>9, <1>10 DEF EditsHaveRows, IdentityInv
<1>12. QED
  BY <1>3, <1>5, <1>6, <1>8, <1>11 DEF IdentityInv

(* What the update of a profile does. *)
LEMMA EditEnds ==
  ASSUME IdentityInv, NEW c \in Callers, EndEdit(c)
  PROVE  /\ IdentityInv'
         /\ \A e \in Emails : userRows[e] # NoUser =>
              /\ userRows'[e] # NoUser
              /\ userRows'[e].password = userRows[e].password
              /\ userRows'[e].active = userRows[e].active
              /\ userRows[e].onboarded => userRows'[e].onboarded
<1>1. PICK j \in Editing : j = caller[c] /\ caller[c] # Waiting /\ caller[c].op = "edit"
  BY DEF EndEdit, IdentityInv, IdentityTypes, Registering
<1>2. PICK row \in UserRows : row = userRows[j.email]
  BY <1>1 DEF IdentityInv, IdentityTypes, EditsHaveRows, Editing
<1>3. /\ j.email \in Emails /\ j.edit \in Edited /\ j.read \in UserRows
      /\ row.profile \in Profiles /\ row.onboarded \in BOOLEAN
  BY <1>1, <1>2 DEF Editing, UserRows
<1> DEFINE completes == ~j.read.onboarded /\ Complete(Merged(j.read.profile, j.edit))
           new == [row EXCEPT !.profile = Merged(@, j.edit), !.onboarded = @ \/ completes]
<1>4. /\ userRows' = [userRows EXCEPT ![j.email] = new]
      /\ asked' = [asked EXCEPT ![j.email] = Merged(@, j.edit)]
      /\ caller' = [caller EXCEPT ![c] = Waiting]
  BY <1>1, <1>2, <1>3 DEF EndEdit, Release, IdentityInv, IdentityTypes
<1>5. /\ new \in UserRows
      /\ new.password = row.password /\ new.active = row.active
      /\ new.profile = Merged(row.profile, j.edit)
      /\ row.onboarded => new.onboarded
  BY <1>3, ProfilesAreTyped DEF UserRows
<1>6. new # NoUser
  BY <1>5, IdentityAssumption
<1> HIDE DEF new, completes
<1>7. IdentityTypes'
  BY <1>3, <1>4, <1>5, ProfilesAreTyped DEF IdentityInv, IdentityTypes
<1>8. \A e \in Emails : /\ userRows'[e] = IF e = j.email THEN new ELSE userRows[e]
                        /\ asked'[e] = IF e = j.email THEN Merged(asked[e], j.edit) ELSE asked[e]
  BY <1>3, <1>4 DEF IdentityInv, IdentityTypes
<1>9. row # NoUser
  BY IdentityAssumption
<1>10. RowsAsAsked'
  BY <1>2, <1>3, <1>5, <1>6, <1>8, <1>9 DEF RowsAsAsked, IdentityInv
<1>11. \A d \in Callers : caller'[d] # Waiting => caller'[d] = caller[d]
  BY <1>4 DEF IdentityInv, IdentityTypes
<1>12. \A d \in Callers : caller[d] # Waiting /\ caller[d].op = "edit" => caller[d].email \in Emails
  BY DEF IdentityInv, IdentityTypes, Editing, Registering
<1>13. EditsHaveRows'
  BY <1>6, <1>8, <1>11, <1>12 DEF EditsHaveRows, IdentityInv
<1>14. QED
  BY <1>2, <1>5, <1>6, <1>7, <1>8, <1>10, <1>13 DEF IdentityInv

(* What an operator may do to a row. *)
LEMMA ActiveIsSet ==
  ASSUME IdentityInv, NEW email \in Emails, NEW active \in BOOLEAN, SetActive(email, active)
  PROVE  /\ IdentityInv'
         /\ \A e \in Emails : userRows[e] # NoUser =>
              /\ userRows'[e] # NoUser
              /\ userRows'[e].password = userRows[e].password
              /\ userRows'[e].onboarded = userRows[e].onboarded
<1>1. PICK row \in UserRows : row = userRows[email] /\ row # NoUser
  BY IdentityAssumption DEF SetActive, IdentityInv, IdentityTypes
<1> DEFINE new == [row EXCEPT !.active = active]
<1>2. /\ new \in UserRows
      /\ new.password = row.password /\ new.profile = row.profile /\ new.onboarded = row.onboarded
  BY DEF UserRows
<1>3. new # NoUser
  BY <1>2, IdentityAssumption
<1>4. userRows' = [userRows EXCEPT ![email] = new] /\ asked' = asked /\ caller' = caller
  BY <1>1 DEF SetActive, IdentityInv, IdentityTypes
<1> HIDE DEF new
<1>5. IdentityTypes'
  BY <1>2, <1>4 DEF IdentityInv, IdentityTypes
<1>6. \A e \in Emails : userRows'[e] = IF e = email THEN new ELSE userRows[e]
  BY <1>4 DEF IdentityInv, IdentityTypes
<1>7. RowsAsAsked'
  BY <1>1, <1>2, <1>3, <1>4, <1>6 DEF RowsAsAsked, IdentityInv
<1>8. \A c \in Callers : caller[c] # Waiting /\ caller[c].op = "edit" => caller[c].email \in Emails
  BY DEF IdentityInv, IdentityTypes, Editing, Registering
<1>9. EditsHaveRows'
  BY <1>3, <1>4, <1>6, <1>8 DEF EditsHaveRows, IdentityInv
<1>10. QED
  BY <1>1, <1>2, <1>3, <1>5, <1>6, <1>7, <1>9 DEF IdentityInv

(* What a step may do to a row that is there. *)
RowKept(e) ==
  /\ userRows'[e] # NoUser
  /\ userRows'[e].password = userRows[e].password
  /\ userRows[e].onboarded => userRows'[e].onboarded

(* Every step keeps the invariant, and every row with its password.  *)
LEMMA IdentityNext ==
  ASSUME IdentityInv, [NextIdentity]_identityVars
  PROVE  IdentityInv' /\ \A e \in Emails : userRows[e] # NoUser => RowKept(e)
<1>1. ASSUME NEW c \in Callers, NEW typed \in Typed, NEW password \in Passwords,
             BeginRegister(c, typed, password)
      PROVE  IdentityInv' /\ \A e \in Emails : userRows[e] # NoUser => RowKept(e)
  <2> DEFINE j == [op |-> "register", email |-> EmailOf[typed], password |-> password]
  <2>1. j \in Registering /\ j.op # "edit"
    BY DEF Registering, Emails
  <2>2. caller' = [caller EXCEPT ![c] = j] /\ userRows' = userRows /\ asked' = asked
    BY <1>1 DEF BeginRegister
  <2> HIDE DEF j
  <2>3. QED
    BY <2>1, <2>2 DEF IdentityInv, IdentityTypes, RowsAsAsked, EditsHaveRows, RowKept
<1>2. ASSUME NEW c \in Callers, NEW email \in Emails, NEW edit \in Edits, BeginEdit(c, email, edit)
      PROVE  IdentityInv' /\ \A e \in Emails : userRows[e] # NoUser => RowKept(e)
  <2> DEFINE j == [op |-> "edit", email |-> email, edit |-> Cleaned(edit), read |-> userRows[email]]
  <2>1. userRows[email] # NoUser /\ DOMAIN edit \subseteq Fields
    BY <1>2 DEF BeginEdit
  <2>2. j \in Editing /\ j.email = email
    BY <2>1 DEF Editing, Edited, IdentityInv, IdentityTypes
  <2>3. caller' = [caller EXCEPT ![c] = j] /\ userRows' = userRows /\ asked' = asked
    BY <1>2 DEF BeginEdit
  <2> HIDE DEF j
  <2>4. QED
    BY <2>1, <2>2, <2>3 DEF IdentityInv, IdentityTypes, RowsAsAsked, EditsHaveRows, RowKept
<1>3. ASSUME UNCHANGED identityVars
      PROVE  IdentityInv' /\ \A e \in Emails : userRows[e] # NoUser => RowKept(e)
  BY <1>3 DEF identityVars, IdentityInv, IdentityTypes, RowsAsAsked, EditsHaveRows, RowKept
<1>4. QED
  BY <1>1, <1>2, <1>3, RegisterEnds, EditEnds, ActiveIsSet DEF NextIdentity, RowKept

(* In such a state a service works for a user on the user's own token       *)
(* exactly while the user is active, and for nobody without a token.       *)
LEMMA TokensIdentify ==
  IdentityInv => \A e \in Emails : userRows[e] # NoUser => \A claimed :
    /\ (Identified(<<"token", e>>, claimed) = e) <=> userRows[e].active
    /\ Identified(<<>>, claimed) = "401"
<1> SUFFICES ASSUME IdentityInv, NEW e \in Emails, userRows[e] # NoUser, NEW claimed
             PROVE  /\ (Identified(<<"token", e>>, claimed) = e) <=> userRows[e].active
                    /\ Identified(<<>>, claimed) = "401"
  OBVIOUS
<1>1. /\ Len(<<"token", e>>) = 2 /\ <<"token", e>>[1] = "token" /\ <<"token", e>>[2] = e
      /\ Len(<<>>) = 0
  OBVIOUS
<1>2. Verify(<<"token", e>>) = IF userRows[e].active THEN e ELSE "inactive_user"
  BY <1>1 DEF Verify
<1>3. Verify(<<>>) \in {"missing_credentials", "no_credentials", "spaces", "invalid_token", "inactive_user"}
  BY <1>1 DEF Verify
<1>4. QED
  BY <1>2, <1>3, IdentityAssumption DEF Identified, Forwarded, Verified

(* UpdatesDoNotOverwrite, for any number of requests, emails and edits.     *)
THEOREM UpdatesStand == SpecIdentity => UpdatesDoNotOverwrite
<1> DEFINE LoginsAsBefore(e) ==
             \A typed \in Typed, password \in Passwords : EmailOf[typed] = e =>
               (LogsIn(typed, password)' <=> userRows'[e].active /\ password = userRows[e].password)
           OwnTokens(e) ==
             \A claimed \in Typed :
               /\ (Identified(<<"token", e>>, claimed) = e)' = userRows'[e].active
               /\ Identified(<<>>, claimed)' = "401"
<1>1. InitIdentity => IdentityInv
  BY ProfilesAreTyped DEF InitIdentity, IdentityInv, IdentityTypes, RowsAsAsked, EditsHaveRows
<1>2. IdentityInv /\ [NextIdentity]_identityVars => IdentityInv'
  BY IdentityNext
<1>3. (IdentityInv => \A e \in Emails : userRows[e] # NoUser => \A claimed :
         /\ (Identified(<<"token", e>>, claimed) = e) <=> userRows[e].active
         /\ Identified(<<>>, claimed) = "401")'
  BY TokensIdentify, PTL
<1>4. ASSUME IdentityInv, [NextIdentity]_identityVars, NEW e \in Emails, userRows[e] # NoUser
      PROVE  /\ userRows'[e].profile = asked'[e]
             /\ userRows[e].onboarded => userRows'[e].onboarded
             /\ LoginsAsBefore(e) /\ OwnTokens(e)
  <2>1. IdentityInv' /\ RowKept(e)
    BY <1>4, IdentityNext
  <2>2. userRows'[e] # NoUser /\ userRows'[e].profile = asked'[e] /\ userRows'[e].active \in BOOLEAN
    BY <2>1 DEF RowKept, IdentityInv, RowsAsAsked, IdentityTypes, UserRows
  <2>3. LoginsAsBefore(e)
    BY <2>1, <2>2 DEF RowKept, LogsIn
  <2>4. OwnTokens(e)
    <3>1. \A claimed : /\ (Identified(<<"token", e>>, claimed) = e)' <=> userRows'[e].active
                       /\ Identified(<<>>, claimed)' = "401"
      BY <1>3, <2>1, <2>2
    <3>2. QED
      BY <2>2, <3>1
  <2>5. QED
    BY <2>1, <2>2, <2>3, <2>4 DEF RowKept
<1>5. IdentityInv /\ [NextIdentity]_identityVars =>
        [\A e \in Emails : userRows[e] # NoUser =>
           /\ userRows'[e].profile = asked'[e]
           /\ userRows[e].onboarded => userRows'[e].onboarded
           /\ LoginsAsBefore(e)
           /\ OwnTokens(e)]_identityVars
  BY <1>4
<1>6. QED
  BY <1>1, <1>2, <1>5, PTL DEF SpecIdentity, UpdatesDoNotOverwrite

-----------------------------------------------------------------------------
(* The figures of analytics-service.  The facts are candidates, and that is *)
(* all that is needed to know of them: each result holds of any facts.     *)
LEMMA FactsAreCandidates == SpecFigures => [](facts \subseteq Candidates)
<1>1. InitFigures => facts \subseteq Candidates
  BY DEF InitFigures
<1>2. facts \subseteq Candidates /\ [NextFigures]_facts => (facts \subseteq Candidates)'
  BY DEF NextFigures, Learn, Forget
<1>3. QED
  BY <1>1, <1>2, PTL DEF SpecFigures

(* A dashboard depends on the months of its trend and on the one before.    *)
LEMMA DashboardReads ==
  ASSUME NEW p, NEW F, NEW G, NEW months, NEW earliest,
         {f \in F : f.month \in Window(p, months)} = {f \in G : f.month \in Window(p, months)},
         earliest = NoFigure \/ p - 1 >= earliest => In(F, p - 1) = In(G, p - 1)
  PROVE  Dashboard(p, F, months, earliest) = Dashboard(p, G, months, earliest)
<1> DEFINE window == Window(p, months)
           compared == earliest = NoFigure \/ p - 1 >= earliest
           shown(H) == {f \in H : f.month \in window}
           relevant(H) == {f \in H : f.month \in window \/ (compared /\ f.month = p - 1)}
           D(S, R) == [c \in {f.currency : f \in S} |->
                        Section({f \in R : f.currency = c}, p, window, compared)]
<1>1. /\ Dashboard(p, F, months, earliest) = D(shown(F), relevant(F))
      /\ Dashboard(p, G, months, earliest) = D(shown(G), relevant(G))
  BY DEF Dashboard
<1>2. shown(F) = shown(G)
  OBVIOUS
<1>3. relevant(F) = relevant(G)
  BY <1>2 DEF In
<1> HIDE DEF D, shown, relevant
<1>4. QED
  BY <1>1, <1>2, <1>3

(* What is spent in a month depends on the facts of the month. *)
LEMMA SpentReads ==
  ASSUME NEW F, NEW G, NEW m, In(F, m) = In(G, m)
  PROVE  /\ \A c : SpentOn(F, m, c) = SpentOn(G, m, c)
         /\ Named(F, m) = Named(G, m)
         /\ NegativeSavings(F, m) = NegativeSavings(G, m)
         /\ TopCategory(F, m) = TopCategory(G, m)
<1>1. \A c : SpentOn(F, m, c) = SpentOn(G, m, c)
  BY DEF SpentOn
<1>2. Named(F, m) = Named(G, m)
  BY DEF Named
<1>3. NegativeSavings(F, m) = NegativeSavings(G, m)
  BY DEF NegativeSavings
<1> DEFINE largest(H) == {c \in Named(H, m) : \A d \in Named(H, m) : SpentOn(H, m, d) <= SpentOn(H, m, c)}
           T(L, s, whole) == IF L = {} THEN {}
                             ELSE {[code |-> "top_category", category |-> Min(L), share |-> Share(s, whole)]}
<1>4. largest(F) = largest(G)
  BY <1>1, <1>2
<1>5. \A H : TopCategory(H, m) = T(largest(H), SpentOn(H, m, Min(largest(H))), TotalsOf(In(H, m)).expense)
  BY DEF TopCategory
<1> HIDE DEF T, largest
<1>6. TopCategory(F, m) = TopCategory(G, m)
  BY <1>1, <1>4, <1>5
<1>7. QED
  BY <1>1, <1>2, <1>3, <1>6

(* The insights of a month depend on it and on the months looked back at.   *)
LEMMA InsightsReads ==
  ASSUME NEW p, NEW F, NEW G,
         \A m \in Window(p - 1, SpikeLookback) \cup {p} : In(F, m) = In(G, m)
  PROVE  Insights(p, F) = Insights(p, G)
<1> DEFINE of(H, c) == {f \in H : f.currency = c}
           W == Window(p - 1, SpikeLookback)
           Past(H, c) == SumFunctionOnSet([m \in W |-> SpentOn(H, m, c)], W)
           I(H, c) == NegativeSavings(of(H, c), p) \cup Spikes(of(H, c), p) \cup TopCategory(of(H, c), p)
<1>1. ASSUME NEW c PROVE I(F, c) = I(G, c)
  <2> DEFINE A == of(F, c)
             B == of(G, c)
  <2>1. \A m \in W \cup {p} : In(A, m) = In(B, m)
    BY DEF In
  <2> HIDE DEF A, B
  <2>2. /\ \A m \in W \cup {p} : \A d : SpentOn(A, m, d) = SpentOn(B, m, d)
        /\ Named(A, p) = Named(B, p)
        /\ NegativeSavings(A, p) = NegativeSavings(B, p)
        /\ TopCategory(A, p) = TopCategory(B, p)
    BY <2>1, SpentReads
  <2>3. \A d : Past(A, d) = Past(B, d)
    <3> SUFFICES ASSUME NEW d PROVE Past(A, d) = Past(B, d)
      OBVIOUS
    <3> HIDE DEF W
    <3>1. [m \in W |-> SpentOn(A, m, d)] = [m \in W |-> SpentOn(B, m, d)]
      BY <2>2
    <3>2. QED
      BY <3>1
  <2>4. Spikes(A, p) = Spikes(B, p)
    <3> DEFINE large(H) == {d \in Named(H, p) :
                 /\ Past(H, d) > 0
                 /\ SpentOn(H, p, d) >= SpikeMinimum
                 /\ 100 * SpikeLookback * SpentOn(H, p, d) >= (100 + SpikePercent) * Past(H, d)}
               item(H, d) == [code |-> "category_spike", category |-> d, current |-> SpentOn(H, p, d),
                              average |-> HalfUp(Past(H, d), SpikeLookback)]
    <3>1. \A H : Spikes(H, p) = {item(H, d) : d \in large(H)}
      BY DEF Spikes, SumOver
    <3> HIDE DEF Past
    <3>2. large(A) = large(B)
      BY <2>2, <2>3
    <3>3. \A d : item(A, d) = item(B, d)
      BY <2>2, <2>3
    <3> HIDE DEF large, item
    <3>4. QED
      BY <3>1, <3>2, <3>3
  <2>5. QED
    BY <2>2, <2>4 DEF A, B
<1>2. {f.currency : f \in In(F, p)} = {f.currency : f \in In(G, p)}
  OBVIOUS
<1>3. \A H : Insights(p, H) = [c \in {f.currency : f \in In(H, p)} |-> I(H, c)]
  BY DEF Insights
<1> HIDE DEF I
<1>4. QED
  BY <1>1, <1>2, <1>3

(* The recurring expenses depend on the months of their window. *)
LEMMA RecurringReads ==
  ASSUME NEW p, NEW F, NEW G,
         {f \in F : f.month \in Window(p, PatternWindow)} = {f \in G : f.month \in Window(p, PatternWindow)}
  PROVE  Recurring(p, F) = Recurring(p, G)
<1> DEFINE candidates(H) ==
             {f \in Expenses(H) : f.description # 0 /\ f.month \in Window(p, PatternWindow)}
           MonthsOf(K) == {f.month : f \in K}
           groups(C) == {{f \in C : <<f.description, f.category, f.currency>> = key}
                         : key \in {<<f.description, f.category, f.currency>> : f \in C}}
           R(C) ==
             {[of |-> CHOOSE key \in {<<f.description, f.category, f.currency>> : f \in K} : TRUE,
               average |-> HalfUp(SumOf(Close(K)), Cardinality(Close(K))),
               months |-> Cardinality(MonthsOf(Close(K))),
               occurrences |-> Cardinality(Close(K)),
               frequency |-> HalfEven(100 * Cardinality(Close(K)), Cardinality(MonthsOf(Close(K)))),
               last |-> Max(MonthsOf(Close(K)))]
              : K \in {K \in groups(C) : Cardinality(MonthsOf(Close(K))) >= PatternMinimum}}
<1>1. Recurring(p, F) = R(candidates(F)) /\ Recurring(p, G) = R(candidates(G))
  BY DEF Recurring
<1>2. candidates(F) = candidates(G)
  BY DEF Expenses
<1> HIDE DEF R, candidates
<1>3. QED
  BY <1>1, <1>2

(* Months of a request are whole numbers. *)
LEMMA PeriodsAreMonths == Periods \subseteq Int
  BY DEF Periods

(* Each query loads what its figure depends on. *)
LEMMA LoadedSuffices ==
  ASSUME facts \subseteq Candidates, NEW u \in Users, NEW p \in Int
  PROVE  /\ \A plan \in Plans :
              DashboardOf(u, p, plan) = Dashboard(p, MineOf(u), TrendOf(plan), EarliestOf(plan))
         /\ InsightsOf(u, p) = Insights(p, MineOf(u))
         /\ PatternsOf(u, p) = Recurring(p, MineOf(u))
<1>0. /\ \A f \in facts : f.month \in Int
      /\ TrendMonths \in Nat \ {0} /\ SpikeLookback \in Nat \ {0}
      /\ PatternWindow \in Nat \ {0} /\ FreeMonths \in Nat \ {0}
  BY FiguresAssumption
<1>1. ASSUME NEW plan \in Plans
      PROVE  DashboardOf(u, p, plan) = Dashboard(p, MineOf(u), TrendOf(plan), EarliestOf(plan))
  <2> DEFINE size == TrendOf(plan)
             first == LesserOf(p - size + 1, p - 1)
  <2>1. size \in Nat \ {0}
    BY <1>0 DEF TrendOf, LesserOf
  <2>2. first \in Int /\ first <= p - size + 1 /\ first <= p - 1
    BY <1>0, <2>1 DEF LesserOf
  <2>3. DashboardOf(u, p, plan) = Dashboard(p, Load(u, first, p), size, EarliestOf(plan))
    BY DEF DashboardOf
  <2> HIDE DEF size, first
  <2>4. {f \in Load(u, first, p) : f.month \in Window(p, size)}
          = {f \in MineOf(u) : f.month \in Window(p, size)}
    BY <1>0, <2>1, <2>2 DEF Load, MineOf, Window
  <2>5. In(Load(u, first, p), p - 1) = In(MineOf(u), p - 1)
    BY <1>0, <2>1, <2>2 DEF Load, MineOf, In
  <2>6. QED
    BY <2>3, <2>4, <2>5, DashboardReads DEF size
<1>2. InsightsOf(u, p) = Insights(p, MineOf(u))
  <2>1. \A m \in Window(p - 1, SpikeLookback) \cup {p} :
          In(Load(u, p - SpikeLookback, p), m) = In(MineOf(u), m)
    BY <1>0 DEF Load, MineOf, Window, In
  <2>2. QED
    BY <2>1, InsightsReads DEF InsightsOf
<1>3. PatternsOf(u, p) = Recurring(p, MineOf(u))
  <2>1. {f \in Load(u, p - PatternWindow + 1, p) : f.month \in Window(p, PatternWindow)}
          = {f \in MineOf(u) : f.month \in Window(p, PatternWindow)}
    BY <1>0 DEF Load, MineOf, Window
  <2>2. QED
    BY <2>1, RecurringReads DEF PatternsOf
<1>4. QED
  BY <1>1, <1>2, <1>3

(* In particular in every month that may be asked for. *)
LEMMA LoadedMonths == facts \subseteq Candidates => LoadedFactsSuffice
  BY LoadedSuffices, PeriodsAreMonths DEF LoadedFactsSuffice

(* LoadedFactsSuffice, for any facts and any length of the windows.         *)
THEOREM FactsLoadedSuffice == SpecFigures => []LoadedFactsSuffice
  BY FactsAreCandidates, LoadedMonths, PTL

(* Two dashboards of a month in which the same currencies' visible months   *)
(* hold the same facts show the same but for the trend.                    *)
LEMMA SectionReads ==
  ASSUME NEW p, NEW A, NEW B, NEW window, NEW compared,
         In(A, p) = In(B, p), compared => In(A, p - 1) = In(B, p - 1)
  PROVE  WithoutTrend(Section(A, p, window, compared)) = WithoutTrend(Section(B, p, window, compared))
<1> DEFINE S(H) ==
             [totals |-> TotalsOf(In(H, p)), savings |-> SavingsRate(TotalsOf(In(H, p))),
              categories |-> Categories(In(H, p)),
              accounts |-> [a \in {f.account : f \in In(H, p)} |->
                              TotalsOf({f \in In(H, p) : f.account = a})],
              comparison |->
                IF compared THEN [totals |-> TotalsOf(In(H, p - 1)),
                                  change |-> ExpenseChange(TotalsOf(In(H, p)), TotalsOf(In(H, p - 1)))]
                ELSE NoFigure]
<1>1. \A H : WithoutTrend(Section(H, p, window, compared)) = S(H)
  BY DEF WithoutTrend, Section
<1>2. S(A) = S(B)
  BY Zenon
<1>3. QED
  BY <1>1, <1>2

(* The facts the section of one currency in a dashboard is made of. *)
Compares(p, earliest) == earliest = NoFigure \/ p - 1 >= earliest

SliceOf(F, c, p, months, earliest) ==
  {f \in F : f.currency = c /\ (f.month \in Window(p, months)
                               \/ (Compares(p, earliest) /\ f.month = p - 1))}

(* A currency with figures in the window has a section, made of its slice. *)
LEMMA DashboardSection ==
  ASSUME NEW p, NEW F, NEW months, NEW earliest, NEW c,
         c \in {f.currency : f \in {f \in F : f.month \in Window(p, months)}}
  PROVE  /\ c \in DOMAIN Dashboard(p, F, months, earliest)
         /\ Dashboard(p, F, months, earliest)[c] =
              Section(SliceOf(F, c, p, months, earliest), p, Window(p, months), Compares(p, earliest))
<1> DEFINE compared == earliest = NoFigure \/ p - 1 >= earliest
           relevant == {f \in F : f.month \in Window(p, months) \/ (compared /\ f.month = p - 1)}
<1>1. {f \in relevant : f.currency = c} = SliceOf(F, c, p, months, earliest)
  BY DEF SliceOf, Compares
<1>2. /\ c \in DOMAIN Dashboard(p, F, months, earliest)
      /\ Dashboard(p, F, months, earliest)[c]
           = Section({f \in relevant : f.currency = c}, p, Window(p, months), compared)
  BY DEF Dashboard
<1>3. compared = Compares(p, earliest)
  BY DEF Compares
<1> HIDE DEF relevant, compared
<1>4. QED
  BY <1>1, <1>2, <1>3

(* What a dashboard shows of a visible month is in the visible months, and  *)
(* so is what its trend shows of them.                                     *)
LEMMA HiddenMonths == facts \subseteq Candidates => HiddenMonthsStayHidden
<1> DEFINE Alone(u, c) == {f \in MineOf(u) : f.currency = c /\ f.month >= FirstVisible}
           Shown(u, p, c) == Section(Alone(u, c), p, Window(p, TrendOf("free")), p > FirstVisible)
<1> SUFFICES ASSUME facts \subseteq Candidates, NEW u \in Users, NEW p \in FirstVisible .. Today,
                    NEW c \in DOMAIN DashboardOf(u, p, "free")
             PROVE  LET section == DashboardOf(u, p, "free")[c] IN
                    /\ WithoutTrend(section) = WithoutTrend(Shown(u, p, c))
                    /\ \A m \in DOMAIN section.trend :
                         /\ m > p - FreeMonths
                         /\ m >= FirstVisible => section.trend[m] = Shown(u, p, c).trend[m]
  BY DEF HiddenMonthsStayHidden
<1> DEFINE size == TrendOf("free")
           first == LesserOf(p - size + 1, p - 1)
           alone == Alone(u, c)
           loaded == Load(u, first, p)
           window == Window(p, size)
           compared == Compares(p, FirstVisible)
           part == SliceOf(loaded, c, p, size, FirstVisible)
<1>1. /\ p \in Int /\ FirstVisible \in Int /\ FirstVisible # NoFigure /\ FirstVisible <= p
      /\ \A f \in facts : f.month \in Int
  BY FiguresAssumption DEF FirstVisible
<1>2. size \in Nat \ {0} /\ size <= FreeMonths /\ FreeMonths \in Nat
  BY FiguresAssumption DEF TrendOf, LesserOf
<1>3. first \in Int /\ first <= p - size + 1 /\ first <= p - 1
  BY <1>1, <1>2 DEF LesserOf
<1>4. DashboardOf(u, p, "free") = Dashboard(p, loaded, size, FirstVisible)
  BY DEF DashboardOf, EarliestOf
<1> HIDE DEF size, first
<1>5. c \in {f.currency : f \in {f \in loaded : f.month \in window}}
  BY <1>4 DEF Dashboard
<1>6. compared = (p > FirstVisible)
  BY <1>1 DEF Compares
<1>7. DashboardOf(u, p, "free")[c] = Section(part, p, window, compared)
  BY <1>4, <1>5, DashboardSection
<1>8. \A m \in window : m >= FirstVisible => In(part, m) = In(alone, m)
  BY <1>1, <1>2, <1>3 DEF In, Load, MineOf, Window, SliceOf, loaded
<1>9. In(part, p) = In(alone, p)
  BY <1>1, <1>2, <1>8 DEF Window
<1>10. compared => In(part, p - 1) = In(alone, p - 1)
  BY <1>1, <1>2, <1>3 DEF In, Load, MineOf, Window, SliceOf, Compares, loaded
<1>11. \A m \in window : m > p - FreeMonths
  BY <1>1, <1>2 DEF Window
<1>12. \A H : Section(H, p, window, compared).trend = [m \in window |-> TotalsOf(In(H, m))]
  BY DEF Section
<1>13. Shown(u, p, c) = Section(alone, p, window, compared)
  BY <1>6 DEF size
<1> HIDE DEF part, alone, window, compared
<1>14. WithoutTrend(Section(part, p, window, compared))
         = WithoutTrend(Section(alone, p, window, compared))
  BY <1>9, <1>10, SectionReads
<1> DEFINE section == DashboardOf(u, p, "free")[c]
           own == Shown(u, p, c)
<1>15. WithoutTrend(section) = WithoutTrend(own)
  BY <1>7, <1>14, <1>13
<1>16. /\ section.trend = [m \in window |-> TotalsOf(In(part, m))]
       /\ own.trend = [m \in window |-> TotalsOf(In(alone, m))]
  BY <1>7, <1>12, <1>13
<1> HIDE DEF section, own
<1>17. \A m \in DOMAIN section.trend :
         m > p - FreeMonths /\ (m >= FirstVisible => section.trend[m] = own.trend[m])
  BY <1>8, <1>11, <1>16
<1>18. QED
  BY <1>15, <1>17 DEF section, own

(* HiddenMonthsStayHidden, for any facts, trend and number of free months.  *)
THEOREM HiddenStaysHidden == SpecFigures => []HiddenMonthsStayHidden
  BY FactsAreCandidates, HiddenMonths, PTL

(* The image of a finite set is finite. *)
LEMMA ImageIsFinite ==
  ASSUME NEW S, IsFiniteSet(S), NEW h
  PROVE  IsFiniteSet({h[x] : x \in S})
<1> DEFINE T == {h[x] : x \in S}
           g == [x \in S |-> h[x]]
<1>1. g \in Surjection(S, T)
  BY DEF Surjection
<1>2. QED
  BY <1>1, FS_Surjection

(* A sum of facts is a whole number. *)
LEMMA SumOfType ==
  ASSUME NEW E, E \subseteq Candidates
  PROVE  IsFiniteSet(E) /\ SumOf(E) \in Int
<1>1. IsFiniteSet(E)
  BY FiguresAssumption, FS_Subset
<1> DEFINE amount == [f \in E |-> f.amount]
<1>2. \A f \in E : amount[f] \in Int
  BY FiguresAssumption
<1>3. SumOf(E) = SumFunctionOnSet(amount, E)
  BY DEF SumOf, SumOver
<1> HIDE DEF amount
<1>4. QED
  BY <1>1, <1>2, <1>3, SumType

(* The empty sum of facts. *)
LEMMA SumOfNothing == SumOf({}) = 0
  BY SumEmpty DEF SumOf, SumOver

(* Facts may be summed class by class. *)
LEMMA SumOfClasses ==
  ASSUME NEW E, E \subseteq Candidates, NEW K, IsFiniteSet(K), NEW h, \A f \in E : h[f] \in K
  PROVE  SumOf(E) = SumFunctionOnSet([k \in K |-> SumOf({f \in E : h[f] = k})], K)
<1> DEFINE amount == [f \in E |-> f.amount]
           Class(k) == {f \in E : h[f] = k}
<1>1. IsFiniteSet(E) /\ \A f \in E : amount[f] \in Int
  BY FiguresAssumption, SumOfType
<1>2. SumOf(E) = SumFunctionOnSet(amount, E)
  BY DEF SumOf, SumOver
<1>3. \A k : SumOf(Class(k)) = SumFunctionOnSet(amount, Class(k))
  <2> SUFFICES ASSUME NEW k PROVE SumOf(Class(k)) = SumFunctionOnSet(amount, Class(k))
    OBVIOUS
  <2> DEFINE own == [f \in Class(k) |-> f.amount]
  <2>1. SumOf(Class(k)) = SumFunctionOnSet(own, Class(k))
    BY DEF SumOf, SumOver
  <2>2. IsFiniteSet(Class(k)) /\ \A f \in Class(k) : own[f] = amount[f]
    BY <1>1, FS_Subset
  <2> HIDE DEF own, amount, Class
  <2>3. QED
    BY <2>1, <2>2, SumCongruence
<1> HIDE DEF amount
<1>4. SumFunctionOnSet(amount, E) = SumFunctionOnSet([k \in K |-> SumFunctionOnSet(amount, Class(k))], K)
  BY <1>1, SumFibers
<1> HIDE DEF Class
<1>5. [k \in K |-> SumFunctionOnSet(amount, Class(k))] = [k \in K |-> SumOf(Class(k))]
  BY <1>3
<1>6. QED
  BY <1>2, <1>4, <1>5 DEF Class

(* The rows of a month's categories. *)
KindRows(F, kind) == {row \in Categories(F) : row.kind = kind}

RowFacts(F, kind, category) == {f \in F : f.kind = kind /\ f.category = category}

RowOf(F, kind, category) ==
  [kind |-> kind, category |-> category, total |-> SumOf(RowFacts(F, kind, category)),
   share |-> Share(SumOf(RowFacts(F, kind, category)),
                   IF kind = "expense" THEN TotalsOf(F).expense ELSE TotalsOf(F).income)]

(* The categories of a dashboard are the rows of its facts, one for each kind and category. *)
LEMMA CategoriesAreRows ==
  ASSUME NEW F
  PROVE  /\ \A f \in F : RowOf(F, f.kind, f.category) \in Categories(F)
         /\ \A row \in Categories(F) : \E f \in F : row = RowOf(F, f.kind, f.category)
<1>1. Categories(F) = {RowOf(F, key[1], key[2]) : key \in {<<f.kind, f.category>> : f \in F}}
  BY DEF Categories, RowOf, RowFacts
<1>2. ASSUME NEW f \in F PROVE RowOf(F, f.kind, f.category) \in Categories(F)
  <2> DEFINE key == <<f.kind, f.category>>
  <2>1. key \in {<<g.kind, g.category>> : g \in F} /\ key[1] = f.kind /\ key[2] = f.category
    OBVIOUS
  <2> HIDE DEF key
  <2>2. QED
    BY <1>1, <2>1
<1>3. ASSUME NEW row \in Categories(F) PROVE \E f \in F : row = RowOf(F, f.kind, f.category)
  <2>1. PICK key \in {<<f.kind, f.category>> : f \in F} : row = RowOf(F, key[1], key[2])
    BY <1>1
  <2>2. PICK f \in F : key = <<f.kind, f.category>>
    BY <2>1
  <2>3. key[1] = f.kind /\ key[2] = f.category
    BY <2>2
  <2>4. QED
    BY <2>1, <2>3
<1>4. QED
  BY <1>2, <1>3

(* The totals of a kind's rows add up to the total of the kind. *)
LEMMA RowsAddUp ==
  ASSUME NEW F, F \subseteq Candidates, NEW kind
  PROVE  SumOver(KindRows(F, kind), LAMBDA row : row.total) = SumOf({f \in F : f.kind = kind})
<1> DEFINE E == {f \in F : f.kind = kind}
           K == KindRows(F, kind)
           h == [f \in E |-> RowOf(F, f.kind, f.category)]
<1>1. \A f \in E : h[f] \in K
  BY CategoriesAreRows DEF KindRows, RowOf
<1>2. K \subseteq {h[f] : f \in E}
  BY CategoriesAreRows DEF KindRows, RowOf
<1>3. IsFiniteSet(K)
  <2>1. IsFiniteSet(E)
    BY SumOfType
  <2> HIDE DEF h, E
  <2>2. IsFiniteSet({h[f] : f \in E})
    BY <2>1, ImageIsFinite
  <2>3. QED
    BY <1>2, <2>2, FS_Subset
<1>4. \A row \in K : SumOf({f \in E : h[f] = row}) = row.total
  <2> SUFFICES ASSUME NEW row \in K PROVE SumOf({f \in E : h[f] = row}) = row.total
    OBVIOUS
  <2>1. PICK g \in E : row = RowOf(F, g.kind, g.category)
    BY <1>2
  <2>2. row.total = SumOf(RowFacts(F, g.kind, g.category)) /\ row.kind = g.kind /\ row.category = g.category
    BY <2>1 DEF RowOf
  <2>3. \A f \in E : h[f] = row <=> f.kind = g.kind /\ f.category = g.category
    BY <2>1, <2>2 DEF RowOf
  <2>4. {f \in E : h[f] = row} = RowFacts(F, g.kind, g.category)
    <3> HIDE DEF h
    <3>1. QED
      BY <2>3 DEF RowFacts
  <2>5. QED
    BY <2>2, <2>4
<1> HIDE DEF h, K
<1>5. SumOf(E) = SumFunctionOnSet([row \in K |-> SumOf({f \in E : h[f] = row})], K)
  <2> HIDE DEF E
  <2>1. E \subseteq Candidates
    BY DEF E
  <2>2. QED
    BY <1>1, <1>3, <2>1, SumOfClasses
<1>6. [row \in K |-> SumOf({f \in E : h[f] = row})] = [row \in K |-> row.total]
  BY <1>4
<1>7. QED
  BY <1>5, <1>6 DEF SumOver, K

(* The net of facts may be summed class by class. *)
LEMMA NetByClass ==
  ASSUME NEW F, F \subseteq Candidates, NEW K, IsFiniteSet(K), NEW h, \A f \in F : h[f] \in K
  PROVE  SumFunctionOnSet([k \in K |-> Net(TotalsOf({f \in F : h[f] = k}))], K) = Net(TotalsOf(F))
<1> DEFINE of(k) == {f \in F : h[f] = k}
           In1(k) == SumOf({f \in F \ Expenses(F) : h[f] = k})
           Out(k) == SumOf({f \in Expenses(F) : h[f] = k})
<1>1. /\ F \ Expenses(F) \subseteq Candidates /\ \A f \in F \ Expenses(F) : h[f] \in K
      /\ Expenses(F) \subseteq Candidates /\ \A f \in Expenses(F) : h[f] \in K
  BY DEF Expenses
<1>2. SumOf(F \ Expenses(F)) = SumFunctionOnSet([k \in K |-> In1(k)], K)
  BY <1>1, SumOfClasses
<1>3. SumOf(Expenses(F)) = SumFunctionOnSet([k \in K |-> Out(k)], K)
  BY <1>1, SumOfClasses
<1>4. \A k : Net(TotalsOf(of(k))) = In1(k) - Out(k)
  <2> SUFFICES ASSUME NEW k PROVE Net(TotalsOf(of(k))) = In1(k) - Out(k)
    OBVIOUS
  <2>1. /\ of(k) \ Expenses(of(k)) = {f \in F \ Expenses(F) : h[f] = k}
        /\ Expenses(of(k)) = {f \in Expenses(F) : h[f] = k}
    BY DEF Expenses
  <2>2. QED
    BY <2>1 DEF Net, TotalsOf
<1>5. \A k : In1(k) \in Int /\ Out(k) \in Int
  BY SumOfType DEF Expenses
<1> DEFINE n == [k \in K |-> Net(TotalsOf(of(k)))]
           i == [k \in K |-> In1(k)]
           o == [k \in K |-> Out(k)]
<1>6. \A k \in K : i[k] \in Int /\ o[k] \in Int /\ n[k] = i[k] - o[k]
  <2> HIDE DEF In1, Out, of
  <2>1. QED
    BY <1>4, <1>5
<1>7. SumFunctionOnSet(n, K) = SumFunctionOnSet(i, K) - SumFunctionOnSet(o, K)
  <2> HIDE DEF n, i, o
  <2>1. QED
    BY <1>6, SumMinus
<1>8. Net(TotalsOf(F)) = SumOf(F \ Expenses(F)) - SumOf(Expenses(F))
  BY DEF Net, TotalsOf
<1>9. QED
  BY <1>2, <1>3, <1>7, <1>8

(* The nets of the accounts of some facts add up to theirs. *)
LEMMA AccountsAddUp ==
  ASSUME NEW F, F \subseteq Candidates
  PROVE  SumOver({f.account : f \in F}, LAMBDA a : Net(TotalsOf({f \in F : f.account = a})))
           = Net(TotalsOf(F))
<1> DEFINE h == [f \in F |-> f.account]
           K == {f.account : f \in F}
<1>1. K = {h[f] : f \in F} /\ IsFiniteSet(F) /\ \A f \in F : h[f] \in K
  BY SumOfType
<1>2. \A a : {f \in F : h[f] = a} = {f \in F : f.account = a}
  OBVIOUS
<1> HIDE DEF h, K
<1>3. IsFiniteSet(K)
  BY <1>1, ImageIsFinite
<1>4. SumFunctionOnSet([a \in K |-> Net(TotalsOf({f \in F : h[f] = a}))], K) = Net(TotalsOf(F))
  BY <1>1, <1>3, NetByClass
<1>5. QED
  BY <1>2, <1>4 DEF SumOver, K

OfCurrency(u, c) == {f \in MineOf(u) : f.currency = c}

(* What the dashboard of a PREMIUM user shows, from all the facts.  *)
LEMMA PremiumDashboard ==
  ASSUME facts \subseteq Candidates, NEW u \in Users, NEW p \in Int
  PROVE  /\ DashboardOf(u, p, "premium") = Dashboard(p, MineOf(u), TrendMonths, NoFigure)
         /\ DOMAIN DashboardOf(u, p, "premium")
              = {f.currency : f \in {f \in MineOf(u) : f.month \in Window(p, TrendMonths)}}
<1>1. DashboardOf(u, p, "premium") = Dashboard(p, MineOf(u), TrendOf("premium"), EarliestOf("premium"))
  BY LoadedSuffices DEF Plans
<1>2. TrendOf("premium") = TrendMonths /\ EarliestOf("premium") = NoFigure
  BY DEF TrendOf, EarliestOf
<1>3. DOMAIN Dashboard(p, MineOf(u), TrendMonths, NoFigure)
        = {f.currency : f \in {f \in MineOf(u) : f.month \in Window(p, TrendMonths)}}
  BY DEF Dashboard
<1>4. QED
  BY <1>1, <1>2, <1>3

(* Each figure of a section of that dashboard, from the facts of its currency. *)
LEMMA PremiumSection ==
  ASSUME facts \subseteq Candidates, NEW u \in Users, NEW p \in Int,
         NEW c \in DOMAIN DashboardOf(u, p, "premium")
  PROVE  LET section == DashboardOf(u, p, "premium")[c]
             current == In(OfCurrency(u, c), p)
         IN  /\ section.totals = TotalsOf(current)
             /\ section.categories = Categories(current)
             /\ section.accounts = [a \in {f.account : f \in current} |->
                                      TotalsOf({f \in current : f.account = a})]
             /\ section.trend = [m \in Window(p, TrendMonths) |-> TotalsOf(In(OfCurrency(u, c), m))]
             /\ section.comparison.totals = TotalsOf(In(OfCurrency(u, c), p - 1))
             /\ section = Dashboard(p, OfCurrency(u, c), TrendMonths, NoFigure)[c]
<1> DEFINE W == Window(p, TrendMonths)
           mine == OfCurrency(u, c)
           slice == SliceOf(MineOf(u), c, p, TrendMonths, NoFigure)
<1>1. c \in {f.currency : f \in {f \in MineOf(u) : f.month \in W}}
  BY PremiumDashboard
<1>2. DashboardOf(u, p, "premium")[c] = Section(slice, p, W, TRUE) /\ Compares(p, NoFigure) = TRUE
  <2>1. Compares(p, NoFigure) = TRUE
    BY DEF Compares
  <2>2. Dashboard(p, MineOf(u), TrendMonths, NoFigure)[c] = Section(slice, p, W, Compares(p, NoFigure))
    BY <1>1, DashboardSection
  <2>3. QED
    BY <2>1, <2>2, PremiumDashboard
<1>3. slice = {f \in mine : f.month \in W \/ f.month = p - 1}
  BY DEF SliceOf, Compares, OfCurrency
<1>4. \A m \in W \cup {p - 1} : In(slice, m) = In(mine, m)
  <2> HIDE DEF slice, W, mine
  <2>1. QED
    BY <1>3 DEF In
<1>5. p \in W
  BY FiguresAssumption DEF Window
<1>6. In(slice, p) = In(mine, p) /\ In(slice, p - 1) = In(mine, p - 1)
  BY <1>4, <1>5
<1>7. [m \in W |-> TotalsOf(In(slice, m))] = [m \in W |-> TotalsOf(In(mine, m))]
  <2> HIDE DEF slice, W, mine
  <2>1. QED
    BY <1>4
<1>8. Dashboard(p, mine, TrendMonths, NoFigure)[c] = Section(slice, p, W, TRUE)
  <2>1. c \in {f.currency : f \in {f \in mine : f.month \in W}}
    BY <1>1 DEF OfCurrency
  <2>2. SliceOf(mine, c, p, TrendMonths, NoFigure) = slice
    BY DEF SliceOf, OfCurrency
  <2> HIDE DEF mine, slice
  <2>3. Dashboard(p, mine, TrendMonths, NoFigure)[c]
          = Section(SliceOf(mine, c, p, TrendMonths, NoFigure), p, W, Compares(p, NoFigure))
    BY <2>1, DashboardSection
  <2> HIDE DEF W
  <2>4. QED
    BY <1>2, <2>2, <2>3
<1> DEFINE S == Section(slice, p, W, TRUE)
<1>9. /\ S.totals = TotalsOf(In(slice, p))
      /\ S.categories = Categories(In(slice, p))
      /\ S.accounts = [a \in {f.account : f \in In(slice, p)} |->
                         TotalsOf({f \in In(slice, p) : f.account = a})]
      /\ S.trend = [m \in W |-> TotalsOf(In(slice, m))]
      /\ S.comparison.totals = TotalsOf(In(slice, p - 1))
  <2> HIDE DEF slice, W
  <2>1. QED
    BY DEF Section
<1> HIDE DEF S, slice, mine, W
<1>10. /\ S.totals = TotalsOf(In(mine, p))
       /\ S.categories = Categories(In(mine, p))
       /\ S.accounts = [a \in {f.account : f \in In(mine, p)} |->
                          TotalsOf({f \in In(mine, p) : f.account = a})]
       /\ S.trend = [m \in W |-> TotalsOf(In(mine, m))]
       /\ S.comparison.totals = TotalsOf(In(mine, p - 1))
  BY <1>6, <1>7, <1>9
<1>11. QED
  BY <1>2, <1>8, <1>10 DEF S, mine, W

(* A month is the same in its own dashboard and in a later trend. *)
LEMMA MonthInTrend ==
  ASSUME facts \subseteq Candidates, NEW u \in Users, NEW c, NEW m \in Periods
  PROVE  TotalsOf(In(OfCurrency(u, c), m)) =
           IF c \in DOMAIN DashboardOf(u, m, "premium") THEN DashboardOf(u, m, "premium")[c].totals
           ELSE [income |-> 0, expense |-> 0]
<1>1. CASE c \in DOMAIN DashboardOf(u, m, "premium")
  BY <1>1, PremiumSection, PeriodsAreMonths
<1>2. CASE c \notin DOMAIN DashboardOf(u, m, "premium")
  <2>1. m \in Window(m, TrendMonths)
    BY PeriodsAreMonths, FiguresAssumption DEF Window
  <2>2. c \notin {f.currency : f \in {f \in MineOf(u) : f.month \in Window(m, TrendMonths)}}
    BY <1>2, PremiumDashboard, PeriodsAreMonths
  <2>3. In(OfCurrency(u, c), m) = {}
    BY <2>1, <2>2 DEF In, OfCurrency
  <2>4. TotalsOf({}) = [income |-> 0, expense |-> 0]
    <3>1. {} \ Expenses({}) = {} /\ Expenses({}) = {}
      BY DEF Expenses
    <3>2. QED
      BY <3>1, SumOfNothing DEF TotalsOf
  <2>5. QED
    BY <1>2, <2>3, <2>4
<1>3. QED
  BY <1>1, <1>2

(* The categories of a month are those of its report. *)
LEMMA ReportAgrees ==
  ASSUME facts \subseteq Candidates, NEW u \in Users, NEW p \in Periods, NEW c,
         NEW row \in Categories(In(OfCurrency(u, c), p))
  PROVE  ReportOf(u, p).summary[<<c, row.kind, row.category>>].total = row.total
<1> DEFINE own == In(Load(u, p, p), p)
           rows(key) == {f \in own : <<f.currency, f.kind, f.category>> = key}
           keys == {<<f.currency, f.kind, f.category>> : f \in own}
           cur == In(OfCurrency(u, c), p)
<1>1. ReportOf(u, p).summary = [key \in keys |-> [total |-> SumOf(rows(key)), count |-> Cardinality(rows(key))]]
  BY DEF ReportOf, Report
<1>2. PICK g \in cur : row = RowOf(cur, g.kind, g.category)
  BY CategoriesAreRows
<1>3. row.kind = g.kind /\ row.category = g.category /\ row.total = SumOf(RowFacts(cur, g.kind, g.category))
  BY <1>2 DEF RowOf
<1>4. cur = {f \in own : f.currency = c}
  BY PeriodsAreMonths DEF In, Load, OfCurrency, MineOf
<1> DEFINE key == <<c, row.kind, row.category>>
<1>5. key \in keys
  BY <1>3, <1>4
<1>6. rows(key) = RowFacts(cur, g.kind, g.category)
  BY <1>3, <1>4 DEF RowFacts
<1> HIDE DEF rows, keys, cur, key
<1>7. ReportOf(u, p).summary[key].total = SumOf(rows(key))
  BY <1>1, <1>5
<1>8. QED
  BY <1>3, <1>6, <1>7 DEF key

(* The sections of a user's dashboard agree with one another, with later    *)
(* dashboards and with the report.                                         *)
LEMMA SectionsAgree ==
  ASSUME facts \subseteq Candidates, NEW u \in Users, NEW p \in Periods,
         NEW c \in DOMAIN DashboardOf(u, p, "premium")
  PROVE  LET section == DashboardOf(u, p, "premium")[c]
             kind(k) == {row \in section.categories : row.kind = k}
         IN  /\ SumOver(kind("expense"), LAMBDA row : row.total) = section.totals.expense
             /\ SumOver(kind("income"), LAMBDA row : row.total) = section.totals.income
             /\ SumOver(DOMAIN section.accounts, LAMBDA a : Net(section.accounts[a]))
                  = Net(section.totals)
             /\ section.trend[p] = section.totals
<1> DEFINE section == DashboardOf(u, p, "premium")[c]
           cur == In(OfCurrency(u, c), p)
           W == Window(p, TrendMonths)
           K == {f.account : f \in cur}
<1>1. /\ section.totals = TotalsOf(cur)
      /\ section.categories = Categories(cur)
      /\ section.accounts = [a \in K |-> TotalsOf({f \in cur : f.account = a})]
      /\ section.trend = [m \in W |-> TotalsOf(In(OfCurrency(u, c), m))]
  BY PremiumSection, PeriodsAreMonths
<1>2. cur \subseteq Candidates
  BY DEF In, OfCurrency, MineOf
<1>3. /\ {f \in cur : f.kind = "expense"} = Expenses(cur)
      /\ {f \in cur : f.kind = "income"} = cur \ Expenses(cur)
  BY <1>2, FiguresAssumption DEF Expenses
<1>4. p \in W
  BY PeriodsAreMonths, FiguresAssumption DEF Window
<1> HIDE DEF section, W
<1>5. section.trend[p] = section.totals
  BY <1>1, <1>4
<1> HIDE DEF cur
<1>6. /\ SumOver(KindRows(cur, "expense"), LAMBDA row : row.total) = section.totals.expense
      /\ SumOver(KindRows(cur, "income"), LAMBDA row : row.total) = section.totals.income
  BY <1>1, <1>2, <1>3, RowsAddUp DEF TotalsOf, SumOver
<1>7. \A k : {row \in section.categories : row.kind = k} = KindRows(cur, k)
  BY <1>1 DEF KindRows
<1>8. SumOver(DOMAIN section.accounts, LAMBDA a : Net(section.accounts[a])) = Net(section.totals)
  <2> DEFINE net == [a \in K |-> Net(TotalsOf({f \in cur : f.account = a}))]
             given == [a \in K |-> Net(section.accounts[a])]
  <2>1. SumFunctionOnSet(net, K) = Net(TotalsOf(cur))
    BY <1>2, AccountsAddUp DEF SumOver
  <2>2. given = net
    BY <1>1
  <2>3. DOMAIN section.accounts = K
    BY <1>1
  <2> HIDE DEF net
  <2>4. QED
    BY <1>1, <2>1, <2>2, <2>3 DEF SumOver
<1>9. QED
  BY <1>5, <1>6, <1>7, <1>8 DEF section, SumOver

(* The facts behind a row of the public summary. *)
PublicFacts(p, key) == {f \in Expenses(In(facts, p)) : <<f.category, f.currency>> = key}

FactsOfUser(u, p, key) == {f \in PublicFacts(p, key) : f.user = u}

SpentRow(u, p, key) == RowOf(In(OfCurrency(u, key[2]), p), "expense", key[1])

(* The row the dashboard of a user shows for the category and currency of a *)
(* row of the public summary, if the user spent there at all.              *)
LEMMA SpentIsRow ==
  ASSUME facts \subseteq Candidates, NEW u \in Users, NEW p \in Periods,
         NEW category, NEW c, NEW key, key = <<category, c>>
  PROVE  /\ Spent(u, p, key) = IF FactsOfUser(u, p, key) = {} THEN {} ELSE {SpentRow(u, p, key)}
         /\ SpentRow(u, p, key).total = SumOf(FactsOfUser(u, p, key))
<1> DEFINE cur == In(OfCurrency(u, c), p)
           M == RowFacts(cur, "expense", category)
           row == RowOf(cur, "expense", category)
           D == DashboardOf(u, p, "premium")
<1>1. key[1] = category /\ key[2] = c
  OBVIOUS
<1>2. FactsOfUser(u, p, key) = M
  BY DEF FactsOfUser, PublicFacts, Expenses, In, OfCurrency, MineOf, RowFacts
<1>3. SpentRow(u, p, key) = row
  BY <1>1 DEF SpentRow
<1>4. row.total = SumOf(M) /\ row.kind = "expense" /\ row.category = category
  BY DEF RowOf
<1>5. Spent(u, p, key) = IF c \notin DOMAIN D THEN {}
                         ELSE {r \in D[c].categories : r.kind = "expense" /\ r.category = category}
  BY <1>1 DEF Spent
<1>6. CASE c \notin DOMAIN D
  <2>1. p \in Window(p, TrendMonths)
    BY PeriodsAreMonths, FiguresAssumption DEF Window
  <2>2. c \notin {f.currency : f \in {f \in MineOf(u) : f.month \in Window(p, TrendMonths)}}
    BY <1>6, PremiumDashboard, PeriodsAreMonths
  <2>3. M = {}
    BY <2>1, <2>2 DEF In, OfCurrency, RowFacts
  <2>4. QED
    BY <1>2, <1>3, <1>4, <1>5, <1>6, <2>3
<1>7. CASE c \in DOMAIN D
  <2>1. D[c].categories = Categories(cur)
    BY <1>7, PremiumSection, PeriodsAreMonths
  <2> HIDE DEF D, cur
  <2>2. \A r \in Categories(cur) : r.kind = "expense" /\ r.category = category => r = row /\ M # {}
    <3> SUFFICES ASSUME NEW r \in Categories(cur), r.kind = "expense", r.category = category
                 PROVE  r = row /\ M # {}
      OBVIOUS
    <3>1. PICK g \in cur : r = RowOf(cur, g.kind, g.category)
      BY CategoriesAreRows
    <3>2. g.kind = "expense" /\ g.category = category
      BY <3>1 DEF RowOf
    <3>3. QED
      BY <3>1, <3>2 DEF RowFacts
  <2>3. M # {} => row \in Categories(cur)
    <3> SUFFICES ASSUME NEW g \in M PROVE row \in Categories(cur)
      OBVIOUS
    <3>1. g \in cur /\ g.kind = "expense" /\ g.category = category
      BY DEF RowFacts
    <3>2. QED
      BY <3>1, CategoriesAreRows
  <2> HIDE DEF M, row
  <2>4. {r \in Categories(cur) : r.kind = "expense" /\ r.category = category}
          = IF M = {} THEN {} ELSE {row}
    BY <1>4, <2>2, <2>3
  <2>5. QED
    BY <1>2, <1>3, <1>4, <1>5, <1>7, <2>1, <2>4
<1>8. QED
  BY <1>6, <1>7

(* A public row counts and adds up what the dashboards of its users show.   *)
LEMMA PublicRowsAddUp ==
  ASSUME facts \subseteq Candidates, NEW p \in Periods
  PROVE  PublicRowsAgree(p)
<1> DEFINE E == Expenses(In(facts, p))
           people(key) == Cardinality({f.user : f \in PublicFacts(p, key)})
<1> SUFFICES ASSUME NEW row \in PublicSummary(p)
             PROVE  /\ row.users = Cardinality({u \in Users : Spent(u, p, row.key) # {}})
                    /\ row.users >= PublicMinimum
                    /\ row.total = SumOver(UNION {{<<u, shown>> : shown \in Spent(u, p, row.key)} : u \in Users},
                                           LAMBDA pair : pair[2].total)
  BY Zenon DEF PublicRowsAgree
<1>1. PublicSummary(p) =
        {[key |-> key, users |-> people(key), total |-> SumOf(PublicFacts(p, key)),
          average |-> HalfUp(SumOf(PublicFacts(p, key)), people(key))]
         : key \in {key \in {<<f.category, f.currency>> : f \in E} : people(key) >= PublicMinimum}}
  BY DEF PublicSummary, SpendingSummary, PublicFacts
<1>2. PICK g \in E : /\ row.key = <<g.category, g.currency>>
                     /\ row.users = people(row.key) /\ row.users >= PublicMinimum
                     /\ row.total = SumOf(PublicFacts(p, row.key))
  <2> HIDE DEF E, people
  <2>1. PICK key \in {key \in {<<f.category, f.currency>> : f \in E} : people(key) >= PublicMinimum} :
          row = [key |-> key, users |-> people(key), total |-> SumOf(PublicFacts(p, key)),
                 average |-> HalfUp(SumOf(PublicFacts(p, key)), people(key))]
    BY <1>1
  <2>2. PICK g \in E : key = <<g.category, g.currency>>
    BY <2>1
  <2>3. QED
    BY <2>1, <2>2
<1> DEFINE key == row.key
           R == PublicFacts(p, key)
           P == UNION {{<<u, shown>> : shown \in Spent(u, p, key)} : u \in Users}
           h == [f \in R |-> <<f.user, SpentRow(f.user, p, key)>>]
<1>3. ASSUME NEW u \in Users
      PROVE  /\ Spent(u, p, key) = IF FactsOfUser(u, p, key) = {} THEN {} ELSE {SpentRow(u, p, key)}
             /\ SpentRow(u, p, key).total = SumOf(FactsOfUser(u, p, key))
  BY <1>2, SpentIsRow
<1>4. R \subseteq Candidates /\ \A f \in R : f.user \in Users
  BY DEF PublicFacts, Expenses, In, Users
<1> HIDE DEF key, people, E
<1>5. {u \in Users : Spent(u, p, key) # {}} = {f.user : f \in R}
  <2>1. \A u \in Users : Spent(u, p, key) # {} <=> \E f \in R : f.user = u
    BY <1>3 DEF FactsOfUser
  <2> HIDE DEF R
  <2>2. QED
    BY <1>4, <2>1
<1> HIDE DEF R
<1>6. P = {h[f] : f \in R}
  <2>1. ASSUME NEW f \in R PROVE h[f] \in P
    <3>1. f.user \in Users /\ FactsOfUser(f.user, p, key) # {}
      BY <1>4 DEF FactsOfUser, R
    <3>2. SpentRow(f.user, p, key) \in Spent(f.user, p, key)
      BY <1>3, <3>1
    <3>3. QED
      BY <3>1, <3>2
  <2>2. ASSUME NEW pair \in P PROVE \E f \in R : pair = h[f]
    <3>1. PICK u \in Users : \E shown \in Spent(u, p, key) : pair = <<u, shown>>
      OBVIOUS
    <3>2. FactsOfUser(u, p, key) # {} /\ pair = <<u, SpentRow(u, p, key)>>
      BY <1>3, <3>1
    <3>3. PICK f \in R : f.user = u
      BY <3>2 DEF FactsOfUser, R
    <3>4. QED
      BY <3>2, <3>3
  <2> HIDE DEF P, h
  <2>3. QED
    BY <2>1, <2>2
<1>7. ASSUME NEW pair \in P PROVE SumOf({f \in R : h[f] = pair}) = pair[2].total
  <2>1. PICK f \in R : pair = h[f]
    BY <1>6, <1>7
  <2>2. pair = <<f.user, SpentRow(f.user, p, key)>>
    BY <2>1
  <2>3. \A d \in R : h[d] = pair <=> d.user = f.user
    BY <2>2
  <2>4. {d \in R : h[d] = pair} = FactsOfUser(f.user, p, key)
    <3> HIDE DEF h
    <3>1. QED
      BY <2>3 DEF FactsOfUser, R
  <2>5. pair[2] = SpentRow(f.user, p, key)
    BY <2>2
  <2>6. QED
    BY <1>3, <1>4, <2>4, <2>5
<1>8. IsFiniteSet(P)
  <2>1. IsFiniteSet(R)
    BY <1>4, SumOfType
  <2> HIDE DEF h, P
  <2>2. QED
    BY <1>6, <2>1, ImageIsFinite
<1>9. SumOf(R) = SumFunctionOnSet([pair \in P |-> SumOf({f \in R : h[f] = pair})], P)
  <2>1. \A f \in R : h[f] \in P
    BY <1>6
  <2> HIDE DEF h, P
  <2>2. QED
    BY <1>4, <1>8, <2>1, SumOfClasses
<1>10. [pair \in P |-> SumOf({f \in R : h[f] = pair})] = [pair \in P |-> pair[2].total]
  <2> HIDE DEF h, P
  <2>1. QED
    BY <1>7
<1>11. row.total = SumFunctionOnSet([pair \in P |-> pair[2].total], P)
  <2> HIDE DEF h, P
  <2>1. QED
    BY <1>2, <1>9, <1>10 DEF key, R
<1>12. row.users = Cardinality({u \in Users : Spent(u, p, key) # {}})
  BY <1>2, <1>5 DEF key, R, people
<1>13. QED
  BY <1>2, <1>11, <1>12 DEF key, SumOver

(* The views of the facts agree. *)
LEMMA Views == facts \subseteq Candidates => ViewsAgree
<1> SUFFICES ASSUME facts \subseteq Candidates PROVE ViewsAgree
  OBVIOUS
<1>1. \A p \in Periods : PublicRowsAgree(p)
  BY PublicRowsAddUp
<1>2. ASSUME NEW u \in Users, NEW p \in Periods, NEW c \in DOMAIN DashboardOf(u, p, "premium")
      PROVE  LET section == DashboardOf(u, p, "premium")[c] IN
             /\ section.comparison.totals = TotalsOf(In(OfCurrency(u, c), p - 1))
             /\ \A m \in DOMAIN section.trend \cap Periods :
                  section.trend[m] = IF c \in DOMAIN DashboardOf(u, m, "premium")
                                     THEN DashboardOf(u, m, "premium")[c].totals
                                     ELSE [income |-> 0, expense |-> 0]
             /\ \A row \in section.categories :
                  ReportOf(u, p).summary[<<c, row.kind, row.category>>].total = row.total
             /\ section = Dashboard(p, OfCurrency(u, c), TrendMonths, NoFigure)[c]
  <2> DEFINE section == DashboardOf(u, p, "premium")[c]
             W == Window(p, TrendMonths)
  <2>1. /\ section.categories = Categories(In(OfCurrency(u, c), p))
        /\ section.trend = [m \in W |-> TotalsOf(In(OfCurrency(u, c), m))]
        /\ section.comparison.totals = TotalsOf(In(OfCurrency(u, c), p - 1))
        /\ section = Dashboard(p, OfCurrency(u, c), TrendMonths, NoFigure)[c]
    BY PremiumSection, PeriodsAreMonths
  <2> HIDE DEF section, W
  <2>2. DOMAIN section.trend = W /\ \A m \in W : section.trend[m] = TotalsOf(In(OfCurrency(u, c), m))
    BY <2>1
  <2>3. \A m \in DOMAIN section.trend \cap Periods :
          section.trend[m] = IF c \in DOMAIN DashboardOf(u, m, "premium")
                             THEN DashboardOf(u, m, "premium")[c].totals
                             ELSE [income |-> 0, expense |-> 0]
    BY <2>2, MonthInTrend
  <2>4. \A row \in section.categories :
          ReportOf(u, p).summary[<<c, row.kind, row.category>>].total = row.total
    BY <2>1, ReportAgrees
  <2>5. QED
    BY <2>1, <2>3, <2>4 DEF section
<1>3. ASSUME NEW u \in Users, NEW p \in Periods, NEW c \in DOMAIN DashboardOf(u, p, "premium")
      PROVE  LET dashboard == DashboardOf(u, p, "premium")
                 report == ReportOf(u, p).summary
                 section == dashboard[c]
                 kind(k) == {row \in section.categories : row.kind = k}
                 accounts == DOMAIN section.accounts
                 alone == {f \in MineOf(u) : f.currency = c}
             IN  /\ SumOver(kind("expense"), LAMBDA row : row.total) = section.totals.expense
                 /\ SumOver(kind("income"), LAMBDA row : row.total) = section.totals.income
                 /\ SumOver(accounts, LAMBDA a : Net(section.accounts[a])) = Net(section.totals)
                 /\ section.trend[p] = section.totals
                 /\ section.comparison.totals = TotalsOf(In(alone, p - 1))
                 /\ \A m \in DOMAIN section.trend \cap Periods :
                      LET then == DashboardOf(u, m, "premium") IN
                      section.trend[m] = IF c \in DOMAIN then THEN then[c].totals
                                         ELSE [income |-> 0, expense |-> 0]
                 /\ \A row \in section.categories :
                      report[<<c, row.kind, row.category>>].total = row.total
                 /\ section = Dashboard(p, alone, TrendMonths, NoFigure)[c]
  <2> DEFINE dashboard == DashboardOf(u, p, "premium")
             report == ReportOf(u, p).summary
             section == dashboard[c]
             kind(k) == {row \in section.categories : row.kind = k}
             accounts == DOMAIN section.accounts
             alone == {f \in MineOf(u) : f.currency = c}
  <2>1. /\ SumOver(kind("expense"), LAMBDA row : row.total) = section.totals.expense
        /\ SumOver(kind("income"), LAMBDA row : row.total) = section.totals.income
        /\ SumOver(accounts, LAMBDA a : Net(section.accounts[a])) = Net(section.totals)
        /\ section.trend[p] = section.totals
    BY SectionsAgree DEF SumOver
  <2>2. alone = OfCurrency(u, c)
    BY DEF OfCurrency
  <2>3. /\ section.comparison.totals = TotalsOf(In(alone, p - 1))
        /\ section = Dashboard(p, alone, TrendMonths, NoFigure)[c]
    <3> HIDE DEF alone
    <3>1. QED
      BY <1>2, <2>2
  <2>4. \A m \in DOMAIN section.trend \cap Periods :
          LET then == DashboardOf(u, m, "premium") IN
          section.trend[m] = IF c \in DOMAIN then THEN then[c].totals
                             ELSE [income |-> 0, expense |-> 0]
    BY <1>2
  <2>5. \A row \in section.categories : report[<<c, row.kind, row.category>>].total = row.total
    BY <1>2
  <2> HIDE DEF dashboard, report, alone
  <2>6. QED
    BY <2>1, <2>3, <2>4, <2>5 DEF dashboard, report, alone, SumOver
<1>4. QED
  BY <1>1, <1>3, Zenon DEF ViewsAgree

(* ViewsAgree, for any facts, users, currencies, accounts and windows.      *)
THEOREM ViewsAlwaysAgree == SpecFigures => []ViewsAgree
  BY FactsAreCandidates, Views, PTL

-----------------------------------------------------------------------------
(* What recommendation-service advises, of any facts as well.  Amounts are   *)
(* whole numbers, so that an average is at most half a unit off.            *)

(* The sign of an average is that of what it is of, but for the rounding. *)
LEMMA HalfUpSign ==
  ASSUME NEW n \in Int, NEW d \in Nat \ {0}
  PROVE  /\ HalfUp(n, d) \in Int
         /\ HalfUp(n, d) > 0 => n > 0
         /\ HalfUp(n, d) <= 0 => 2 * n < d
<1> DEFINE q == (2 * n + d) \div (2 * d)
           r == (2 * (-n) + d) \div (2 * d)
<1>1. 2 * d \in Nat /\ 2 * d > 0 /\ 2 * n + d \in Int /\ 2 * (-n) + d \in Int
  OBVIOUS
<1>2. q \in Int /\ r \in Int
  BY <1>1
<1>3. n >= 0 => (q <= 0 => 2 * n < d) /\ (q > 0 => n > 0)
  BY <1>1
<1>4. n < 0 => r >= 0
  BY <1>1
<1>5. HalfUp(n, d) = IF n < 0 THEN -r ELSE q
  BY DEF HalfUp, Magnitude
<1> HIDE DEF q, r
<1>6. QED
  BY <1>2, <1>3, <1>4, <1>5

(* A spike is more than the average it is compared with, rounded. *)
LEMMA SpikeSaves ==
  ASSUME NEW current \in Int, NEW past \in Int, past > 0, current >= SpikeMinimum,
         100 * SpikeLookback * current >= (100 + SpikePercent) * past
  PROVE  current > HalfUp(past, SpikeLookback)
<1> DEFINE d == SpikeLookback
           q == (2 * past + d) \div (2 * d)
           P == SpikePercent
           M == SpikeMinimum
<1>1. d \in Nat \ {0} /\ P \in Nat \ {0} /\ M \in Int /\ 2 * P * M > 100 + P
  BY FiguresAssumption, AdviceAssumption
<1>2. HalfUp(past, d) = q
  BY DEF HalfUp, Magnitude
<1> SUFFICES ASSUME q >= current PROVE FALSE
  <2>1. q \in Int
    BY <1>1
  <2>2. QED
    BY <1>2, <2>1
<1>3. q \in Int /\ 2 * d * q <= 2 * past + d
  BY <1>1
<1>4. 100 * d * current >= (100 + P) * past /\ current >= M
  OBVIOUS
<1> HIDE DEF d, q, P, M
<1>5. 2 * d * current <= 2 * d * q
  BY <1>1, <1>3
<1>6. 2 * d * current <= 2 * past + d
  BY <1>1, <1>3, <1>5
<1>7. (100 + P) * (2 * d * current) <= (100 + P) * (2 * past + d)
  BY <1>1, <1>6
<1>8. (100 + P) * (2 * past + d) = 2 * ((100 + P) * past) + (100 + P) * d
  BY <1>1
<1>9. (100 + P) * (2 * d * current) = 2 * (100 * d * current) + 2 * (P * (d * current))
  BY <1>1
<1>10. 2 * (P * (d * current)) <= (100 + P) * d
  BY <1>1, <1>4, <1>7, <1>8, <1>9
<1>11. 2 * (P * (d * current)) = d * (2 * P * current) /\ (100 + P) * d = d * (100 + P)
  BY <1>1
<1>12. 2 * P * current <= 100 + P
  BY <1>1, <1>10, <1>11
<1>13. 2 * P * M <= 2 * P * current
  BY <1>1, <1>4
<1>14. QED
  BY <1>1, <1>12, <1>13

Trending(u) == {f \in MineOf(u) : f.month \in Window(Today, TrendMonths)}

CompleteMonths(u, c) == {f \in OfCurrency(u, c) : f.month \in Window(Today - 1, SurplusMonths)}

(* Net of a set of facts: a whole number, and zero of none. *)
LEMMA NetType ==
  /\ \A F \in SUBSET Candidates : Net(TotalsOf(F)) \in Int
  /\ Net(TotalsOf({})) = 0
<1>1. ASSUME NEW F \in SUBSET Candidates PROVE Net(TotalsOf(F)) \in Int
  <2>1. SumOf(F \ Expenses(F)) \in Int /\ SumOf(Expenses(F)) \in Int
    BY SumOfType DEF Expenses
  <2>2. QED
    BY <2>1 DEF Net, TotalsOf
<1>2. Net(TotalsOf({})) = 0
  <2>1. {} \ Expenses({}) = {} /\ Expenses({}) = {}
    BY DEF Expenses
  <2>2. QED
    BY <2>1, SumOfNothing DEF Net, TotalsOf
<1>3. QED
  BY <1>1, <1>2

(* The nets of a snapshot are those of the months of the trend. *)
LEMMA SnapshotNets ==
  ASSUME facts \subseteq Candidates, NEW u \in Users
  PROVE  LET nets == Snapshot(u).nets
             W == Window(Today, TrendMonths)
         IN  /\ nets = [c \in {f.currency : f \in Trending(u)} |->
                           [m \in W |-> Net(TotalsOf(In(OfCurrency(u, c), m)))]]
             /\ nets \in [{f.currency : f \in Trending(u)} -> [W -> Int]]
             /\ Snapshot(u) # NoSnapshot
<1> DEFINE W == Window(Today, TrendMonths)
           D == DashboardOf(u, Today, "premium")
           C == {f.currency : f \in Trending(u)}
           N(c) == [m \in W |-> Net(TotalsOf(In(OfCurrency(u, c), m)))]
           T(c) == [m \in DOMAIN D[c].trend |-> Net(D[c].trend[m])]
<1>1. Today \in Int
  BY FiguresAssumption
<1>2. Snapshot(u).nets = [c \in DOMAIN D |-> T(c)]
  BY DEF Snapshot, AnalyticsSnapshot
<1>3. DOMAIN D = C
  BY <1>1, PremiumDashboard DEF Trending
<1>4. ASSUME NEW c \in DOMAIN D PROVE T(c) = N(c)
  <2>1. D[c].trend = [m \in W |-> TotalsOf(In(OfCurrency(u, c), m))]
    BY <1>1, PremiumSection
  <2> HIDE DEF D, W
  <2>2. QED
    BY <2>1
<1>5. ASSUME NEW c PROVE N(c) \in [W -> Int]
  <2>1. \A m : In(OfCurrency(u, c), m) \in SUBSET Candidates
    BY DEF In, OfCurrency, MineOf
  <2> HIDE DEF W
  <2>2. QED
    BY <2>1, NetType
<1> HIDE DEF N, T, D, W, C
<1>6. Snapshot(u).nets = [c \in C |-> N(c)]
  BY <1>2, <1>3, <1>4
<1>7. Snapshot(u).nets \in [C -> [W -> Int]]
  BY <1>5, <1>6
<1>8. Snapshot(u).nets # NoFigure
  <2>1. C \in SUBSET {f.currency : f \in Candidates}
    BY DEF C, Trending, MineOf
  <2>2. QED
    BY <1>7, <2>1, AdviceAssumption DEF W
<1>9. Snapshot(u) # NoSnapshot
  <2>1. NoSnapshot.nets = NoFigure
    BY DEF NoSnapshot
  <2>2. QED
    BY <1>8, <2>1
<1>10. QED
  BY <1>6, <1>7, <1>9 DEF C, N, W

(* The complete months are some of the months of the trend. *)
LEMMA CompleteMonthsInTrend ==
  /\ Window(Today - 1, SurplusMonths) \subseteq Window(Today, TrendMonths)
  /\ IsFiniteSet(Window(Today - 1, SurplusMonths))
<1>1. Today \in Int /\ SurplusMonths \in Int /\ TrendMonths \in Int /\ SurplusMonths < TrendMonths
  BY FiguresAssumption, AdviceAssumption
<1>2. Window(Today - 1, SurplusMonths) \subseteq Window(Today, TrendMonths)
  BY <1>1 DEF Window
<1>3. IsFiniteSet(Window(Today - 1, SurplusMonths))
  BY <1>1, FS_Interval DEF Window
<1>4. QED
  BY <1>2, <1>3

(* A surplus is the average of the net of the complete months. *)
LEMMA SurplusesAreAverages ==
  ASSUME facts \subseteq Candidates, NEW u \in Users
  PROVE  LET C == {f.currency : f \in Trending(u)} IN
         Surpluses(Snapshot(u)) =
           [c \in (IF C = {} THEN {DefaultCurrency} ELSE C) |->
              HalfUp(Net(TotalsOf(CompleteMonths(u, c))), SurplusMonths)]
<1> DEFINE W == Window(Today, TrendMonths)
           K == Window(Today - 1, SurplusMonths)
           C == {f.currency : f \in Trending(u)}
           nets == Snapshot(u).nets
           net(c, m) == IF c \in DOMAIN nets /\ m \in DOMAIN nets[c] THEN nets[c][m] ELSE 0
           A(c) == HalfUp(SumFunctionOnSet([m \in K |-> net(c, m)], K), SurplusMonths)
           B(c) == HalfUp(Net(TotalsOf(CompleteMonths(u, c))), SurplusMonths)
<1>1. Today \in Int /\ K \subseteq W /\ IsFiniteSet(K)
  BY CompleteMonthsInTrend, FiguresAssumption
<1>2. nets = [c \in C |-> [m \in W |-> Net(TotalsOf(In(OfCurrency(u, c), m)))]]
  BY SnapshotNets
<1>3. Surpluses(Snapshot(u)) = [c \in (IF DOMAIN nets = {} THEN {DefaultCurrency} ELSE DOMAIN nets) |-> A(c)]
  BY DEF Surpluses, SumOver
<1> HIDE DEF nets
<1>4. DOMAIN nets = C
  BY <1>2
<1>5. ASSUME NEW c, c \in C \/ C = {} PROVE A(c) = B(c)
  <2> DEFINE F == CompleteMonths(u, c)
             h == [f \in F |-> f.month]
  <2>1. F \subseteq Candidates /\ \A f \in F : h[f] \in K
    BY DEF CompleteMonths, OfCurrency, MineOf
  <2>2. ASSUME NEW m \in K PROVE net(c, m) = Net(TotalsOf({f \in F : h[f] = m}))
    <3>1. {f \in F : h[f] = m} = In(OfCurrency(u, c), m)
      BY DEF CompleteMonths, In
    <3>2. CASE c \in C
      <4>1. nets[c] = [i \in W |-> Net(TotalsOf(In(OfCurrency(u, c), i)))]
        BY <1>2, <3>2
      <4> HIDE DEF C, W
      <4>2. QED
        BY <1>1, <1>4, <3>1, <3>2, <4>1
    <3>3. CASE c \notin C
      <4>1. Trending(u) = {}
        BY <1>5, <3>3
      <4>2. {f \in F : h[f] = m} = {}
        BY <1>1, <4>1 DEF CompleteMonths, OfCurrency, Trending
      <4>3. QED
        BY <1>4, <3>3, <4>2, NetType
    <3>4. QED
      BY <3>2, <3>3
  <2> HIDE DEF F, h, K, net
  <2>3. SumFunctionOnSet([m \in K |-> Net(TotalsOf({f \in F : h[f] = m}))], K) = Net(TotalsOf(F))
    BY <1>1, <2>1, NetByClass
  <2>4. [m \in K |-> net(c, m)] = [m \in K |-> Net(TotalsOf({f \in F : h[f] = m}))]
    BY <2>2
  <2>5. QED
    BY <2>3, <2>4 DEF F
<1> HIDE DEF A, B, C
<1>6. QED
  BY <1>3, <1>4, <1>5 DEF B, C

(* The insights of a snapshot are those of all the facts of the month. *)
LEMMA SnapshotInsights ==
  ASSUME facts \subseteq Candidates, NEW u \in Users, NEW c, NEW i
  PROVE  <<c, i>> \in Snapshot(u).insights <=>
           /\ In(OfCurrency(u, c), Today) # {}
           /\ i \in NegativeSavings(OfCurrency(u, c), Today)
                      \cup Spikes(OfCurrency(u, c), Today) \cup TopCategory(OfCurrency(u, c), Today)
<1> DEFINE I == InsightsOf(u, Today)
           Found(d) == NegativeSavings(OfCurrency(u, d), Today)
                         \cup Spikes(OfCurrency(u, d), Today) \cup TopCategory(OfCurrency(u, d), Today)
           C == {f.currency : f \in In(MineOf(u), Today)}
<1>1. I = [d \in C |-> Found(d)]
  <2>1. I = Insights(Today, MineOf(u))
    BY LoadedSuffices, FiguresAssumption
  <2>2. Insights(Today, MineOf(u)) = [d \in C |-> Found(d)]
    BY DEF Insights, OfCurrency
  <2>3. QED
    BY <2>1, <2>2
<1>2. Snapshot(u).insights = UNION {{<<d, j>> : j \in I[d]} : d \in DOMAIN I}
  BY DEF Snapshot, AnalyticsSnapshot
<1>3. c \in C <=> In(OfCurrency(u, c), Today) # {}
  BY DEF In, OfCurrency
<1> HIDE DEF I, Found, C
<1>4. <<c, i>> \in Snapshot(u).insights <=> c \in C /\ i \in Found(c)
  BY <1>1, <1>2
<1>5. QED
  BY <1>3, <1>4 DEF Found

(* The other insights are not about negative savings. *)
LEMMA OtherInsights ==
  ASSUME NEW F, NEW i \in Spikes(F, Today) \cup TopCategory(F, Today)
  PROVE  i.code # "negative_savings"
<1> DEFINE spike(d) == [code |-> "category_spike", category |-> d, current |-> SpentOn(F, Today, d),
                        average |-> HalfUp(SumOver(Window(Today - 1, SpikeLookback),
                                                   LAMBDA m : SpentOn(F, m, d)), SpikeLookback)]
<1>1. i \in Spikes(F, Today) => \E d : i = spike(d)
  BY DEF Spikes
<1>2. \A d : spike(d).code = "category_spike"
  OBVIOUS
<1> HIDE DEF spike
<1>3. i \in TopCategory(F, Today) => i.code = "top_category"
  BY DEF TopCategory
<1>4. QED
  BY <1>1, <1>2, <1>3

(* A budget is advised exactly when the month spends more than it earns. *)
LEMMA BudgetWhenOverspent ==
  ASSUME facts \subseteq Candidates, NEW u \in Users, NEW c
  PROVE  (\E item \in Optimization(Snapshot(u)) : item.code = "build_budget" /\ item.currency = c)
           <=> Net(TotalsOf(In(OfCurrency(u, c), Today))) < 0
<1> DEFINE F == OfCurrency(u, c)
           S == Snapshot(u)
           totals == TotalsOf(In(F, Today))
           negative == [code |-> "negative_savings", totals |-> totals, deficit |-> -Net(totals)]
<1>1. In(F, Today) \in SUBSET Candidates
  BY DEF In, OfCurrency, MineOf
<1>2. totals.income \in Int /\ totals.expense \in Int
  <2>1. In(F, Today) \ Expenses(In(F, Today)) \in SUBSET Candidates
        /\ Expenses(In(F, Today)) \in SUBSET Candidates
    BY <1>1 DEF Expenses
  <2>2. QED
    BY <2>1, SumOfType DEF TotalsOf
<1>3. NegativeSavings(F, Today) = IF Net(totals) < 0 THEN {negative} ELSE {}
  <2> HIDE DEF F
  <2>1. totals.expense <= totals.income <=> ~(Net(totals) < 0)
    BY <1>2 DEF Net
  <2>2. QED
    BY <2>1 DEF NegativeSavings
<1>4. \A i \in Spikes(F, Today) \cup TopCategory(F, Today) : i.code # "negative_savings"
  BY OtherInsights
<1>5. In(F, Today) = {} => ~(Net(totals) < 0)
  BY NetType
<1> HIDE DEF totals
<1>6. (\E i : <<c, i>> \in S.insights /\ i.code = "negative_savings") <=> Net(totals) < 0
  <2>1. negative.code = "negative_savings"
    OBVIOUS
  <2> HIDE DEF negative, S
  <2>2. \A i : <<c, i>> \in S.insights <=>
          /\ In(F, Today) # {}
          /\ i \in NegativeSavings(F, Today) \cup Spikes(F, Today) \cup TopCategory(F, Today)
    BY SnapshotInsights DEF S
  <2> HIDE DEF F
  <2>3. QED
    BY <1>3, <1>4, <1>5, <2>1, <2>2
<1>7. \A found \in S.insights : Len(found) = 2 /\ found = <<found[1], found[2]>>
  BY DEF Snapshot, AnalyticsSnapshot
<1>8. (\E item \in Optimization(S) : item.code = "build_budget" /\ item.currency = c)
        <=> \E found \in S.insights : found[2].code = "negative_savings" /\ found[1] = c
  <2> DEFINE budget(found) == [code |-> "build_budget", currency |-> found[1], deficit |-> found[2].deficit]
             over == {found \in S.insights : found[2].code = "negative_savings"}
  <2> HIDE DEF S
  <2>1. \A found \in over : budget(found) \in Optimization(S)
    BY DEF Optimization
  <2>2. \A found : budget(found).code = "build_budget" /\ budget(found).currency = found[1]
    OBVIOUS
  <2>3. ASSUME NEW item \in Optimization(S), item.code = "build_budget"
        PROVE  \E found \in over : item = budget(found)
    BY <2>3 DEF Optimization
  <2> HIDE DEF budget
  <2>4. QED
    BY <2>1, <2>2, <2>3
<1>9. QED
  BY <1>6, <1>7, <1>8 DEF totals

(* A spike advised to be cut down frees something. *)
LEMMA SavingsFree ==
  ASSUME facts \subseteq Candidates, NEW u \in Users,
         NEW item \in Optimization(Snapshot(u)), item.code = "reduce_category"
  PROVE  item.saving \in Int /\ item.saving > 0
<1> DEFINE S == Snapshot(u)
<1>1. PICK found \in S.insights :
        found[2].code = "category_spike" /\ item.saving = found[2].current - found[2].average
  <2> HIDE DEF S
  <2>1. item \in Optimization(S)
    BY DEF S
  <2>2. QED
    BY <2>1 DEF Optimization
<1>2. PICK c, i : found = <<c, i>>
  BY DEF Snapshot, AnalyticsSnapshot
<1> DEFINE F == OfCurrency(u, c)
           W == Window(Today - 1, SpikeLookback)
           past(d) == SumFunctionOnSet([m \in W |-> SpentOn(F, m, d)], W)
<1>3. i \in Spikes(F, Today)
  <2>1. i \in NegativeSavings(F, Today) \cup Spikes(F, Today) \cup TopCategory(F, Today)
    BY <1>1, <1>2, SnapshotInsights
  <2>2. i.code = "category_spike"
    BY <1>1, <1>2
  <2>3. \A j \in NegativeSavings(F, Today) \cup TopCategory(F, Today) : j.code # "category_spike"
    BY DEF NegativeSavings, TopCategory
  <2>4. QED
    BY <2>1, <2>2, <2>3
<1>4. PICK d \in Named(F, Today) :
        /\ past(d) > 0
        /\ SpentOn(F, Today, d) >= SpikeMinimum
        /\ 100 * SpikeLookback * SpentOn(F, Today, d) >= (100 + SpikePercent) * past(d)
        /\ i = [code |-> "category_spike", category |-> d, current |-> SpentOn(F, Today, d),
                average |-> HalfUp(past(d), SpikeLookback)]
  <2> HIDE DEF F
  <2>1. QED
    BY <1>3 DEF Spikes, SumOver
<1>5. \A m : SpentOn(F, m, d) \in Int
  <2>1. \A m : {f \in Expenses(In(F, m)) : f.category = d} \in SUBSET Candidates
    BY DEF Expenses, In, OfCurrency, MineOf
  <2>2. QED
    BY <2>1, SumOfType DEF SpentOn
<1>6. past(d) \in Int
  <2>1. IsFiniteSet(W)
    <3>1. Today \in Int /\ SpikeLookback \in Int
      BY FiguresAssumption
    <3>2. QED
      BY <3>1, FS_Interval DEF Window
  <2> HIDE DEF W, F
  <2>2. \A m \in W : [n \in W |-> SpentOn(F, n, d)][m] \in Int
    BY <1>5
  <2>3. QED
    BY <2>1, <2>2, SumType
<1> HIDE DEF past, F
<1>7. SpentOn(F, Today, d) > HalfUp(past(d), SpikeLookback)
  BY <1>4, <1>5, <1>6, SpikeSaves
<1>8. HalfUp(past(d), SpikeLookback) \in Int
  BY <1>6, HalfUpSign, FiguresAssumption
<1>9. item.saving = SpentOn(F, Today, d) - HalfUp(past(d), SpikeLookback)
  BY <1>1, <1>2, <1>4
<1>10. QED
  BY <1>5, <1>7, <1>8, <1>9

(* What is advised to invest or to save, and in which currencies. *)
LEMMA InvestingFollows ==
  ASSUME facts \subseteq Candidates, NEW u \in Users, NEW type, type # NoProfile
  PROVE  LET items == Investing(type, Surpluses(Snapshot(u)))
             currencies == {f.currency : f \in MineOf(u)} \cup {DefaultCurrency}
         IN  /\ \A item \in items :
                  /\ item.currency \in currencies
                  /\ item.code = "invest_by_risk_profile" =>
                       Net(TotalsOf(CompleteMonths(u, item.currency))) > 0 /\ item.instruments = InstrumentsFor(type)
                  /\ item.code = "build_emergency_fund" =>
                       2 * Net(TotalsOf(CompleteMonths(u, item.currency))) < SurplusMonths
             /\ \A c \in currencies : CompleteMonths(u, c) # {} => \E item \in items : item.currency = c
<1> DEFINE C == {f.currency : f \in Trending(u)}
           D == IF C = {} THEN {DefaultCurrency} ELSE C
           s == Surpluses(Snapshot(u))
           net(c) == Net(TotalsOf(CompleteMonths(u, c)))
           item(c) == IF s[c] <= 0 THEN Saving(c, s[c]) ELSE Invest(type, c, s[c])
           currencies == {f.currency : f \in MineOf(u)} \cup {DefaultCurrency}
<1>1. s = [c \in D |-> HalfUp(net(c), SurplusMonths)]
  BY SurplusesAreAverages
<1>2. Investing(type, s) = {item(c) : c \in DOMAIN s}
  BY DEF Investing
<1>3. D \subseteq currencies
  BY DEF Trending
<1>4. \A c \in currencies : CompleteMonths(u, c) # {} => c \in D
  BY CompleteMonthsInTrend DEF CompleteMonths, Trending, OfCurrency
<1>5. \A c : net(c) \in Int
  <2>1. \A c : CompleteMonths(u, c) \in SUBSET Candidates
    BY DEF CompleteMonths, OfCurrency, MineOf
  <2>2. QED
    BY <2>1, NetType
<1>6. SurplusMonths \in Nat \ {0}
  BY AdviceAssumption
<1> HIDE DEF s, net, D, currencies
<1>7. ASSUME NEW c \in D
      PROVE  /\ item(c).currency = c
             /\ item(c).code = "invest_by_risk_profile" => net(c) > 0 /\ item(c).instruments = InstrumentsFor(type)
             /\ item(c).code = "build_emergency_fund" => 2 * net(c) < SurplusMonths
  <2>1. /\ s[c] \in Int
        /\ s[c] > 0 => net(c) > 0
        /\ s[c] <= 0 => 2 * net(c) < SurplusMonths
    BY <1>1, <1>5, <1>6, HalfUpSign
  <2>2. CASE s[c] <= 0
    BY <2>1, <2>2 DEF Saving
  <2>3. CASE ~(s[c] <= 0)
    BY <2>1, <2>3 DEF Invest
  <2>4. QED
    BY <2>2, <2>3
<1> HIDE DEF item
<1>8. Investing(type, s) = {item(c) : c \in D}
  BY <1>1, <1>2
<1>9. QED
  BY <1>3, <1>4, <1>7, <1>8 DEF s, net, currencies

(* A rounded quotient is half a unit off at most. *)
LEMMA HalfUpNear ==
  ASSUME NEW n \in Int, NEW d \in Nat \ {0}
  PROVE  2 * (HalfUp(n, d) * d - n) \in -d .. d
<1> DEFINE q(m) == (2 * m + d) \div (2 * d)
<1>1. ASSUME NEW m \in Nat PROVE q(m) \in Int /\ 2 * d * q(m) <= 2 * m + d /\ 2 * m + d <= 2 * d * q(m) + 2 * d
  <2>1. 2 * d \in Nat /\ 2 * d > 0 /\ 2 * m + d \in Int
    OBVIOUS
  <2>2. QED
    BY <2>1
<1>2. HalfUp(n, d) = IF n < 0 THEN -q(-n) ELSE q(n)
  BY DEF HalfUp, Magnitude
<1> HIDE DEF q
<1>3. CASE n < 0
  <2>1. -n \in Nat
    BY <1>3
  <2>2. q(-n) \in Int /\ 2 * d * q(-n) <= 2 * (-n) + d /\ 2 * (-n) + d <= 2 * d * q(-n) + 2 * d
    BY <1>1, <2>1
  <2>3. 2 * ((-q(-n)) * d - n) = 2 * (-n) - 2 * d * q(-n)
    BY <2>2
  <2>4. QED
    BY <1>2, <1>3, <2>2, <2>3
<1>4. CASE n >= 0
  <2>1. q(n) \in Int /\ 2 * d * q(n) <= 2 * n + d /\ 2 * n + d <= 2 * d * q(n) + 2 * d
    BY <1>1, <1>4
  <2>2. 2 * (q(n) * d - n) = 2 * d * q(n) - 2 * n
    BY <2>1
  <2>3. QED
    BY <1>2, <1>4, <2>1, <2>2
<1>5. QED
  BY <1>3, <1>4

(* What a factor of limited size makes of a bounded number. *)
LEMMA ProductWithin ==
  ASSUME NEW a \in Int, NEW b \in Int, NEW m \in Nat, b \in -m .. m
  PROVE  LET large == IF a < 0 THEN -a ELSE a IN a * b \in -(large * m) .. large * m
<1>1. CASE a >= 0
  <2>1. a * b <= a * m /\ a * (-m) <= a * b
    BY <1>1
  <2>2. a * (-m) = -(a * m)
    OBVIOUS
  <2>3. QED
    BY <1>1, <2>1, <2>2
<1>2. CASE a < 0
  <2>1. (-a) * b <= (-a) * m /\ (-a) * (-m) <= (-a) * b
    BY <1>2
  <2>2. (-a) * (-m) = -((-a) * m) /\ (-a) * b = -(a * b)
    OBVIOUS
  <2>3. QED
    BY <1>2, <2>1, <2>2
<1>3. QED
  BY <1>1, <1>2

(* An amount in pesos shown in dollars, by the rounded inverse of the rate. *)
LEMMA DollarsNear ==
  ASSUME NEW a \in Int
  PROVE  LET x == HalfUp(a * HalfUp(InverseQuantum * RateParts, PesosPerDollar), InverseQuantum)
             large == IF a < 0 THEN -a ELSE a
             most == InverseQuantum * PesosPerDollar + PesosPerDollar * large
         IN  /\ x \in Int
             /\ 2 * InverseQuantum * (x * PesosPerDollar - a * RateParts) \in -most .. most
<1> DEFINE Q == InverseQuantum
           P == PesosPerDollar
           R == RateParts
           q == HalfUp(Q * R, P)
           x == HalfUp(a * q, Q)
           e == 2 * (q * P - Q * R)
           d == 2 * (x * Q - a * q)
           large == IF a < 0 THEN -a ELSE a
<1>1. P \in Nat \ {0} /\ Q \in Nat \ {0} /\ R \in Nat \ {0}
  BY AdviceAssumption
<1> HIDE DEF P, Q, R
<1>2. q \in Int /\ e \in -P .. P
  <2>1. Q * R \in Int
    BY <1>1
  <2>2. QED
    BY <1>1, <2>1, HalfUpSign, HalfUpNear
<1> HIDE DEF q
<1>3. a * q \in Int
  BY <1>2
<1>4. x \in Int /\ d \in -Q .. Q
  BY <1>1, <1>3, HalfUpSign, HalfUpNear
<1> HIDE DEF x
<1>5. 2 * Q * (x * P - a * R) = P * d + a * e
  <2>1. P * d = 2 * (P * (x * Q)) - 2 * (P * (a * q))
    BY <1>1, <1>2, <1>4
  <2>2. a * e = 2 * (a * (q * P)) - 2 * (a * (Q * R))
    <3>1. Q * R \in Int
      BY <1>1
    <3>2. QED
      BY <1>2, <1>1, <3>1
  <2>3. P * (a * q) = a * (q * P) /\ P * (x * Q) = Q * (x * P) /\ a * (Q * R) = Q * (a * R)
    BY <1>1, <1>2, <1>4
  <2>4. 2 * Q * (x * P - a * R) = 2 * (Q * (x * P)) - 2 * (Q * (a * R))
    <3>1. a * R \in Int /\ x * P \in Int
      BY <1>1, <1>4
    <3>2. QED
      BY <1>1, <3>1
  <2>5. P * d \in Int /\ a * e \in Int /\ P * (x * Q) \in Int /\ a * (q * P) \in Int /\ Q * (a * R) \in Int
    <3>1. d \in Int /\ e \in Int
      BY <1>1, <1>2, <1>4
    <3>2. QED
      BY <1>1, <1>2, <1>4, <3>1
  <2> HIDE DEF d, e
  <2>6. QED
    BY <2>1, <2>2, <2>3, <2>4, <2>5
<1> HIDE DEF d, e
<1>6. P * d \in -(P * Q) .. P * Q
  <2>1. ~(P < 0) /\ P \in Int /\ Q \in Nat /\ d \in Int
    BY <1>1, <1>4
  <2>2. QED
    BY <1>4, <2>1, ProductWithin
<1>7. a * e \in -(large * P) .. large * P
  <2>1. P \in Nat /\ e \in Int
    BY <1>1, <1>2
  <2>2. QED
    BY <1>2, <2>1, ProductWithin
<1>8. large * P = P * large /\ P * Q = Q * P /\ P * large \in Int /\ Q * P \in Int
  BY <1>1
<1> HIDE DEF large
<1>9. P * d + a * e \in -(Q * P + P * large) .. Q * P + P * large
  BY <1>6, <1>7, <1>8
<1>10. QED
  BY <1>4, <1>5, <1>9 DEF P, Q, R, q, x, large

(* An amount in dollars shown in pesos, rounded to cents. *)
LEMMA PesosNear ==
  ASSUME NEW a \in Int
  PROVE  LET x == HalfUp(a * PesosPerDollar, RateParts)
             most == InverseQuantum * RateParts
         IN  /\ x \in Int
             /\ 2 * InverseQuantum * (x * RateParts - a * PesosPerDollar) \in -most .. most
<1> DEFINE Q == InverseQuantum
           R == RateParts
           n == a * PesosPerDollar
           x == HalfUp(n, R)
           d == 2 * (x * R - n)
<1>1. Q \in Nat \ {0} /\ R \in Nat \ {0} /\ n \in Int
  BY AdviceAssumption
<1> HIDE DEF Q, R, n
<1>2. x \in Int /\ d \in -R .. R
  BY <1>1, HalfUpSign, HalfUpNear
<1>3. 2 * Q * (x * R - n) = Q * d
  <2> DEFINE k == x * R - n
  <2>1. k \in Int /\ d = 2 * k
    BY <1>1, <1>2
  <2> HIDE DEF k, d
  <2>2. 2 * Q * k = Q * (2 * k)
    BY <1>1, <2>1
  <2>3. QED
    BY <2>1, <2>2 DEF k
<1> HIDE DEF x, d
<1>4. Q * d \in -(Q * R) .. Q * R
  <2>1. ~(Q < 0) /\ Q \in Int /\ R \in Nat /\ d \in Int
    BY <1>1, <1>2
  <2>2. QED
    BY <1>2, <2>1, ProductWithin
<1>5. QED
  BY <1>2, <1>3, <1>4 DEF Q, R, n, x

(* The average of a recurring expense and its frequency are whole numbers. *)
LEMMA PatternsAreNumbers ==
  ASSUME NEW F \in SUBSET Candidates, NEW p, NEW pattern \in Recurring(p, F)
  PROVE  HalfUp(pattern.average * pattern.frequency * 12, 100) \in Int
<1> DEFINE candidates == {f \in Expenses(F) : f.description # 0 /\ f.month \in Window(p, PatternWindow)}
           groups == {{f \in candidates : <<f.description, f.category, f.currency>> = key}
                      : key \in {<<f.description, f.category, f.currency>> : f \in candidates}}
           MonthsOf(G) == {f.month : f \in G}
           n(G) == Cardinality(Close(G))
           m(G) == Cardinality(MonthsOf(Close(G)))
<1>1. PICK G \in groups :
        /\ m(G) >= PatternMinimum
        /\ pattern.average = HalfUp(SumOf(Close(G)), n(G))
        /\ pattern.frequency = HalfEven(100 * n(G), m(G))
  BY DEF Recurring
<1>2. Close(G) \in SUBSET Candidates
  <2>1. G \subseteq Candidates
    BY DEF Expenses
  <2>2. QED
    BY <2>1 DEF Close
<1> HIDE DEF groups
<1>3. IsFiniteSet(Close(G)) /\ SumOf(Close(G)) \in Int
  BY <1>2, FS_Subset, SumOfType, FiguresAssumption
<1>4. n(G) \in Nat \ {0} /\ m(G) \in Nat \ {0}
  <2> DEFINE M == MonthsOf(Close(G))
  <2>1. IsFiniteSet(M)
    <3> DEFINE h == [f \in Close(G) |-> f.month]
    <3>1. M = {h[f] : f \in Close(G)}
      OBVIOUS
    <3> HIDE DEF h, M
    <3>2. QED
      BY <1>3, <3>1, ImageIsFinite
  <2> HIDE DEF M
  <2>2. Cardinality(M) \in Nat /\ n(G) \in Nat
    BY <1>3, <2>1, FS_CardinalityType
  <2>3. Cardinality(M) >= 1
    BY <1>1, <2>2, FiguresAssumption DEF M
  <2>4. M # {}
    BY <2>3, FS_EmptySet
  <2>5. Close(G) # {}
    BY <2>4 DEF M
  <2>6. n(G) # 0
    BY <1>3, <2>5, FS_EmptySet
  <2>7. QED
    BY <2>2, <2>3, <2>6 DEF M
<1> HIDE DEF n, m
<1>5. pattern.average \in Int
  BY <1>1, <1>3, <1>4, HalfUpSign
<1>6. pattern.frequency \in Int
  <2>1. Magnitude(100 * n(G), m(G)) \in Int
    <3>1. 2 * (100 * n(G)) + m(G) \in Int /\ 2 * m(G) \in Nat \ {0}
      BY <1>4
    <3>2. QED
      BY <3>1 DEF Magnitude
  <2>2. QED
    BY <1>1, <2>1 DEF HalfEven
<1>7. pattern.average * pattern.frequency * 12 \in Int
  BY <1>5, <1>6
<1>8. QED
  BY <1>7, HalfUpSign

(* Every amount advised is a number of cents in a currency. *)
LEMMA MoneyIsCents ==
  ASSUME facts \subseteq Candidates, NEW u \in Users, NEW type, type # NoProfile,
         NEW item \in Optimization(Snapshot(u)) \cup Investing(type, Surpluses(Snapshot(u)))
  PROVE  MoneyOf(item)[2] \in Int
<1> DEFINE S == Snapshot(u)
<1>1. CASE item \in Investing(type, Surpluses(S))
  <2> DEFINE s == Surpluses(S)
  <2>1. PICK c \in DOMAIN s : item = IF s[c] <= 0 THEN Saving(c, s[c]) ELSE Invest(type, c, s[c])
    BY <1>1 DEF Investing
  <2>2. s[c] \in Int
    <3> DEFINE C == {f.currency : f \in Trending(u)}
               D == IF C = {} THEN {DefaultCurrency} ELSE C
               net(d) == Net(TotalsOf(CompleteMonths(u, d)))
    <3>1. s = [d \in D |-> HalfUp(net(d), SurplusMonths)]
      BY SurplusesAreAverages
    <3>2. CompleteMonths(u, c) \in SUBSET Candidates
      BY DEF CompleteMonths, OfCurrency, MineOf
    <3>3. net(c) \in Int /\ SurplusMonths \in Nat \ {0}
      BY <3>2, NetType, AdviceAssumption
    <3> HIDE DEF s, D, net
    <3>4. QED
      BY <2>1, <3>1, <3>3, HalfUpSign
  <2> HIDE DEF s
  <2>3. item.code \in {"build_emergency_fund", "invest_by_risk_profile"} /\ item.surplus = s[c]
    BY <2>1 DEF Saving, Invest
  <2>4. MoneyOf(item) = <<item.currency, item.surplus>>
    BY <2>3 DEF MoneyOf
  <2>5. QED
    BY <2>2, <2>3, <2>4
<1>2. CASE item \in Optimization(S) /\ item.code = "build_budget"
  <2>1. PICK found \in S.insights : found[2].code = "negative_savings" /\ item.deficit = found[2].deficit
    <3> HIDE DEF S
    <3>1. QED
      BY <1>2 DEF Optimization
  <2>2. PICK c, i : found = <<c, i>>
    BY DEF Snapshot, AnalyticsSnapshot
  <2> DEFINE F == OfCurrency(u, c)
  <2>3. i \in NegativeSavings(F, Today) \cup Spikes(F, Today) \cup TopCategory(F, Today)
    BY <2>1, <2>2, SnapshotInsights
  <2>4. In(F, Today) \in SUBSET Candidates
    BY DEF In, OfCurrency, MineOf
  <2> HIDE DEF F
  <2>5. i \in NegativeSavings(F, Today)
    BY <2>1, <2>2, <2>3, OtherInsights
  <2>6. item.deficit = -Net(TotalsOf(In(F, Today)))
    BY <2>1, <2>2, <2>5 DEF NegativeSavings
  <2>7. MoneyOf(item) = <<item.currency, item.deficit>>
    BY <1>2 DEF MoneyOf
  <2>8. QED
    BY <2>4, <2>6, <2>7, NetType
<1>3. CASE item \in Optimization(S) /\ item.code = "reduce_category"
  <2>1. MoneyOf(item) = <<item.currency, item.saving>>
    BY <1>3 DEF MoneyOf
  <2>2. QED
    BY <1>3, <2>1, SavingsFree
<1>4. CASE item \in Optimization(S) /\ item.code \notin {"build_budget", "reduce_category"}
  <2>1. PICK pattern \in S.patterns :
          /\ item.code = "review_recurring_expense"
          /\ item.annual = HalfUp(pattern.average * pattern.frequency * 12, 100)
    <3> HIDE DEF S
    <3>1. QED
      BY <1>4 DEF Optimization
  <2>2. S.patterns = Recurring(Today, MineOf(u))
    BY LoadedSuffices, FiguresAssumption DEF Snapshot, AnalyticsSnapshot
  <2>3. item.annual \in Int
    <3>1. MineOf(u) \in SUBSET Candidates
      BY DEF MineOf
    <3>2. QED
      BY <2>1, <2>2, <3>1, PatternsAreNumbers
  <2>4. MoneyOf(item) = <<item.of[3], item.annual>>
    BY <2>1 DEF MoneyOf
  <2>5. QED
    BY <2>3, <2>4
<1>5. QED
  BY <1>1, <1>2, <1>3, <1>4

(* The equivalent shown of such an amount is true. *)
LEMMA EquivalentsHold ==
  ASSUME NEW own, own[1] \in {"COP", "USD"}, own[2] \in Int, NEW target \in {"COP", "USD"}
  PROVE  LET shown == Converted(own, target)
             large == IF own[2] < 0 THEN -own[2] ELSE own[2]
             most == InverseQuantum * Worth(<<target, 1>>)
                       + (IF target = "USD" THEN PesosPerDollar * large ELSE 0)
         IN  /\ shown[1] = target
             /\ 2 * InverseQuantum * (Worth(shown) - Worth(own)) \in -most .. most
<1> DEFINE Q == InverseQuantum
           P == PesosPerDollar
           R == RateParts
           a == own[2]
           large == IF a < 0 THEN -a ELSE a
           most == Q * Worth(<<target, 1>>) + (IF target = "USD" THEN P * large ELSE 0)
           shown == Converted(own, target)
<1>1. P \in Nat \ {0} /\ Q \in Nat \ {0} /\ R \in Nat \ {0} /\ a \in Int /\ large \in Nat
  BY AdviceAssumption
<1>2. /\ target = "USD" => most = Q * P + P * large
      /\ target = "COP" => most = Q * R
  BY <1>1 DEF Worth
<1>3. most \in Nat
  <2> HIDE DEF P, Q, R, large, most
  <2>1. Q * P \in Nat /\ P * large \in Nat /\ Q * R \in Nat
    BY <1>1
  <2>2. QED
    BY <1>2, <2>1
<1>4. CASE own[1] = target
  <2>1. shown = own
    BY <1>4 DEF Converted
  <2>2. Worth(own) \in Int
    BY <1>1 DEF Worth
  <2>3. 2 * Q * (Worth(shown) - Worth(own)) = 0
    <3> HIDE DEF shown, Q
    <3>1. QED
      BY <1>1, <2>1, <2>2
  <2>4. shown[1] = target
    BY <1>4, <2>1
  <2> HIDE DEF most, shown
  <2>5. 2 * Q * (Worth(shown) - Worth(own)) \in -most .. most
    BY <1>3, <2>3
  <2>6. QED
    BY <2>4, <2>5 DEF shown, most
<1>5. CASE own[1] = "USD" /\ target = "COP"
  <2> DEFINE x == HalfUp(a * P, R)
  <2>1. shown = <<"COP", x>>
    BY <1>5 DEF Converted
  <2>2. Worth(shown) = x * R /\ Worth(own) = a * P
    <3> HIDE DEF x, shown
    <3>1. QED
      BY <1>5, <2>1 DEF Worth
  <2>3. 2 * Q * (x * R - a * P) \in -most .. most
    BY <1>1, <1>2, <1>5, PesosNear
  <2> HIDE DEF x, shown, most
  <2>4. QED
    BY <1>5, <2>1, <2>2, <2>3 DEF shown, most
<1>6. CASE own[1] = "COP" /\ target = "USD"
  <2> DEFINE x == HalfUp(a * HalfUp(Q * R, P), Q)
  <2>1. shown = <<"USD", x>>
    BY <1>6 DEF Converted
  <2>2. Worth(shown) = x * P /\ Worth(own) = a * R
    <3> HIDE DEF x, shown
    <3>1. QED
      BY <1>6, <2>1 DEF Worth
  <2>3. 2 * Q * (x * P - a * R) \in -most .. most
    BY <1>1, <1>2, <1>6, DollarsNear
  <2> HIDE DEF x, shown, most
  <2>4. QED
    BY <1>6, <2>1, <2>2, <2>3 DEF shown, most
<1>7. QED
  BY <1>4, <1>5, <1>6

(* What is advised follows, under any profile and lock. *)
LEMMA AdviceOfFacts == facts \subseteq Candidates => AdviceFollowsFacts
<1> SUFFICES ASSUME facts \subseteq Candidates,
                    NEW u \in Users, NEW type \in ProfileTypes \cup {NoProfile}, NEW lock \in Locks
             PROVE  LET advice == Recommendations(Snapshot(u), type, lock) IN
                    /\ Follows(u, type, lock, advice,
                               Recommendations(NoSnapshot, type, lock), Recommendations(Snapshot(u), type, "none"))
                    /\ \A target \in {"COP", "USD"} :
                         \A entry \in Display(advice.optimization \cup advice.investment, target) :
                           MoneyOf(entry.of)[1] \in {"COP", "USD"} => ShownTruly(entry, target)
  BY DEF AdviceFollowsFacts
<1> DEFINE S == Snapshot(u)
           advice == Recommendations(S, type, lock)
           degraded == Recommendations(NoSnapshot, type, lock)
           free == Recommendations(S, type, "none")
           open == lock = "none" /\ type # NoProfile
<1>1. S # NoSnapshot
  BY SnapshotNets
<1> HIDE DEF S
<1>2. advice.optimization = Optimization(S) /\ free.optimization = Optimization(S)
  BY DEF Recommendations
<1>3. /\ advice.investment = IF open THEN Investing(type, Surpluses(S)) ELSE {}
      /\ degraded.investment = IF open THEN {Invest(type, NoFigure, NoFigure)} ELSE {}
  BY <1>1 DEF Recommendations
<1> HIDE DEF advice, degraded, free
<1> DEFINE complete(c) == {f \in OfCurrency(u, c) : f.month \in Window(Today - 1, SurplusMonths)}
           currencies == {f.currency : f \in MineOf(u)} \cup {DefaultCurrency}
<1>4. Follows(u, type, lock, advice, degraded, free) <=>
        /\ \A item \in advice.investment :
             /\ item.currency \in currencies
             /\ item.code = "invest_by_risk_profile" =>
                  Net(TotalsOf(complete(item.currency))) > 0 /\ item.instruments = InstrumentsFor(type)
             /\ item.code = "build_emergency_fund" =>
                  2 * Net(TotalsOf(complete(item.currency))) < SurplusMonths
        /\ \A c \in currencies :
             (\E item \in advice.optimization : item.code = "build_budget" /\ item.currency = c)
               <=> Net(TotalsOf(In(OfCurrency(u, c), Today))) < 0
        /\ \A item \in advice.optimization : item.code = "reduce_category" => item.saving > 0
        /\ advice.optimization = free.optimization
        /\ lock # "none" => advice.investment \cup degraded.investment = {}
        /\ open =>
             /\ \A c \in currencies : complete(c) # {} =>
                  \E item \in advice.investment : item.currency = c
             /\ degraded.investment # {}
  BY DEF Follows, OfCurrency
<1>5. \A c : complete(c) = CompleteMonths(u, c)
  BY DEF CompleteMonths
<1> HIDE DEF complete, currencies
<1>6. /\ \A item \in advice.investment :
           /\ item.currency \in currencies
           /\ item.code = "invest_by_risk_profile" =>
                Net(TotalsOf(complete(item.currency))) > 0 /\ item.instruments = InstrumentsFor(type)
           /\ item.code = "build_emergency_fund" =>
                2 * Net(TotalsOf(complete(item.currency))) < SurplusMonths
      /\ open => \A c \in currencies : complete(c) # {} =>
           \E item \in advice.investment : item.currency = c
  <2>1. CASE open
    BY <1>3, <1>5, <2>1, InvestingFollows DEF S, currencies
  <2>2. CASE ~open
    BY <1>3, <2>2
  <2>3. QED
    BY <2>1, <2>2
<1>7. \A c \in currencies :
        (\E item \in advice.optimization : item.code = "build_budget" /\ item.currency = c)
          <=> Net(TotalsOf(In(OfCurrency(u, c), Today))) < 0
  BY <1>2, BudgetWhenOverspent DEF S
<1>8. \A item \in advice.optimization : item.code = "reduce_category" => item.saving > 0
  BY <1>2, SavingsFree DEF S
<1>9. /\ lock # "none" => advice.investment \cup degraded.investment = {}
      /\ open => degraded.investment # {}
  BY <1>3
<1>10. Follows(u, type, lock, advice, degraded, free)
  BY <1>2, <1>4, <1>6, <1>7, <1>8, <1>9
<1>11. ASSUME NEW target \in {"COP", "USD"},
              NEW entry \in Display(advice.optimization \cup advice.investment, target),
              MoneyOf(entry.of)[1] \in {"COP", "USD"}
       PROVE  ShownTruly(entry, target)
  <2>1. PICK item \in advice.optimization \cup advice.investment :
          entry = [of |-> item, shown |-> Converted(MoneyOf(item), target)]
    BY DEF Display
  <2>2. item \in Optimization(S) \/ (open /\ item \in Investing(type, Surpluses(S)))
    BY <1>2, <1>3, <2>1
  <2>3. MoneyOf(item)[2] \in Int
    BY <2>2, MoneyIsCents DEF S
  <2> DEFINE own == MoneyOf(item)
  <2>4. entry.of = item /\ entry.shown = Converted(own, target) /\ own[1] \in {"COP", "USD"}
    BY <1>11, <2>1
  <2> HIDE DEF own
  <2>5. QED
    BY <2>3, <2>4, EquivalentsHold DEF ShownTruly, own
<1>12. QED
  BY <1>10, <1>11 DEF S, advice, degraded, free

(* AdviceFollowsFacts, for any facts, thresholds and windows. *)
THEOREM AdviceFollows == SpecFigures => []AdviceFollowsFacts
  BY FactsAreCandidates, AdviceOfFacts, PTL

-----------------------------------------------------------------------------
(* Registrations.  What is asked and kept of an amount is the same, ids     *)
(* tell rows apart, and a balance is the balance typed and what was moved.  *)
Sources == {"rule", "mock", "ai"}

AccountRows ==
  [id : Int, name : Names, type : AccountTypes, currency : {CodeOf[t] : t \in Currencies},
   asked : Int, opening : Int, balance : Int, archived : BOOLEAN]

MovementRows ==
  [id : Int, account : Int, amount : Int, type : Types, category : DOMAIN Catalog,
   source : Sources \cup {"manual"}, confidence : 0 .. 100, asked : Int, named : Chosen \cup {Nobody}]

RegistrationTypes ==
  /\ accountRows \subseteq AccountRows /\ IsFiniteSet(accountRows)
  /\ movementRows \subseteq MovementRows /\ IsFiniteSet(movementRows)

IdsTellApart ==
  /\ \A a, b \in accountRows : a.id = b.id => a = b
  /\ \A m, n \in movementRows : m.id = n.id => m = n
  /\ \A m \in movementRows : \E a \in accountRows : a.id = m.account

NamesTellApart == \A a, b \in accountRows : a.name = b.name => a = b

SoundAccount(a) ==
  ValidAccount(a.name, a.type, a.balance) /\ Fits(a.balance) /\ CodeOf[a.currency] = a.currency

TruthfulMovement(m) ==
  /\ InCatalog(m.category, m.type)
  /\ m.source = "manual" <=> m.named # Nobody
  /\ m.source = "manual" => m.category = m.named

MovedBy == [m \in MovementRows |-> Sign(m.type) * m.asked]

On(M, id) == {m \in M : m.account = id}

MovedOn(M, id) == SumFunctionOnSet(MovedBy, On(M, id))

BalancesAddUp == \A a \in accountRows : a.balance = a.asked + MovedOn(movementRows, a.id)

RegistrationInv ==
  /\ RegistrationTypes /\ IdsTellApart /\ NamesTellApart /\ BalancesAddUp
  /\ \A a \in accountRows : SoundAccount(a)
  /\ \A m \in movementRows : TruthfulMovement(m)

(* Money keeps an amount that the field lets through.  *)
LEMMA MoneyIsExact ==
  ASSUME NEW amount \in Int, MoneyField(amount)
  PROVE  Money(amount) = amount
<1>1. amount % 10 = 0
  BY DEF MoneyField, Cent
<1>2. CASE amount < 0
  <2>1. (-amount + 5) \div 10 = (-amount) \div 10 /\ ((-amount) \div 10) * 10 = -amount
    BY <1>1, <1>2
  <2>2. QED
    BY <1>2, <2>1 DEF Money, Size, Cent
<1>3. CASE amount >= 0
  <2>1. (amount + 5) \div 10 = amount \div 10 /\ (amount \div 10) * 10 = amount
    BY <1>1, <1>3
  <2>2. QED
    BY <1>3, <2>1 DEF Money, Size, Cent
<1>4. QED
  BY <1>2, <1>3

(* A set of natural numbers has a least one. *)
LEMMA LeastOfNat ==
  ASSUME NEW T, T \subseteq Nat, T # {}
  PROVE  \E i \in T : \A j \in T : i <= j
<1>1. PICK i \in T : \A j \in T : ~(<<j, i>> \in OpToRel(<, Nat))
  BY NatLessThanWellFounded, WFMin
<1>2. \A j \in T : j < i => <<j, i>> \in OpToRel(<, Nat)
  BY DEF OpToRel
<1>3. \A j \in T : j \in Nat /\ ~(j < i)
  BY <1>1, <1>2
<1>4. QED
  BY <1>3

(* Whatever is answered, the suggestion is of the catalogue for the type.   *)
LEMMA SuggestionsAreKnown ==
  ASSUME NEW words, NEW type \in Types, NEW answer
  PROVE  LET s == ByRemote(words, type, answer) IN
         InCatalog(s.category, type) /\ s.source \in Sources /\ s.confidence \in 0 .. 100
<1> DEFINE rules == LocalKeywords[type]
           matching == {i \in DOMAIN rules : rules[i][2] \cap words # {}}
           first == CHOOSE i \in matching : \A j \in matching : i <= j
           s == LocalRules(words, type)
<1>1. InCatalog(s.category, type) /\ s.source \in Sources /\ s.confidence \in 0 .. 100
  <2>1. s = IF matching = {} THEN Suggestion(LocalFallback[type], 20, "rule")
            ELSE Suggestion(rules[first][1], 75, "rule")
    BY DEF LocalRules, FirstRule
  <2>2. matching # {} => first \in DOMAIN rules
    <3>1. matching \subseteq Nat
      BY LocalRulesAssumption
    <3>2. matching # {} => \E i \in matching : \A j \in matching : i <= j
      BY <3>1, LeastOfNat
    <3>3. QED
      BY <3>2
  <2> HIDE DEF first, matching, s
  <2>3. /\ InCatalog(LocalFallback[type], type)
        /\ matching # {} => InCatalog(rules[first][1], type)
    BY <2>2, LocalRulesAssumption DEF InCatalog
  <2>4. QED
    BY <2>1, <2>3 DEF Suggestion, Sources
<1>2. QED
  BY <1>1 DEF ByRemote, InCatalog, Sources

(* What is moved on an account by one movement more. *)
LEMMA MovedMore ==
  ASSUME NEW M, IsFiniteSet(M), M \subseteq MovementRows, NEW m \in MovementRows, m \notin M, NEW id
  PROVE  /\ MovedOn(M, id) \in Int
         /\ MovedOn(M \cup {m}, id) = MovedOn(M, id) + (IF m.account = id THEN MovedBy[m] ELSE 0)
<1>1. \A n \in MovementRows : MovedBy[n] \in Int
  BY DEF MovedBy, MovementRows, Sign
<1>2. IsFiniteSet(On(M, id)) /\ IsFiniteSet(M \cup {m}) /\ On(M, id) \subseteq MovementRows
  BY FS_Subset, FS_AddElement DEF On
<1>3. MovedOn(M, id) \in Int
  BY <1>1, <1>2, SumType DEF MovedOn
<1>4. CASE m.account = id
  <2>1. On(M \cup {m}, id) \ {m} = On(M, id) /\ m \in On(M \cup {m}, id)
    BY <1>4 DEF On
  <2>2. IsFiniteSet(On(M \cup {m}, id)) /\ On(M \cup {m}, id) \subseteq MovementRows
    BY <1>2, FS_Subset DEF On
  <2>3. MovedOn(M \cup {m}, id) = MovedBy[m] + MovedOn(M, id)
    <3> DEFINE N == On(M \cup {m}, id)
    <3>1. m \in N /\ IsFiniteSet(N) /\ \A n \in N : MovedBy[n] \in Int
      BY <1>1, <2>1, <2>2
    <3> HIDE DEF N
    <3>2. SumFunctionOnSet(MovedBy, N) = MovedBy[m] + SumFunctionOnSet(MovedBy, N \ {m})
      BY <3>1, SumRemove
    <3>3. QED
      BY <2>1, <3>2 DEF MovedOn, N
  <2>4. QED
    BY <1>1, <1>3, <1>4, <2>3
<1>5. CASE m.account # id
  <2>1. On(M \cup {m}, id) = On(M, id)
    BY <1>5 DEF On
  <2>2. QED
    BY <1>3, <1>5, <2>1 DEF MovedOn
<1>6. QED
  BY <1>3, <1>4, <1>5

(* The opening of an account. *)
LEMMA CreateKeeps ==
  ASSUME RegistrationInv, NEW name \in Names, NEW type \in AccountTypes, NEW currency \in Currencies,
         NEW balance \in Balances, CreateAccount(name, type, currency, balance)
  PROVE  RegistrationInv'
<1>1. PICK id \in (1 .. MaxAccounts) \ {a.id : a \in accountRows} :
        accountRows' = accountRows \cup {AccountDraft(id, name, type, currency, balance)}
  BY DEF CreateAccount
<1> DEFINE new == AccountDraft(id, name, type, currency, balance)
<1>2. /\ movementRows' = movementRows
      /\ ValidAccount(name, type, Money(balance)) /\ ValidCode(currency) /\ MoneyField(balance)
      /\ name \notin {a.name : a \in accountRows}
  BY DEF CreateAccount, AccountInput
<1>3. balance \in Int /\ Money(balance) = balance
  BY <1>2, MoneyIsExact, RegistrationAssumption
<1>4. /\ new \in AccountRows
      /\ new.id = id /\ new.name = name /\ new.type = type /\ new.currency = CodeOf[currency]
      /\ new.asked = balance /\ new.balance = balance
  BY <1>3 DEF AccountDraft, AccountRows
<1> HIDE DEF new
<1>5. RegistrationTypes'
  BY <1>1, <1>2, <1>4, FS_AddElement DEF RegistrationInv, RegistrationTypes, new
<1>6. IdsTellApart' /\ NamesTellApart'
  BY <1>1, <1>2, <1>4 DEF RegistrationInv, IdsTellApart, NamesTellApart, new
<1>7. SoundAccount(new)
  BY <1>2, <1>3, <1>4, RegistrationAssumption DEF SoundAccount, MoneyField
<1>8. MovedOn(movementRows, id) = 0
  <2>1. On(movementRows, id) = {}
    BY DEF On, RegistrationInv, IdsTellApart
  <2>2. QED
    BY <2>1, SumEmpty DEF MovedOn
<1>9. BalancesAddUp'
  <2>1. \A a \in accountRows' : a \in accountRows \/ a = new
    BY <1>1 DEF new
  <2>2. new.balance = new.asked + MovedOn(movementRows', new.id)
    BY <1>2, <1>3, <1>4, <1>8
  <2>3. QED
    BY <1>2, <2>1, <2>2 DEF RegistrationInv, BalancesAddUp
<1>10. QED
  BY <1>1, <1>2, <1>5, <1>6, <1>7, <1>9 DEF RegistrationInv, new

(* An account replaced by one with the same balance. *)
LEMMA ReplaceKeeps ==
  ASSUME RegistrationInv, NEW a \in accountRows, NEW b \in AccountRows, Replace(a, b),
         movementRows' = movementRows, SoundAccount(b),
         b.id = a.id, b.asked = a.asked, b.balance = a.balance,
         \A d \in accountRows \ {a} : d.name # b.name
  PROVE  RegistrationInv'
<1>1. accountRows' = (accountRows \ {a}) \cup {b}
  BY DEF Replace
<1>2. RegistrationTypes'
  BY <1>1, FS_AddElement, FS_Subset DEF RegistrationInv, RegistrationTypes
<1>3. IdsTellApart' /\ NamesTellApart'
  BY <1>1 DEF RegistrationInv, IdsTellApart, NamesTellApart
<1>4. BalancesAddUp'
  BY <1>1 DEF RegistrationInv, BalancesAddUp
<1>5. QED
  BY <1>1, <1>2, <1>3, <1>4 DEF RegistrationInv

(* A new name, and the archiving. *)
LEMMA AccountEditsKeep ==
  ASSUME RegistrationInv, NEW a \in accountRows,
         ArchiveAccount(a) \/ \E name \in Names : RenameAccount(a, name)
  PROVE  RegistrationInv'
<1>0. a \in AccountRows /\ SoundAccount(a)
  BY DEF RegistrationInv, RegistrationTypes
<1>1. ASSUME NEW name \in Names, RenameAccount(a, name) PROVE RegistrationInv'
  <2> DEFINE b == [a EXCEPT !.name = name]
  <2>1. /\ b \in AccountRows /\ b.id = a.id /\ b.asked = a.asked /\ b.balance = a.balance
        /\ b.name = name /\ b.type = a.type /\ b.currency = a.currency
    BY <1>0 DEF AccountRows
  <2>2. /\ Replace(a, b) /\ movementRows' = movementRows /\ ValidName(name)
        /\ \A d \in accountRows \ {a} : d.name # name
    BY <1>1 DEF RenameAccount, ValidAccount
  <2> HIDE DEF b
  <2>3. SoundAccount(b)
    BY <1>0, <2>1, <2>2 DEF SoundAccount, ValidAccount
  <2>4. QED
    BY <2>1, <2>2, <2>3, ReplaceKeeps
<1>2. ASSUME ArchiveAccount(a) PROVE RegistrationInv'
  <2> DEFINE b == [a EXCEPT !.archived = TRUE]
  <2>1. /\ b \in AccountRows /\ b.id = a.id /\ b.asked = a.asked /\ b.balance = a.balance
        /\ b.name = a.name /\ b.type = a.type /\ b.currency = a.currency
    BY <1>0 DEF AccountRows
  <2>2. Replace(a, b) /\ movementRows' = movementRows
    BY <1>2 DEF ArchiveAccount
  <2> HIDE DEF b
  <2>3. SoundAccount(b) /\ \A d \in accountRows \ {a} : d.name # b.name
    BY <1>0, <2>1 DEF SoundAccount, RegistrationInv, NamesTellApart
  <2>4. QED
    BY <2>1, <2>2, <2>3, ReplaceKeeps
<1>3. QED
  BY <1>1, <1>2

(* A registration. *)
LEMMA RegisterMovementKeeps ==
  ASSUME RegistrationInv, NEW a \in accountRows, NEW amount \in Amounts, NEW type \in Types,
         NEW when, NEW words, NEW chosen \in Chosen \cup {Nobody}, NEW answer,
         RegisterMovement(a, amount, type, when, words, chosen, answer)
  PROVE  RegistrationInv'
<1> DEFINE s == Categorized(words, type, chosen, answer)
           balance == a.balance + Sign(type) * Money(amount)
           b == [a EXCEPT !.balance = balance]
<1>1. PICK id \in (1 .. MaxMovements) \ {m.id : m \in movementRows} :
        movementRows' = movementRows \cup {TransactionDraft(id, a, amount, type, s, chosen)}
  BY DEF RegisterMovement
<1> DEFINE new == TransactionDraft(id, a, amount, type, s, chosen)
<1>2. /\ accountRows' = (accountRows \ {a}) \cup {b}
      /\ MoneyField(amount) /\ BalanceAllowed(a, balance) /\ Fits(balance) /\ InCatalog(s.category, type)
  BY DEF RegisterMovement, Replace, TransactionInput
<1>3. amount \in Int /\ Money(amount) = amount
  BY <1>2, MoneyIsExact, RegistrationAssumption
<1>4. a \in AccountRows /\ SoundAccount(a) /\ a.balance = a.asked + MovedOn(movementRows, a.id)
  BY DEF RegistrationInv, RegistrationTypes, BalancesAddUp
<1>5. /\ s.source \in Sources \cup {"manual"} /\ s.confidence \in 0 .. 100
      /\ s.source = "manual" <=> chosen # Nobody
      /\ s.source = "manual" => s.category = chosen
  <2>1. CASE chosen = Nobody
    BY <2>1, SuggestionsAreKnown DEF Categorized, Sources
  <2>2. CASE chosen # Nobody
    BY <2>2 DEF Categorized, Suggestion
  <2>3. QED
    BY <2>1, <2>2
<1> HIDE DEF s
<1>6. Sign(type) \in Int /\ balance \in Int /\ a.id \in Int
  BY <1>3, <1>4 DEF Sign, AccountRows
<1>7. /\ b \in AccountRows /\ b.id = a.id /\ b.asked = a.asked /\ b.balance = balance
      /\ b.name = a.name /\ b.type = a.type /\ b.currency = a.currency
  BY <1>4, <1>6 DEF AccountRows
<1>8. /\ new \in MovementRows
      /\ new.id = id /\ new.account = a.id /\ new.type = type /\ new.asked = amount
      /\ new.category = s.category /\ new.source = s.source /\ new.named = chosen
  BY <1>2, <1>3, <1>5, <1>6 DEF TransactionDraft, MovementRows, InCatalog
<1>9. balance = a.balance + MovedBy[new]
  BY <1>3, <1>8 DEF MovedBy
<1> HIDE DEF balance, b, new
<1>10. new \notin movementRows
  BY <1>8
<1>11. RegistrationTypes'
  BY <1>1, <1>2, <1>7, <1>8, FS_AddElement, FS_Subset DEF RegistrationInv, RegistrationTypes, new
<1>12. \A d \in accountRows' : d \in accountRows \ {a} \/ d = b
  BY <1>2
<1>13. \A m \in movementRows' : m \in movementRows \/ m = new
  BY <1>1 DEF new
<1>14. IdsTellApart'
  <2>1. \A m \in movementRows' : \E d \in accountRows' : d.id = m.account
    BY <1>2, <1>7, <1>8, <1>13 DEF RegistrationInv, IdsTellApart
  <2>2. \A m, n \in movementRows' : m.id = n.id => m = n
    BY <1>8, <1>13 DEF RegistrationInv, IdsTellApart
  <2>3. \A d, e \in accountRows' : d.id = e.id => d = e
    BY <1>7, <1>12 DEF RegistrationInv, IdsTellApart
  <2>4. QED
    BY <2>1, <2>2, <2>3 DEF IdsTellApart
<1>15. NamesTellApart'
  BY <1>7, <1>12 DEF RegistrationInv, NamesTellApart
<1>16. SoundAccount(b)
  BY <1>2, <1>4, <1>6, <1>7 DEF SoundAccount, ValidAccount, BalanceAllowed
<1>17. TruthfulMovement(new)
  BY <1>2, <1>5, <1>8 DEF TruthfulMovement
<1>18. \A i : /\ MovedOn(movementRows, i) \in Int
              /\ MovedOn(movementRows', i) = MovedOn(movementRows, i) + (IF a.id = i THEN MovedBy[new] ELSE 0)
  <2>1. IsFiniteSet(movementRows) /\ movementRows \subseteq MovementRows
    BY DEF RegistrationInv, RegistrationTypes
  <2>2. movementRows' = movementRows \cup {new}
    BY <1>1 DEF new
  <2>3. ASSUME NEW i
        PROVE  /\ MovedOn(movementRows, i) \in Int
               /\ MovedOn(movementRows \cup {new}, i)
                    = MovedOn(movementRows, i) + (IF new.account = i THEN MovedBy[new] ELSE 0)
    BY <1>8, <1>10, <2>1, MovedMore
  <2>4. QED
    BY <1>8, <2>2, <2>3
<1>19. BalancesAddUp'
  <2>1. ASSUME NEW d \in accountRows \ {a} PROVE d.balance = d.asked + MovedOn(movementRows', d.id)
    <3>1. d.id # a.id /\ d.balance = d.asked + MovedOn(movementRows, d.id)
      BY DEF RegistrationInv, IdsTellApart, BalancesAddUp
    <3>2. MovedOn(movementRows', d.id) = MovedOn(movementRows, d.id)
      BY <1>18, <3>1
    <3>3. QED
      BY <3>1, <3>2
  <2>2. b.balance = b.asked + MovedOn(movementRows', b.id)
    <3>1. MovedBy[new] \in Int /\ a.asked \in Int
      BY <1>4, <1>8 DEF MovedBy, MovementRows, AccountRows, Sign
    <3>2. QED
      BY <1>4, <1>7, <1>9, <1>18, <3>1
  <2>3. QED
    BY <1>12, <2>1, <2>2 DEF BalancesAddUp
<1>20. QED
  BY <1>11, <1>12, <1>13, <1>14, <1>15, <1>16, <1>17, <1>19 DEF RegistrationInv

(* A new category. *)
LEMMA RecategorizeMovementKeeps ==
  ASSUME RegistrationInv, NEW m \in movementRows, NEW chosen \in Chosen, RecategorizeMovement(m, chosen)
  PROVE  RegistrationInv'
<1> DEFINE n == [m EXCEPT !.category = chosen, !.source = "manual", !.confidence = 100, !.named = chosen]
<1>1. /\ accountRows' = accountRows /\ movementRows' = (movementRows \ {m}) \cup {n}
      /\ chosen # Nobody /\ InCatalog(chosen, m.type)
  BY DEF RecategorizeMovement
<1>2. m \in MovementRows
  BY DEF RegistrationInv, RegistrationTypes
<1>3. /\ n \in MovementRows /\ n.id = m.id /\ n.account = m.account /\ n.type = m.type /\ n.asked = m.asked
      /\ n.category = chosen /\ n.source = "manual" /\ n.named = chosen
  <2>1. chosen \in DOMAIN Catalog /\ chosen \in Chosen \cup {Nobody}
        /\ "manual" \in Sources \cup {"manual"} /\ 100 \in 0 .. 100
    BY <1>1 DEF InCatalog
  <2> DEFINE p == [m EXCEPT !.category = chosen, !.source = "manual"]
  <2>2. p \in MovementRows
    BY <1>2, <2>1 DEF MovementRows
  <2>3. n = [p EXCEPT !.confidence = 100, !.named = chosen]
    BY <1>2 DEF MovementRows
  <2>4. /\ p.id = m.id /\ p.account = m.account /\ p.type = m.type /\ p.asked = m.asked
        /\ p.category = chosen /\ p.source = "manual"
    BY <1>2 DEF MovementRows
  <2> HIDE DEF n, p
  <2>5. n \in MovementRows
    BY <2>1, <2>2, <2>3 DEF MovementRows
  <2>6. QED
    BY <2>2, <2>3, <2>4, <2>5 DEF MovementRows
<1> HIDE DEF n
<1>4. RegistrationTypes'
  BY <1>1, <1>3, FS_AddElement, FS_Subset DEF RegistrationInv, RegistrationTypes
<1>5. IdsTellApart' /\ NamesTellApart'
  BY <1>1, <1>3 DEF RegistrationInv, IdsTellApart, NamesTellApart
<1>6. TruthfulMovement(n)
  BY <1>1, <1>3 DEF TruthfulMovement
<1>7. ASSUME NEW i PROVE MovedOn(movementRows', i) = MovedOn(movementRows, i)
  <2> DEFINE rest == movementRows \ {m}
  <2>1. IsFiniteSet(rest) /\ rest \subseteq MovementRows /\ m \notin rest
    BY FS_Subset DEF RegistrationInv, RegistrationTypes
  <2>2. n \notin rest
    BY <1>3 DEF RegistrationInv, IdsTellApart
  <2>3. movementRows = rest \cup {m} /\ movementRows' = rest \cup {n}
    BY <1>1
  <2>4. MovedBy[n] = MovedBy[m]
    BY <1>2, <1>3 DEF MovedBy
  <2> HIDE DEF rest
  <2>5. /\ MovedOn(rest \cup {m}, i) = MovedOn(rest, i) + (IF m.account = i THEN MovedBy[m] ELSE 0)
        /\ MovedOn(rest \cup {n}, i) = MovedOn(rest, i) + (IF n.account = i THEN MovedBy[n] ELSE 0)
    BY <1>2, <1>3, <2>1, <2>2, MovedMore
  <2>6. QED
    BY <1>3, <2>3, <2>4, <2>5
<1>8. BalancesAddUp'
  BY <1>1, <1>7 DEF RegistrationInv, BalancesAddUp
<1>9. QED
  BY <1>1, <1>4, <1>5, <1>6, <1>8 DEF RegistrationInv

(* The next-state relation, an operation at a time. *)
LEMMA RegistrationNext == RegistrationInv /\ [NextRegistration]_registrationVars => RegistrationInv'
<1> SUFFICES ASSUME RegistrationInv, [NextRegistration]_registrationVars PROVE RegistrationInv'
  OBVIOUS
<1>1. ASSUME NEW name \in Names, NEW type \in AccountTypes, NEW currency \in Currencies,
             NEW balance \in Balances, CreateAccount(name, type, currency, balance)
      PROVE  RegistrationInv'
  BY <1>1, CreateKeeps
<1>2. ASSUME NEW a \in accountRows, ArchiveAccount(a) \/ \E name \in Names : RenameAccount(a, name)
      PROVE  RegistrationInv'
  BY <1>2, AccountEditsKeep
<1>3. ASSUME NEW a \in accountRows, NEW amount \in Amounts, NEW type \in Types, NEW words \in Descriptions,
             NEW when \in {"today", "future"}, NEW chosen \in Chosen \cup {Nobody}, NEW answer,
             RegisterMovement(a, amount, type, when, words, chosen, answer)
      PROVE  RegistrationInv'
  BY <1>3, RegisterMovementKeeps
<1>4. ASSUME NEW m \in movementRows, NEW chosen \in Chosen, RecategorizeMovement(m, chosen)
      PROVE  RegistrationInv'
  BY <1>4, RecategorizeMovementKeeps
<1>5. CASE UNCHANGED registrationVars
  BY <1>5 DEF registrationVars, RegistrationInv, RegistrationTypes, IdsTellApart, NamesTellApart, BalancesAddUp
<1>6. QED
  BY <1>1, <1>2, <1>3, <1>4, <1>5 DEF NextRegistration

(* No rows: nothing to be untrue. *)
LEMMA RegistrationInit == InitRegistration => RegistrationInv
  BY FS_EmptySet
  DEF InitRegistration, RegistrationInv, RegistrationTypes, IdsTellApart, NamesTellApart, BalancesAddUp

(* The categories of the rows, and of whatever may be answered next. *)
LEMMA CategoriesHold == RegistrationInv => CategoriesAreTruthful
<1> SUFFICES ASSUME RegistrationInv PROVE CategoriesAreTruthful
  OBVIOUS
<1>1. ASSUME NEW m \in movementRows
      PROVE  /\ InCatalog(m.category, m.type)
             /\ m.confidence \in 0 .. 100
             /\ m.source = "manual" <=> m.named # Nobody
             /\ m.source = "manual" => m.category = m.named
             /\ m.source \in {"rule", "mock", "ai", "manual"}
  <2>1. m \in MovementRows /\ TruthfulMovement(m)
    BY DEF RegistrationInv, RegistrationTypes
  <2>2. QED
    BY <2>1 DEF MovementRows, TruthfulMovement, Sources
<1>2. MiscategorizedRows = {}
  BY <1>1, RegistrationAssumption DEF MiscategorizedRows, InCatalog
<1>3. ASSUME NEW words \in Descriptions, NEW type \in Types, NEW answer
      PROVE  InCatalog(Categorized(words, type, Nobody, answer).category, type)
  BY SuggestionsAreKnown DEF Categorized
<1>4. QED
  BY <1>1, <1>2, <1>3 DEF CategoriesAreTruthful

(* What the accounts of a currency hold is what was asked of them: each     *)
(* movement is counted once, with the account it names.                    *)
LEMMA TotalsAddUp ==
  ASSUME RegistrationInv, NEW A \in SUBSET accountRows
  PROVE  LET moved == {m \in movementRows : m.account \in {a.id : a \in A}}
         IN  SumFunctionOnSet([a \in A |-> a.balance], A)
               = SumFunctionOnSet([a \in A |-> a.asked], A)
                 + SumFunctionOnSet([m \in moved |-> Sign(m.type) * m.asked], moved)
<1> DEFINE moved == {m \in movementRows : m.account \in {a.id : a \in A}}
           held == [a \in A |-> a.balance]
           opened == [a \in A |-> a.asked]
           came == [a \in A |-> MovedOn(movementRows, a.id)]
           each == [m \in moved |-> Sign(m.type) * m.asked]
           of == [m \in moved |-> CHOOSE a \in A : a.id = m.account]
<1>1. /\ IsFiniteSet(A) /\ A \subseteq AccountRows
      /\ IsFiniteSet(moved) /\ moved \subseteq MovementRows
  BY FS_Subset DEF RegistrationInv, RegistrationTypes
<1>2. \A a \in A : held[a] \in Int /\ opened[a] \in Int /\ came[a] = held[a] - opened[a]
  <2>1. ASSUME NEW a \in A
        PROVE  /\ a.balance \in Int /\ a.asked \in Int
               /\ MovedOn(movementRows, a.id) = a.balance - a.asked
    <3>1. a \in AccountRows /\ a.balance = a.asked + MovedOn(movementRows, a.id)
      BY <1>1 DEF RegistrationInv, BalancesAddUp
    <3>2. IsFiniteSet(On(movementRows, a.id)) /\ On(movementRows, a.id) \subseteq MovementRows
      BY FS_Subset DEF RegistrationInv, RegistrationTypes, On
    <3>3. \A m \in MovementRows : MovedBy[m] \in Int
      BY DEF MovedBy, MovementRows, Sign
    <3>4. MovedOn(movementRows, a.id) \in Int
      BY <3>2, <3>3, SumType DEF MovedOn
    <3>5. QED
      BY <3>1, <3>4 DEF AccountRows
  <2>2. QED
    BY <2>1
<1>3. \A m \in moved : MovedBy[m] \in Int /\ each[m] = MovedBy[m] /\ of[m] \in A /\ of[m].id = m.account
  BY <1>1 DEF MovedBy, MovementRows, Sign
<1>4. \A a \in A : {m \in moved : of[m] = a} = On(movementRows, a.id)
  <2>1. ASSUME NEW a \in A, NEW m \in movementRows, m.account = a.id PROVE m \in moved /\ of[m] = a
    <3>1. m \in moved
      BY <2>1
    <3>2. of[m] \in A /\ of[m].id = a.id
      BY <1>3, <2>1, <3>1
    <3>3. QED
      BY <3>1, <3>2 DEF RegistrationInv, IdsTellApart
  <2>2. ASSUME NEW m \in moved PROVE m \in movementRows /\ of[m].id = m.account
    BY <1>3
  <2> HIDE DEF moved, of
  <2>3. QED
    BY <2>1, <2>2 DEF On
<1>5. came = [a \in A |-> SumFunctionOnSet(MovedBy, {m \in moved : of[m] = a})]
  <2> HIDE DEF moved, of
  <2>1. QED
    BY <1>4 DEF MovedOn
<1> HIDE DEF moved, held, opened, came, each, of
<1>6. SumFunctionOnSet(came, A) = SumFunctionOnSet(held, A) - SumFunctionOnSet(opened, A)
  BY <1>1, <1>2, SumMinus
<1>7. SumFunctionOnSet(MovedBy, moved)
        = SumFunctionOnSet([a \in A |-> SumFunctionOnSet(MovedBy, {m \in moved : of[m] = a})], A)
  BY <1>1, <1>3, SumFibers
<1>8. SumFunctionOnSet(each, moved) = SumFunctionOnSet(MovedBy, moved)
  BY <1>1, <1>3, SumCongruence
<1>9. SumFunctionOnSet(held, A) \in Int /\ SumFunctionOnSet(opened, A) \in Int
  BY <1>1, <1>2, SumType
<1>10. SumFunctionOnSet(held, A) = SumFunctionOnSet(opened, A) + SumFunctionOnSet(each, moved)
  <2>1. SumFunctionOnSet(each, moved) = SumFunctionOnSet(came, A)
    BY <1>5, <1>7, <1>8
  <2>2. QED
    BY <1>6, <1>9, <2>1
<1>11. QED
  BY <1>10 DEF moved, held, opened, each

(* The accounts, and the totals of their currencies. *)
LEMMA AccountsHold == RegistrationInv => AccountsStand
<1> SUFFICES ASSUME RegistrationInv PROVE AccountsStand
  OBVIOUS
<1>1. \A a \in accountRows : ValidAccount(a.name, a.type, a.balance) /\ Fits(a.balance)
  BY DEF RegistrationInv, SoundAccount
<1>2. \A a, b \in accountRows : a.name = b.name => a = b
  BY DEF RegistrationInv, NamesTellApart
<1>3. ASSUME NEW c \in DOMAIN Summary
      PROVE  LET active == {a \in accountRows : ~a.archived /\ a.currency = c}
                 moved == {m \in movementRows : m.account \in {a.id : a \in active}}
             IN  /\ CodeOf[c] = c
                 /\ Summary[c].balance = SumFunctionOnSet([a \in active |-> a.asked], active)
                                          + SumFunctionOnSet([m \in moved |-> Sign(m.type) * m.asked], moved)
  <2> DEFINE active == {a \in accountRows : ~a.archived /\ a.currency = c}
             moved == {m \in movementRows : m.account \in {a.id : a \in active}}
             shown == {a \in {a \in accountRows : ~a.archived} : a.currency = c}
  <2>1. CodeOf[c] = c
    BY <1>3 DEF Summary, RegistrationInv, SoundAccount
  <2>2. Summary[c].balance = SumFunctionOnSet([a \in shown |-> a.balance], shown)
    BY <1>3 DEF Summary
  <2>3. shown = active /\ active \in SUBSET accountRows
    OBVIOUS
  <2> HIDE DEF active, shown
  <2>4. SumFunctionOnSet([a \in active |-> a.balance], active)
          = SumFunctionOnSet([a \in active |-> a.asked], active)
            + SumFunctionOnSet([m \in moved |-> Sign(m.type) * m.asked], moved)
    BY <2>3, TotalsAddUp
  <2>5. QED
    BY <2>1, <2>2, <2>3, <2>4 DEF active
<1>4. QED
  BY <1>1, <1>2, <1>3 DEF AccountsStand

(* RegistrationsAreTruthful: in every state the accounts and the movements  *)
(* can be in, whatever categorization-service answered, the categories are  *)
(* the catalogue's or the user's own and the totals are the money typed.   *)
THEOREM RegistrationsStand == SpecRegistration => []RegistrationsAreTruthful
<1>1. RegistrationInv => RegistrationsAreTruthful
  BY CategoriesHold, AccountsHold DEF RegistrationsAreTruthful
<1>2. QED
  BY <1>1, RegistrationInit, RegistrationNext, PTL DEF SpecRegistration

-----------------------------------------------------------------------------
(* Functions by recursion over the naturals.  The induction theorem of the  *)
(* library takes the property as an operator; the least counterexample     *)
(* takes its place.                                                        *)

(* The first n values of a recursion, from a and by a step. *)
Begins(g, n, a, step) ==
  /\ g \in [0 .. n -> Int]
  /\ g[0] = a
  /\ \A k \in 1 .. n : g[k] = step[<<k - 1, g[k - 1]>>]

(* Every beginning exists: the least one that does not would extend a       *)
(* shorter one.                                                            *)
LEMMA BeginningsExist ==
  ASSUME NEW a \in Int, NEW step \in [Nat \X Int -> Int]
  PROVE  \A n \in Nat : \E g : Begins(g, n, a, step)
<1> DEFINE T == {n \in Nat : ~ \E g : Begins(g, n, a, step)}
<1> SUFFICES ASSUME T # {} PROVE FALSE
  OBVIOUS
<1>1. PICK n \in T : \A m \in T : n <= m
  <2>1. T \subseteq Nat
    OBVIOUS
  <2> HIDE DEF T
  <2>2. QED
    BY <2>1, LeastOfNat
<1>2. CASE n = 0
  <2>1. Begins([k \in 0 .. n |-> a], n, a, step)
    BY <1>2 DEF Begins
  <2>2. QED
    BY <2>1
<1>3. CASE n # 0
  <2>1. n - 1 \in Nat /\ n - 1 \notin T
    BY <1>1, <1>3
  <2>2. PICK g : Begins(g, n - 1, a, step)
    BY <2>1
  <2> DEFINE h == [k \in 0 .. n |-> IF k < n THEN g[k] ELSE step[<<n - 1, g[n - 1]>>]]
  <2>3. g \in [0 .. n - 1 -> Int] /\ g[0] = a /\ \A k \in 1 .. n - 1 : g[k] = step[<<k - 1, g[k - 1]>>]
    BY <2>2 DEF Begins
  <2>4. step[<<n - 1, g[n - 1]>>] \in Int
    <3>1. <<n - 1, g[n - 1]>> \in Nat \X Int
      BY <2>1, <2>3
    <3>2. QED
      BY <3>1
  <2>5. h \in [0 .. n -> Int] /\ h[0] = a
    BY <2>1, <2>3, <2>4
  <2>6. ASSUME NEW k \in 1 .. n PROVE h[k] = step[<<k - 1, h[k - 1]>>]
    <3>1. h[k - 1] = g[k - 1]
      BY <2>1
    <3>2. CASE k < n
      BY <2>3, <3>1, <3>2
    <3>3. CASE k = n
      <4>1. h[n] = step[<<n - 1, g[n - 1]>>]
        BY <2>1
      <4> HIDE DEF h
      <4>2. QED
        BY <3>1, <3>3, <4>1
    <3>4. QED
      BY <3>2, <3>3
  <2>7. Begins(h, n, a, step)
    <3> HIDE DEF h
    <3>1. QED
      BY <2>5, <2>6 DEF Begins
  <2>8. QED
    BY <2>7
<1>4. QED
  BY <1>2, <1>3

(* Two beginnings agree as far as both of them go. *)
LEMMA BeginningsAgree ==
  ASSUME NEW a \in Int, NEW step \in [Nat \X Int -> Int], NEW m \in Nat, NEW n \in Nat, m <= n,
         NEW g, NEW h, Begins(g, m, a, step), Begins(h, n, a, step)
  PROVE  \A k \in 0 .. m : g[k] = h[k]
<1> DEFINE T == {k \in 0 .. m : g[k] # h[k]}
<1> SUFFICES ASSUME T # {} PROVE FALSE
  OBVIOUS
<1>1. PICK k \in T : \A l \in T : k <= l
  <2>1. T \subseteq Nat
    OBVIOUS
  <2> HIDE DEF T
  <2>2. QED
    BY <2>1, LeastOfNat
<1>2. k # 0
  BY <1>1 DEF Begins
<1>3. k - 1 \in 0 .. m /\ k - 1 \notin T
  BY <1>1, <1>2
<1>4. g[k - 1] = h[k - 1] /\ k \in 1 .. m /\ k \in 1 .. n
  BY <1>2, <1>3
<1>5. QED
  BY <1>1, <1>4 DEF Begins

(* A function by recursion, as its values say it. *)
Recurs(g, a, step) ==
  /\ g \in [Nat -> Int]
  /\ \A n \in Nat : g[n] = IF n = 0 THEN a ELSE step[<<n - 1, g[n - 1]>>]

(* A recursion over the naturals has a solution. *)
LEMMA Recursion ==
  ASSUME NEW a \in Int, NEW step \in [Nat \X Int -> Int]
  PROVE  \E g : Recurs(g, a, step)
<1> DEFINE G(n) == CHOOSE g : Begins(g, n, a, step)
           f == [n \in Nat |-> G(n)[n]]
<1>1. ASSUME NEW n \in Nat PROVE Begins(G(n), n, a, step)
  BY BeginningsExist
<1>2. ASSUME NEW n \in Nat PROVE f[n] = G(n)[n] /\ G(n)[n] \in Int
  <2>1. Begins(G(n), n, a, step) /\ n \in 0 .. n
    BY <1>1
  <2> HIDE DEF G
  <2>2. QED
    BY <2>1 DEF Begins
<1>3. ASSUME NEW n \in Nat PROVE f[n] = IF n = 0 THEN a ELSE step[<<n - 1, f[n - 1]>>]
  <2>1. Begins(G(n), n, a, step)
    BY <1>1
  <2>2. CASE n = 0
    BY <1>2, <2>1, <2>2 DEF Begins
  <2>3. CASE n # 0
    <3>1. n - 1 \in Nat /\ n - 1 <= n /\ n \in 1 .. n /\ n - 1 \in 0 .. n - 1
      BY <2>3
    <3>2. Begins(G(n - 1), n - 1, a, step)
      BY <1>1, <3>1
    <3>3. G(n - 1)[n - 1] = G(n)[n - 1]
      <4> HIDE DEF G
      <4>1. QED
        BY <2>1, <3>1, <3>2, BeginningsAgree
    <3>4. f[n] = G(n)[n] /\ f[n - 1] = G(n - 1)[n - 1]
      BY <1>2, <3>1
    <3>5. G(n)[n] = step[<<n - 1, G(n)[n - 1]>>]
      BY <2>1, <3>1 DEF Begins
    <3>6. QED
      BY <2>3, <3>3, <3>4, <3>5
  <2>4. QED
    BY <2>2, <2>3
<1>4. f \in [Nat -> Int]
  BY <1>2
<1>5. Recurs(f, a, step)
  <2> HIDE DEF f
  <2>1. QED
    BY <1>3, <1>4 DEF Recurs
<1>6. QED
  BY <1>5

(* The powers of a number satisfy their recursion, and are integers. *)
LEMMA PowersAre ==
  ASSUME NEW base \in Int
  PROVE  /\ Powers(base) \in [Nat -> Int]
         /\ Powers(base)[0] = 1
         /\ \A n \in Nat : Powers(base)[n + 1] = base * Powers(base)[n]
<1> DEFINE step == [x \in Nat \X Int |-> base * x[2]]
           IsPower(g) == g = [n \in Nat |-> IF n = 0 THEN 1 ELSE base * g[n - 1]]
           P == Powers(base)
<1>1. step \in [Nat \X Int -> Int]
  OBVIOUS
<1>2. PICK g : Recurs(g, 1, step)
  <2> HIDE DEF step
  <2>1. QED
    BY <1>1, Recursion
<1>3. ASSUME NEW n \in Nat, n # 0 PROVE step[<<n - 1, g[n - 1]>>] = base * g[n - 1]
  <2>1. <<n - 1, g[n - 1]>> \in Nat \X Int
    BY <1>2, <1>3 DEF Recurs
  <2>2. QED
    BY <2>1
<1>4. IsPower(g)
  <2> HIDE DEF step
  <2>1. g = [n \in Nat |-> g[n]]
    BY <1>2 DEF Recurs
  <2>2. QED
    BY <1>2, <1>3, <2>1 DEF Recurs
<1>5. P = CHOOSE p : IsPower(p)
  BY DEF Powers
<1>6. IsPower(P)
  BY <1>4, <1>5
<1> HIDE DEF P
<1>7. \A n \in Nat : P[n] = IF n = 0 THEN 1 ELSE base * P[n - 1]
  BY <1>6
<1>8. \A n \in Nat : P[n] \in Int
  <2> DEFINE T == {n \in Nat : P[n] \notin Int}
  <2> SUFFICES ASSUME T # {} PROVE FALSE
    OBVIOUS
  <2>1. PICK n \in T : \A m \in T : n <= m
    <3>1. T \subseteq Nat
      OBVIOUS
    <3> HIDE DEF T
    <3>2. QED
      BY <3>1, LeastOfNat
  <2>2. n = 0 \/ (n - 1 \in Nat /\ n - 1 \notin T)
    BY <2>1
  <2>3. QED
    BY <1>7, <2>2
<1>9. P \in [Nat -> Int]
  BY <1>6, <1>8
<1>10. \A n \in Nat : P[n + 1] = base * P[n]
  <2>1. ASSUME NEW n \in Nat PROVE n + 1 \in Nat /\ n + 1 # 0 /\ (n + 1) - 1 = n
    OBVIOUS
  <2>2. QED
    BY <1>7, <2>1
<1>11. QED
  BY <1>7, <1>9, <1>10 DEF P

(* The unit of the rates is a positive integer. *)
LEMMA ScaleIsWhole == RateScale \in Int /\ RateScale > 0
  BY InvestmentAssumption

(* What is saved satisfies its recursion, and is an integer. *)
LEMMA SavedAre ==
  ASSUME NEW c \in Int, NEW rate \in Int
  PROVE  /\ Saved(c, rate) \in [Nat -> Int]
         /\ Saved(c, rate)[0] = 0
         /\ \A n \in Nat : Saved(c, rate)[n + 1] = (RateScale + rate) * Saved(c, rate)[n] + c * Powers(RateScale)[n]
<1> DEFINE H == Powers(RateScale)
           step == [x \in Nat \X Int |-> (RateScale + rate) * x[2] + c * H[x[1]]]
           IsSaved(g) == g = [n \in Nat |-> IF n = 0 THEN 0 ELSE (RateScale + rate) * g[n - 1] + c * H[n - 1]]
           S == Saved(c, rate)
<1>0. H \in [Nat -> Int]
  BY ScaleIsWhole, PowersAre
<1>1. step \in [Nat \X Int -> Int]
  <2> HIDE DEF H
  <2>1. QED
    BY <1>0, ScaleIsWhole
<1>2. PICK g : Recurs(g, 0, step)
  <2> HIDE DEF step
  <2>1. QED
    BY <1>1, Recursion
<1>3. ASSUME NEW n \in Nat, n # 0 PROVE step[<<n - 1, g[n - 1]>>] = (RateScale + rate) * g[n - 1] + c * H[n - 1]
  <2> HIDE DEF H
  <2>1. <<n - 1, g[n - 1]>> \in Nat \X Int
    BY <1>2, <1>3 DEF Recurs
  <2>2. QED
    BY <2>1
<1>4. IsSaved(g)
  <2> HIDE DEF step
  <2>1. g = [n \in Nat |-> g[n]]
    BY <1>2 DEF Recurs
  <2>2. QED
    BY <1>2, <1>3, <2>1 DEF Recurs
<1>5. S = CHOOSE p : IsSaved(p)
  BY DEF Saved
<1> HIDE DEF H
<1>6. IsSaved(S)
  BY <1>4, <1>5
<1> HIDE DEF S
<1>7. \A n \in Nat : S[n] = IF n = 0 THEN 0 ELSE (RateScale + rate) * S[n - 1] + c * H[n - 1]
  BY <1>6
<1>8. \A n \in Nat : S[n] \in Int
  <2> DEFINE T == {n \in Nat : S[n] \notin Int}
  <2> SUFFICES ASSUME T # {} PROVE FALSE
    OBVIOUS
  <2>1. PICK n \in T : \A m \in T : n <= m
    <3>1. T \subseteq Nat
      OBVIOUS
    <3> HIDE DEF T
    <3>2. QED
      BY <3>1, LeastOfNat
  <2>2. CASE n = 0
    BY <1>7, <2>2
  <2>3. CASE n # 0
    <3>1. n - 1 \in Nat /\ n - 1 \notin T
      BY <2>1, <2>3
    <3>2. S[n - 1] \in Int /\ H[n - 1] \in Int
      BY <1>0, <3>1
    <3>3. S[n] = (RateScale + rate) * S[n - 1] + c * H[n - 1]
      BY <1>7, <2>3
    <3>4. QED
      BY <2>1, <3>2, <3>3, ScaleIsWhole
  <2>4. QED
    BY <2>2, <2>3
<1>9. S \in [Nat -> Int]
  BY <1>6, <1>8
<1>10. \A n \in Nat : S[n + 1] = (RateScale + rate) * S[n] + c * H[n]
  <2>1. ASSUME NEW n \in Nat PROVE n + 1 \in Nat /\ n + 1 # 0 /\ (n + 1) - 1 = n
    OBVIOUS
  <2>2. QED
    BY <1>7, <2>1
<1>11. QED
  BY <1>7, <1>9, <1>10 DEF S, H

(* By induction over the months: the powers of RateScale are positive, and *)
(* what is saved has the closed form and is no less than what was paid in. *)
LEMMA SavedInClosedForm ==
  ASSUME NEW c \in Nat, NEW rate \in Nat, NEW n \in Nat
  PROVE  /\ Powers(RateScale)[n] > 0
         /\ Saved(c, rate)[n] >= 0
         /\ rate * Saved(c, rate)[n] = c * (Powers(RateScale + rate)[n] - Powers(RateScale)[n])
         /\ RateScale * Saved(c, rate)[n] >= (c * n) * Powers(RateScale)[n]
         /\ rate = 0 => RateScale * Saved(c, rate)[n] = (c * n) * Powers(RateScale)[n]
<1> DEFINE H == Powers(RateScale)
           P == Powers(RateScale + rate)
           S == Saved(c, rate)
           Holds(k) == /\ H[k] > 0 /\ S[k] >= 0
                       /\ rate * S[k] = c * (P[k] - H[k])
                       /\ RateScale * S[k] >= (c * k) * H[k]
                       /\ rate = 0 => RateScale * S[k] = (c * k) * H[k]
           T == {k \in Nat : ~Holds(k)}
<1>1. /\ H \in [Nat -> Int] /\ H[0] = 1 /\ \A k \in Nat : H[k + 1] = RateScale * H[k]
      /\ P \in [Nat -> Int] /\ P[0] = 1 /\ \A k \in Nat : P[k + 1] = (RateScale + rate) * P[k]
      /\ S \in [Nat -> Int] /\ S[0] = 0 /\ \A k \in Nat : S[k + 1] = (RateScale + rate) * S[k] + c * H[k]
  <2>1. RateScale \in Int /\ RateScale + rate \in Int /\ c \in Int /\ rate \in Int
    BY ScaleIsWhole
  <2> HIDE DEF H, P, S
  <2>2. H \in [Nat -> Int] /\ H[0] = 1 /\ \A k \in Nat : H[k + 1] = RateScale * H[k]
    BY <2>1, PowersAre DEF H
  <2>3. P \in [Nat -> Int] /\ P[0] = 1 /\ \A k \in Nat : P[k + 1] = (RateScale + rate) * P[k]
    BY <2>1, PowersAre DEF P
  <2>4. S \in [Nat -> Int] /\ S[0] = 0 /\ \A k \in Nat : S[k + 1] = (RateScale + rate) * S[k] + c * H[k]
    BY <2>1, SavedAre DEF S, H
  <2>5. QED
    BY <2>2, <2>3, <2>4
<1> HIDE DEF H, P, S
<1>2. Holds(0)
  BY <1>1, ScaleIsWhole
<1>3. ASSUME NEW k \in Nat, Holds(k) PROVE Holds(k + 1)
  <2> DEFINE h == H[k]
             p == P[k]
             s == S[k]
  <2>1. h \in Int /\ p \in Int /\ s \in Int /\ k + 1 \in Nat
    <3>1. H \in [Nat -> Int] /\ P \in [Nat -> Int] /\ S \in [Nat -> Int]
      BY <1>1
    <3> HIDE DEF Holds
    <3>2. QED
      BY <3>1
  <2>2. /\ H[k + 1] = RateScale * h /\ P[k + 1] = (RateScale + rate) * p
        /\ S[k + 1] = (RateScale + rate) * s + c * h
    BY <1>1
  <2>3. /\ h > 0 /\ s >= 0 /\ rate * s = c * (p - h) /\ RateScale * s >= (c * k) * h
        /\ rate = 0 => RateScale * s = (c * k) * h
    BY <1>3
  <2> HIDE DEF h, p, s
  <2> DEFINE u == RateScale
             rest == c * h
             paid == (c * k) * h
  <2>4. u \in Int /\ u > 0
    BY ScaleIsWhole
  <2> HIDE DEF u
  <2>5. rest \in Int /\ rest >= 0 /\ paid \in Int /\ u * s \in Int /\ u * s >= 0 /\ rate * s \in Int /\ rate * s >= 0
    BY <2>1, <2>3, <2>4
  <2>6. S[k + 1] = u * s + rate * s + rest /\ H[k + 1] = u * h /\ P[k + 1] = u * p + rate * p
    BY <2>1, <2>2, <2>4 DEF u
  <2>7. H[k + 1] > 0 /\ S[k + 1] >= 0
    BY <2>1, <2>3, <2>4, <2>5, <2>6
  <2>8. rate * S[k + 1] = c * (P[k + 1] - H[k + 1])
    <3>1. rate * S[k + 1] = u * (rate * s) + rate * (rate * s) + rate * rest
      BY <2>1, <2>4, <2>5, <2>6
    <3>2. rate * s = c * p - rest
      BY <2>1, <2>3
    <3>3. rate * S[k + 1] = u * (c * p - rest) + rate * (c * p - rest) + rate * rest
      BY <3>1, <3>2
    <3>4. c * (P[k + 1] - H[k + 1]) = c * (u * p + rate * p - u * h)
      BY <2>1, <2>4, <2>6
    <3>5. c * (u * p + rate * p - u * h) = u * (c * p - rest) + rate * (c * p - rest) + rate * rest
      BY <2>1, <2>4
    <3>6. QED
      BY <3>3, <3>4, <3>5
  <2>9. (c * (k + 1)) * H[k + 1] = u * (paid + rest)
    BY <2>1, <2>4, <2>6
  <2>10. u * S[k + 1] >= (c * (k + 1)) * H[k + 1] /\ (rate = 0 => u * S[k + 1] = (c * (k + 1)) * H[k + 1])
    <3>1. u * s >= paid /\ (rate = 0 => u * s = paid)
      BY <2>3 DEF u
    <3> HIDE DEF paid, rest
    <3>2. S[k + 1] \in Int /\ S[k + 1] >= paid + rest
      BY <2>1, <2>5, <2>6, <3>1
    <3>3. u * S[k + 1] >= u * (paid + rest)
      BY <2>4, <2>5, <3>2
    <3>4. rate = 0 => S[k + 1] = paid + rest
      BY <2>1, <2>5, <2>6, <3>1
    <3>5. QED
      BY <2>9, <3>3, <3>4
  <2>11. QED
    BY <2>7, <2>8, <2>10 DEF u
<1>4. T = {}
  <2> SUFFICES ASSUME T # {} PROVE FALSE
    OBVIOUS
  <2>1. PICK k \in T : \A m \in T : k <= m
    <3>1. T \subseteq Nat
      OBVIOUS
    <3> HIDE DEF T
    <3>2. QED
      BY <3>1, LeastOfNat
  <2>2. k \in Nat /\ ~Holds(k)
    OBVIOUS
  <2> HIDE DEF Holds
  <2>3. k # 0
    BY <1>2, <2>2
  <2>4. k - 1 \in Nat /\ k - 1 \notin T
    BY <2>1, <2>2, <2>3
  <2>5. Holds((k - 1) + 1)
    BY <1>3, <2>4
  <2>6. QED
    BY <2>2, <2>5
<1>5. Holds(n)
  <2> HIDE DEF Holds
  <2>1. QED
    BY <1>4
<1>6. QED
  BY <1>5 DEF H, P, S

(* A factor of both sides of a division. *)
LEMMA CommonFactor ==
  ASSUME NEW a \in Int, NEW b \in Nat \ {0}, NEW k \in Nat \ {0}
  PROVE  (k * a) \div (k * b) = a \div b
<1> DEFINE q == a \div b
<1>1. q \in Int /\ b * q <= a /\ a < b * q + b
  OBVIOUS
<1>2. k * b \in Nat \ {0} /\ k * a \in Int
  OBVIOUS
<1> HIDE DEF q
<1>3. (k * b) * q <= k * a
  BY <1>1
<1>4. k * a < (k * b) * q + k * b
  BY <1>1
<1>5. (k * a) \div (k * b) = q
  BY <1>1, <1>2, <1>3, <1>4
<1>6. QED
  BY <1>5 DEF q

(* What a plan is projected to be worth is what saving month by month would *)
(* give, and no less than what is paid in.                                 *)
LEMMA ProjectionIsSaved ==
  ASSUME NEW c \in Nat, NEW n \in Nat \ {0}, NEW rate \in Nat
  PROVE  /\ Projection(c, n, rate).value =
              (2 * Saved(c, rate)[n] + Powers(RateScale)[n - 1]) \div (2 * Powers(RateScale)[n - 1])
         /\ Projection(c, n, rate).value >= Projection(c, n, rate).total
<1> DEFINE h == Powers(RateScale)[n - 1]
           s == Saved(c, rate)[n]
           grown == c * (Powers(RateScale + rate)[n] - Powers(RateScale)[n])
           worth == (2 * s + h) \div (2 * h)
<1>1. /\ h \in Nat \ {0} /\ s \in Nat
      /\ rate * s = grown
      /\ s >= (c * n) * h
      /\ rate = 0 => s = (c * n) * h
  <2>1. /\ Powers(RateScale) \in [Nat -> Int] /\ Saved(c, rate) \in [Nat -> Int]
        /\ \A k \in Nat : Powers(RateScale)[k + 1] = RateScale * Powers(RateScale)[k]
    BY ScaleIsWhole, PowersAre, SavedAre
  <2>2. n - 1 \in Nat /\ (n - 1) + 1 = n
    OBVIOUS
  <2>3. h \in Int /\ s \in Int /\ Powers(RateScale)[n] = RateScale * h
    BY <2>1, <2>2
  <2>4. h > 0
    BY <2>2, SavedInClosedForm
  <2>5. /\ s >= 0 /\ rate * s = grown
        /\ RateScale * s >= (c * n) * Powers(RateScale)[n]
        /\ rate = 0 => RateScale * s = (c * n) * Powers(RateScale)[n]
    BY SavedInClosedForm
  <2> HIDE DEF h, s, grown
  <2> DEFINE u == RateScale
             paid == (c * n) * h
  <2>6. u \in Int /\ u > 0
    BY ScaleIsWhole
  <2>7. paid \in Int /\ (c * n) * Powers(RateScale)[n] = u * paid
    BY <2>3, <2>6
  <2>8. u * s >= u * paid /\ (rate = 0 => u * s = u * paid)
    BY <2>5, <2>7
  <2>9. s >= paid /\ (rate = 0 => s = paid)
    <3> HIDE DEF u, paid
    <3>1. QED
      BY <2>3, <2>6, <2>7, <2>8
  <2>10. QED
    BY <2>3, <2>4, <2>5, <2>9
<1>2. /\ Projection(c, n, rate).total = c * n
      /\ Projection(c, n, rate).value =
           IF rate = 0 THEN c * n ELSE (2 * grown + rate * h) \div (2 * (rate * h))
  BY DEF Projection
<1> HIDE DEF h, s, grown
<1>3. worth >= c * n /\ (s = (c * n) * h => worth = c * n)
  <2> DEFINE total == c * n
  <2>1. total \in Int /\ s \in Int /\ h \in Nat \ {0}
    BY <1>1
  <2>2. s >= total * h
    BY <1>1
  <2> HIDE DEF total
  <2>3. worth \in Int /\ (2 * h) * worth <= 2 * s + h /\ 2 * s + h < (2 * h) * worth + 2 * h
    BY <2>1
  <2> HIDE DEF worth
  <2>4. h * (2 * total + 1) < h * (2 * worth + 2)
    BY <2>1, <2>2, <2>3
  <2>5. worth >= total
    BY <2>1, <2>3, <2>4
  <2>6. ASSUME s = total * h PROVE worth = total
    <3>1. h * (2 * worth) <= h * (2 * total + 1)
      BY <2>1, <2>3, <2>6
    <3>2. 2 * worth <= 2 * total + 1
      BY <2>1, <2>3, <3>1
    <3>3. QED
      BY <2>1, <2>3, <2>5, <3>2
  <2>7. QED
    BY <2>5, <2>6 DEF total
<1>4. Projection(c, n, rate).value = worth
  <2>1. CASE rate = 0
    BY <1>1, <1>2, <1>3, <2>1
  <2>2. CASE rate # 0
    <3>1. 2 * grown + rate * h = rate * (2 * s + h) /\ 2 * (rate * h) = rate * (2 * h)
      BY <1>1
    <3>2. 2 * s + h \in Int /\ 2 * h \in Nat \ {0} /\ rate \in Nat \ {0}
      BY <1>1, <2>2
    <3>3. (rate * (2 * s + h)) \div (rate * (2 * h)) = worth
      BY <3>2, CommonFactor
    <3>4. QED
      BY <1>2, <2>2, <3>1, <3>3
  <2>3. QED
    BY <2>1, <2>2
<1>5. QED
  BY <1>2, <1>3, <1>4 DEF h, s

(* Plans.  What a request is about to keep, and what is kept, was valid     *)
(* under the profile it was asked with.                                    *)
Sound(p) ==
  /\ p.type \in ProfileTypes
  /\ p.want.instrument \in InstrumentsFor(p.type)
  /\ p.want.contribution \in Nat
  /\ p.want.horizon \in Nat \ {0}

RiskInv ==
  /\ saver = [s \in Savers |-> saver[s]]
  /\ \A s \in Savers : (saver[s] # AtRest /\ saver[s].op = "plan") => Sound(saver[s])
  /\ \A p \in kept : Sound(p)

(* A step of the requests about profiles and plans keeps the invariant. *)
LEMMA RiskNext == RiskInv /\ [NextRisk]_riskVars => RiskInv'
<1> SUFFICES ASSUME RiskInv, [NextRisk]_riskVars PROVE RiskInv'
  OBVIOUS
<1> USE DEF RiskInv
<1>1. ASSUME NEW s \in Savers, NEW answers \in Submissions, BeginSave(s, answers) PROVE RiskInv'
  BY <1>1 DEF BeginSave, Sound
<1>2. ASSUME NEW s \in Savers, EndSave(s) PROVE RiskInv'
  BY <1>2 DEF EndSave, Settle, Sound
<1>3. ASSUME NEW s \in Savers, NEW want \in Wanted, BeginPlan(s, want) PROVE RiskInv'
  <2> DEFINE new == [op |-> "plan", want |-> want, type |-> ProfileTypeOf(profileRow)]
  <2>1. ProfileTypeOf(profileRow) \in ProfileTypes
    BY DEF ProfileTypeOf, ProfileTypes
  <2>2. want.contribution \in Int /\ want.horizon \in Int /\ MaxHorizon \in Nat
    BY PlansAssumption, InvestmentAssumption
  <2>3. Sound(new)
    BY <1>3, <2>1, <2>2 DEF BeginPlan, ValidPlan, Sound
  <2>4. saver' = [saver EXCEPT ![s] = new] /\ kept' = kept
    BY <1>3 DEF BeginPlan
  <2> HIDE DEF new
  <2>5. QED
    BY <2>3, <2>4 DEF Sound
<1>4. ASSUME NEW s \in Savers, EndPlan(s) PROVE RiskInv'
  BY <1>4 DEF EndPlan, Settle, Sound
<1>5. ASSUME NEW p \in kept, DeletePlan(p) PROVE RiskInv'
  BY <1>5 DEF DeletePlan, Sound
<1>6. CASE UNCHANGED riskVars
  BY <1>6 DEF riskVars, Sound
<1>7. QED
  BY <1>1, <1>2, <1>3, <1>4, <1>5, <1>6 DEF NextRisk

(* PlansStand: whatever questionnaires are sent while a plan is made and    *)
(* afterwards, it fits the profile it was made under, its projection is    *)
(* what saving month by month would give, for any rate and horizon, and it *)
(* does not move.                                                          *)
THEOREM PlansAlwaysStand == SpecRisk => PlansStand
<1>1. InitRisk => RiskInv
  BY DEF InitRisk, RiskInv
<1>2. RiskInv' =>
        /\ \A p \in kept' :
             /\ p.want.instrument \in InstrumentsFor(p.type)
             /\ View(p)'.value = MonthByMonth(p)
             /\ View(p)'.value >= View(p)'.total
        /\ \A p \in kept \cap kept' : View(p)' = View(p)
  <2> SUFFICES ASSUME RiskInv', NEW p \in kept'
               PROVE  /\ p.want.instrument \in InstrumentsFor(p.type)
                      /\ View(p)'.value = MonthByMonth(p)
                      /\ View(p)'.value >= View(p)'.total
                      /\ View(p)' = View(p)
    OBVIOUS
  <2>1. Sound(p)
    BY DEF RiskInv, Sound
  <2>2. View(p)' = View(p)
    BY DEF View, Projection
  <2>3. MonthlyRate[p.type] \in Nat
    BY <2>1, InvestmentAssumption DEF Sound
  <2>4. View(p).value = MonthByMonth(p) /\ View(p).value >= View(p).total
    BY <2>1, <2>3, ProjectionIsSaved DEF Sound, View, MonthByMonth
  <2>5. QED
    BY <2>1, <2>2, <2>4 DEF Sound
<1>3. QED
  BY <1>1, <1>2, RiskNext, PTL DEF SpecRisk, PlansStand
=============================================================================
