------------------------------- MODULE Identity -------------------------------
(***************************************************************************)
(* identity: users, their profiles and their tokens.  Requests run at READ  *)
(* COMMITTED, each statement on its own but for the registration, which     *)
(* creates user, profile and token in one transaction.                     *)
(***************************************************************************)
EXTENDS Amounts, Sequences

CONSTANTS
  Callers,          \* requests that may be open at once
  Typed,            \* emails as they are typed
  EmailOf,          \* EmailOf[typed]: in lower case and without blanks
  Passwords, Strong,
  Edits,            \* updates of a profile: the fields sent, with their values
  ProfileDefaults,  \* what a new profile holds
  NoUser, Waiting

Fields == {"display_name", "preferred_currency", "language"}

VARIABLES
  userRows,    \* userRows[email]: user, profile and token, NoUser if there is none
  caller,      \* what each open request has read
  asked        \* history: for each user the value last sent for each field

identityVars == <<userRows, caller, asked>>

Emails == {EmailOf[t] : t \in Typed}

(* The currency as it is kept; a language is one of the two already. *)
Cleaned(edit) ==
  [f \in DOMAIN edit |-> IF f = "preferred_currency" THEN CodeOf[edit[f]] ELSE edit[f]]

(* What a field of a profile may hold, a profile, and a row with its user.  *)
FieldValues ==
  {ProfileDefaults[f] : f \in Fields}
    \cup UNION {{Cleaned(edit)[f] : f \in DOMAIN edit} : edit \in Edits}

Profiles == [Fields -> FieldValues]

UserRows == [password : Passwords, active : BOOLEAN, profile : Profiles, onboarded : BOOLEAN]

(* An email is no word of the program, and a row is there or not.          *)
ASSUME IdentityAssumption ==
  /\ Emails \cap {"401", "missing_credentials", "no_credentials", "spaces",
                  "invalid_token", "inactive_user"} = {}
  /\ NoUser \notin Emails \cup UserRows
  /\ DOMAIN ProfileDefaults = Fields /\ ProfileDefaults = [f \in Fields |-> ProfileDefaults[f]]

InitIdentity ==
  /\ userRows = [e \in Emails |-> NoUser]
  /\ caller = [c \in Callers |-> Waiting]
  /\ asked = [e \in Emails |-> ProfileDefaults]

Release(c) == caller' = [caller EXCEPT ![c] = Waiting]

(* register_user: the email must not be registered, the password be strong. *)
BeginRegister(c, typed, password) ==
  /\ caller[c] = Waiting
  /\ userRows[EmailOf[typed]] = NoUser
  /\ password \in Strong
  /\ caller' = [caller EXCEPT ![c] = [op |-> "register", email |-> EmailOf[typed], password |-> password]]
  /\ UNCHANGED <<userRows, asked>>

NewUser(password) ==
  [password |-> password, active |-> TRUE, profile |-> ProfileDefaults, onboarded |-> FALSE]

InsertOverwriting(c) ==
  /\ caller[c] # Waiting /\ caller[c].op = "register"
  /\ userRows' = [userRows EXCEPT ![caller[c].email] = NewUser(caller[c].password)]
  /\ Release(c)
  /\ UNCHANGED asked

(* INV-10: the unique constraint refuses the second of two registrations.  *)
EndRegister(c) ==
  /\ caller[c] # Waiting /\ caller[c].op = "register"
  /\ userRows' =
       IF userRows[caller[c].email] # NoUser THEN userRows
       ELSE [userRows EXCEPT ![caller[c].email] = NewUser(caller[c].password)]
  /\ Release(c)
  /\ UNCHANGED asked

(* authenticate_user answers the token of the user, who has one for ever.   *)
LogsIn(typed, password) ==
  LET user == userRows[EmailOf[typed]] IN
  user # NoUser /\ user.active /\ user.password = password

(* TokenVerificationService.verify, which the gateway asks before each      *)
(* request: the words of the Authorization header, then the token's user.   *)
Verify(words) ==
  IF Len(words) = 0 \/ words[1] # "token" THEN "missing_credentials"
  ELSE IF Len(words) = 1 THEN "no_credentials"
  ELSE IF Len(words) > 2 THEN "spaces"
  ELSE IF words[2] \notin Emails \/ userRows[words[2]] = NoUser THEN "invalid_token"
  ELSE IF ~userRows[words[2]].active THEN "inactive_user"
  ELSE words[2]

(* The answer of the verification endpoint: the X-User-Id of the user, or   *)
(* none with a 401.                                                        *)
Verified(words) == IF Verify(words) \in Emails THEN Verify(words) ELSE NoUser

(* The gateway overwrites the X-User-Id a client sends with the one that    *)
(* was verified; without one it answers 401 itself.                        *)
Forwarded(words, claimed) == Verified(words)

(* identify_user: a service trusts the header, and refuses without one.     *)
Identified(words, claimed) ==
  IF Forwarded(words, claimed) = NoUser THEN "401" ELSE Forwarded(words, claimed)

(* complete_profile: the profile is read; a PUT sends at least one field.   *)
BeginEdit(c, email, edit) ==
  /\ caller[c] = Waiting
  /\ userRows[email] # NoUser /\ userRows[email].active
  /\ DOMAIN edit # {} /\ DOMAIN edit \subseteq Fields
  /\ "display_name" \in DOMAIN edit => edit["display_name"] # ""
  /\ "preferred_currency" \in DOMAIN edit => ValidCode(edit["preferred_currency"])
  /\ caller' = [caller EXCEPT ![c] =
       [op |-> "edit", email |-> email, edit |-> Cleaned(edit), read |-> userRows[email]]]
  /\ UNCHANGED <<userRows, asked>>

Merged(profile, edit) == [f \in Fields |-> IF f \in DOMAIN edit THEN edit[f] ELSE profile[f]]

Complete(profile) == profile["display_name"] # "" /\ profile["preferred_currency"] # ""

EndEditSavingAll(c) ==
  /\ caller[c] # Waiting /\ caller[c].op = "edit"
  /\ LET job == caller[c] IN
     /\ userRows' = [userRows EXCEPT
          ![job.email].profile = Merged(job.read.profile, job.edit),
          ![job.email].onboarded = @ \/ Complete(Merged(job.read.profile, job.edit))]
     /\ asked' = [asked EXCEPT ![job.email] = Merged(@, job.edit)]
  /\ Release(c)

(* save(update_fields=...): only the columns of the fields sent, and the    *)
(* mark of completion if the copy read was not complete and now is.        *)
EndEdit(c) ==
  /\ caller[c] # Waiting /\ caller[c].op = "edit"
  /\ LET job == caller[c]
         completes == ~job.read.onboarded /\ Complete(Merged(job.read.profile, job.edit))
     IN  /\ userRows' = [userRows EXCEPT ![job.email].profile = Merged(@, job.edit),
                                         ![job.email].onboarded = @ \/ completes]
         /\ asked' = [asked EXCEPT ![job.email] = Merged(@, job.edit)]
  /\ Release(c)

(* An operator may deactivate a user, and activate it again. *)
SetActive(email, active) ==
  /\ userRows[email] # NoUser
  /\ userRows' = [userRows EXCEPT ![email].active = active]
  /\ UNCHANGED <<caller, asked>>

NextIdentity ==
  \/ \E c \in Callers :
       \/ \E typed \in Typed, password \in Passwords : BeginRegister(c, typed, password)
       \/ EndRegister(c)
       \/ \E email \in Emails, edit \in Edits : BeginEdit(c, email, edit)
       \/ EndEdit(c)
  \/ \E email \in Emails, active \in BOOLEAN : SetActive(email, active)

SpecIdentity == InitIdentity /\ [][NextIdentity]_identityVars

-----------------------------------------------------------------------------
(* Two tabs that save different fields of a profile both have their way:    *)
(* each field is what was last sent for it, whatever the interleaving; a    *)
(* profile once complete stays so; of two registrations of one email, in    *)
(* whatever spelling, the first keeps its password; and a service works for *)
(* a user exactly on the user's own token while the user is active,         *)
(* whoever the client claims to be.                                        *)
UpdatesDoNotOverwrite ==
  [][\A e \in Emails : userRows[e] # NoUser =>
       /\ userRows'[e].profile = asked'[e]
       /\ userRows[e].onboarded => userRows'[e].onboarded
       /\ \A typed \in Typed, password \in Passwords : EmailOf[typed] = e =>
            (LogsIn(typed, password)' <=> userRows'[e].active /\ password = userRows[e].password)
       /\ \A claimed \in Typed :
            /\ (Identified(<<"token", e>>, claimed) = e)' = userRows'[e].active
            /\ Identified(<<>>, claimed)' = "401"]_identityVars
=============================================================================
