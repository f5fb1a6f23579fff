-------------------------- MODULE NotificationsProofs --------------------------
(***************************************************************************)
(* Proofs about Notifications for any subscriptions, workers, periods and  *)
(* numbers of failures.                                                    *)
(***************************************************************************)
EXTENDS Notifications, FiniteSetTheorems, TLAPS

USE DEF mailVars

-----------------------------------------------------------------------------
(* The inductive invariant.                                                *)

Types ==
  /\ sub \in [Subs -> Subscriptions!Rows]
  /\ claim \in [Notices -> {"none", "sent", "no_contact"}]
  /\ emails \in [Notices -> Nat] /\ undone \in [Notices -> Nat]
  /\ queue \subseteq MailMessages
  /\ job \in [Workers -> MailJob \cup {Idle}]
  /\ now \in Nat /\ faults \in 0 .. MaxFaults
  /\ \A w \in Workers : Busy(w) /\ job[w].phase # "next" => job[w].current \in Subs

(* The unique index: while a transaction has inserted the row of a notice, *)
(* there is no committed one and no other transaction has inserted it.     *)
ClaimsAreExclusive ==
  \A w \in Workers : \A n \in Notices :
    Holds(w, n) => claim[n] = "none" /\ \A v \in Workers : Holds(v, n) => v = w

Sending(w, n) == Holds(w, n) /\ Does(w, {"sent"})

RecordedOnce(n) == IF claim[n] = "sent" THEN 1 ELSE 0

InFlight(n) == IF \E w \in Workers : Sending(w, n) THEN 1 ELSE 0

(* Every mail is recorded, about to be recorded, or was undone ... *)
MailsAddUp == \A n \in Notices : emails[n] = RecordedOnce(n) + InFlight(n) + undone[n]

(* ... and each one undone is a failure of its own. *)
UndoneAreFaults == \A n \in Notices : undone[n] <= faults

MailInv == ClaimsAreExclusive /\ MailsAddUp /\ UndoneAreFaults

IInv == Types /\ MailInv

-----------------------------------------------------------------------------
(* What the steps of a worker give it.                                     *)

Gives(w, k) == job' = [job EXCEPT ![w] = k]

(* A task that has no row inserted, or no task. *)
Empty(k) == k \in MailJob \cup {Idle} /\ (k # Idle => k.phase = "next")

(* The other workers stay where they are. *)
LEMMA GivesJob ==
  ASSUME Types, NEW w \in Workers, NEW k, Gives(w, k)
  PROVE  job'[w] = k /\ \A v \in Workers \ {w} : job'[v] = job[v]
  BY DEF Types, Gives

(* Every notice a task holds is of a kind and a subscription. *)
LEMMA HeldNotices ==
  ASSUME Types, NEW w \in Workers, Does(w, {"claimed", "sent", "no_contact"})
  PROVE  Notice(job[w]) \in Notices /\ Holds(w, Notice(job[w]))
  BY DEF Types, Does, Notices, Notice, KindOf, Kinds, Holds

(* A task selects subscriptions. *)
LEMMA SelectedType ==
  ASSUME NEW message \in MailMessages
  PROVE  Selected(message) \subseteq Subs
<1>1. CASE message = MissingWelcomes \/ message = NotifyExpiring
  BY <1>1 DEF Selected, MissingWelcomes, NotifyExpiring
<1>2. CASE message # MissingWelcomes /\ message # NotifyExpiring
  <2>1. message[2] \in Subs
    BY <1>2 DEF MailMessages, Welcome
  <2>2. QED
    BY <1>2, <2>1 DEF Selected
<1>3. QED
  BY <1>1, <1>2

(* Leaving a subscription ends the task or goes on to the next one. *)
LEMMA LeavesStep ==
  ASSUME Types, NEW w \in Workers, Busy(w), NEW x, Leaves(w, x)
  PROVE  \E k : Empty(k) /\ Gives(w, k)
<1> PICK j \in MailJob : j = job[w]
  BY DEF Types, Busy
<1>1. CASE job[w].todo \ {x} = {}
  BY <1>1 DEF Leaves, Ends, Starts, Gives, Empty
<1>2. CASE job[w].todo \ {x} # {}
  <2> DEFINE k == [j EXCEPT !.phase = "next", !.todo = j.todo \ {x}, !.current = Nobody]
  <2>1. Gives(w, k)
    BY <1>2 DEF Leaves, Starts, Gives
  <2>2. Empty(k)
    BY DEF Empty, MailJob
  <2>3. QED
    BY <2>1, <2>2
<1>3. QED
  BY <1>1, <1>2

(* Receiving a message starts a task that has sent nothing, or none. *)
LEMMA TakeStep ==
  ASSUME Types, NEW w \in Workers, NEW message \in MailMessages, TakeMail(w, message)
  PROVE  /\ ~Busy(w) /\ \E k : Empty(k) /\ Gives(w, k)
         /\ queue' \subseteq queue /\ UNCHANGED <<mailVars, now, faults>>
<1>1. /\ ~Busy(w) /\ queue' \subseteq queue /\ UNCHANGED <<mailVars, now, faults>>
  BY DEF TakeMail, Receives
<1>2. CASE Selected(message) = {}
  <2>1. Gives(w, Idle)
    BY <1>1, <1>2 DEF TakeMail, Types, Gives, Busy
  <2>2. QED
    BY <1>1, <2>1 DEF Empty
<1>3. CASE Selected(message) # {}
  <2> DEFINE k == [message |-> message, asOf |-> now, todo |-> Selected(message),
                   current |-> Nobody, phase |-> "next"]
  <2>1. Gives(w, k)
    BY <1>3 DEF TakeMail, Starts, Gives
  <2>2. Empty(k)
    BY SelectedType DEF Types, Empty, MailJob
  <2>3. QED
    BY <1>1, <2>1, <2>2
<1>4. QED
  BY <1>2, <1>3

(* A claim is given only to a notice nobody holds and nobody recorded. *)
LEMMA ClaimStep ==
  ASSUME Types, NEW w \in Workers, ClaimNotice(w)
  PROVE  /\ Busy(w) /\ job[w].phase = "next" /\ UNCHANGED <<queue, now, faults, mailVars>>
         /\ \/ \E k : Empty(k) /\ Gives(w, k)
            \/ \E k \in MailJob :
                 /\ Gives(w, k) /\ k.phase = "claimed" /\ k.current \in Subs
                 /\ claim[Notice(k)] = "none" /\ \A v \in Workers : ~Holds(v, Notice(k))
<1>1. Busy(w) /\ job[w].phase = "next" /\ UNCHANGED <<queue, now, faults, mailVars>>
  BY DEF ClaimNotice, Does
<1> PICK j \in MailJob : j = job[w]
  BY <1>1 DEF Types, Busy
<1>2. PICK x \in j.todo :
        LET n == <<KindOf(j.message), x>>
            due == StillDue(j, x)
        IN  /\ due => \A v \in Workers : ~Holds(v, n)
            /\ IF due /\ claim[n] = "none"
               THEN Starts(w, [j EXCEPT !.phase = "claimed", !.current = x])
               ELSE Leaves(w, x)
  BY DEF ClaimNotice
<1>3. CASE StillDue(j, x) /\ claim[<<KindOf(j.message), x>>] = "none"
  <2> DEFINE k == [j EXCEPT !.phase = "claimed", !.current = x]
  <2>1. Gives(w, k) /\ \A v \in Workers : ~Holds(v, <<KindOf(j.message), x>>)
    BY <1>2, <1>3 DEF Starts, Gives
  <2>2. x \in Subs
    BY DEF MailJob
  <2>3. k \in MailJob /\ k.phase = "claimed" /\ k.current = x /\ k.message = j.message
    BY <2>2 DEF MailJob
  <2> HIDE DEF k
  <2>4. Notice(k) = <<KindOf(j.message), x>>
    BY <2>3 DEF Notice
  <2>5. QED
    BY <1>1, <1>3, <2>1, <2>2, <2>3, <2>4
<1>4. CASE ~(StillDue(j, x) /\ claim[<<KindOf(j.message), x>>] = "none")
  BY <1>1, <1>2, <1>4, LeavesStep
<1>5. QED
  BY <1>3, <1>4

-----------------------------------------------------------------------------
(* The types.                                                              *)

(* Giving worker w a task, or none. *)
LEMMA JobTypes ==
  ASSUME Types, NEW w \in Workers, NEW k \in MailJob \cup {Idle}, Gives(w, k),
         k # Idle /\ k.phase # "next" => k.current \in Subs
  PROVE  /\ job' \in [Workers -> MailJob \cup {Idle}]
         /\ \A v \in Workers : Busy(v)' /\ job'[v].phase # "next" => job'[v].current \in Subs
<1>1. job'[w] = k /\ \A v \in Workers \ {w} : job'[v] = job[v]
  BY GivesJob
<1>2. QED
  BY <1>1 DEF Types, Gives, Busy

(* The first state has the types. *)
LEMMA TypesInit == Init => Types
  BY CeleryAssumption, NotificationsAssumption
     DEF Init, InitCelery, InitMail, Types, Busy, Subscriptions!StartWith, Subscriptions!Rows,
         Subscriptions!Granting

(* The rows stay rows. *)
LEMMA RowTypes ==
  ASSUME sub \in [Subs -> Subscriptions!Rows], now \in Nat,
         \/ \E x \in Subs : Subscriptions!Activate(x) \/ Subscriptions!Cancel(x)
         \/ \E X \in SUBSET Subs : Subscriptions!Expire(X)
  PROVE  sub' \in [Subs -> Subscriptions!Rows] /\ now' = now
<1> USE DEF Subscriptions!Rows, Subscriptions!Granting
<1>1. ASSUME NEW x \in Subs, Subscriptions!Activate(x)
      PROVE  sub' \in [Subs -> Subscriptions!Rows] /\ now' = now
  BY <1>1, NotificationsAssumption DEF Subscriptions!Activate
<1>2. ASSUME NEW x \in Subs, Subscriptions!Cancel(x)
      PROVE  sub' \in [Subs -> Subscriptions!Rows] /\ now' = now
  BY <1>2 DEF Subscriptions!Cancel
<1>3. ASSUME NEW X \in SUBSET Subs, Subscriptions!Expire(X)
      PROVE  sub' \in [Subs -> Subscriptions!Rows] /\ now' = now
  BY <1>3 DEF Subscriptions!Expire
<1>4. QED
  BY <1>1, <1>2, <1>3

(* Payments, cancellations, expiries, the beat and the clock. *)
LEMMA QuietTypes ==
  ASSUME Types,
         \/ \E x \in Subs : Activate(x) \/ Cancel(x)
         \/ ExpireSubscriptions
         \/ BeatMail(MissingWelcomes) \/ BeatMail(NotifyExpiring)
         \/ TimePasses /\ UNCHANGED mailVars
         \/ UNCHANGED vars
  PROVE  Types' /\ UNCHANGED <<job, claim, emails, undone, faults>>
<1> USE DEF Types, Busy
<1>1. ASSUME NEW x \in Subs, Activate(x) PROVE Types' /\ UNCHANGED <<job, claim, emails, undone, faults>>
  <2>1. Subscriptions!Activate(x) /\ UNCHANGED <<job, claim, emails, undone, faults>>
    BY <1>1 DEF Activate
  <2>2. sub' \in [Subs -> Subscriptions!Rows] /\ now' = now
    BY <2>1, RowTypes
  <2>3. queue' \subseteq MailMessages
    BY <1>1 DEF Activate, MailMessages
  <2>4. QED
    BY <2>1, <2>2, <2>3
<1>2. ASSUME NEW x \in Subs, Cancel(x) PROVE Types' /\ UNCHANGED <<job, claim, emails, undone, faults>>
  BY <1>2, RowTypes DEF Cancel
<1>3. CASE ExpireSubscriptions
  BY <1>3, RowTypes DEF ExpireSubscriptions
<1>4. CASE BeatMail(MissingWelcomes) \/ BeatMail(NotifyExpiring)
  BY <1>4 DEF BeatMail, BeatSends, MailMessages
<1>5. CASE TimePasses /\ UNCHANGED mailVars
  BY <1>5 DEF TimePasses
<1>6. CASE UNCHANGED vars
  BY <1>6 DEF vars
<1>7. QED
  BY <1>1, <1>2, <1>3, <1>4, <1>5, <1>6

-----------------------------------------------------------------------------
(* Claims and mails.                                                       *)

(* Whoever holds nothing and has sent nothing can get a task like that. *)
LEMMA EmptyKeeps ==
  ASSUME Types, MailInv, NEW w \in Workers, NEW k, Gives(w, k), Empty(k), ~Does(w, {"sent"}),
         UNCHANGED <<claim, emails, undone>>, faults' \in Nat, faults <= faults'
  PROVE  MailInv'
<1>1. job'[w] = k /\ \A v \in Workers \ {w} : job'[v] = job[v]
  BY GivesJob
<1>2. /\ \A n \in Notices : ~Holds(w, n)' /\ ~Sending(w, n)' /\ ~Sending(w, n)
      /\ \A v \in Workers \ {w} : \A n \in Notices :
           Holds(v, n)' = Holds(v, n) /\ Sending(v, n)' = Sending(v, n)
  BY <1>1 DEF Empty, Holds, Sending, Does, Busy
<1>3. ClaimsAreExclusive'
  BY <1>2 DEF MailInv, ClaimsAreExclusive
<1>4. \A n \in Notices : InFlight(n)' = InFlight(n)
  BY <1>2 DEF InFlight
<1>5. MailsAddUp' /\ UndoneAreFaults'
  BY <1>4 DEF MailInv, MailsAddUp, RecordedOnce, UndoneAreFaults, Types
<1>6. QED
  BY <1>3, <1>5 DEF MailInv

(* A notice is claimed. *)
LEMMA ClaimKeeps ==
  ASSUME Types, MailInv, NEW w \in Workers, NEW k \in MailJob, Gives(w, k),
         Busy(w), job[w].phase = "next", k.phase = "claimed", k.current \in Subs,
         claim[Notice(k)] = "none", \A v \in Workers : ~Holds(v, Notice(k)),
         UNCHANGED <<claim, emails, undone, faults>>
  PROVE  MailInv'
<1>1. job'[w] = k /\ (\A v \in Workers \ {w} : job'[v] = job[v]) /\ k # Idle
  BY GivesJob, MailIdleAssumption
<1>2. /\ \A n \in Notices : /\ Holds(w, n)' => n = Notice(k)
                            /\ ~Sending(w, n)' /\ ~Sending(w, n)
      /\ \A v \in Workers \ {w} : \A n \in Notices :
           Holds(v, n)' = Holds(v, n) /\ Sending(v, n)' = Sending(v, n)
  BY <1>1 DEF Holds, Sending, Does, Busy
<1>3. ClaimsAreExclusive'
  BY <1>2 DEF MailInv, ClaimsAreExclusive
<1>4. \A n \in Notices : InFlight(n)' = InFlight(n)
  <2>1. \A v \in Workers : \A n \in Notices : Sending(v, n)' <=> Sending(v, n)
    BY <1>2
  <2>2. QED
    BY <2>1 DEF InFlight
<1>5. MailsAddUp' /\ UndoneAreFaults'
  BY <1>4 DEF MailInv, MailsAddUp, RecordedOnce, UndoneAreFaults
<1>6. QED
  BY <1>3, <1>5 DEF MailInv

(* The mail goes out while its row is only in the transaction, or there is  *)
(* nobody to send it to.                                                   *)
LEMMA SendKeeps ==
  ASSUME Types, MailInv, NEW w \in Workers, SendMail(w)
  PROVE  Types' /\ MailInv'
<1> PICK j \in MailJob : j = job[w]
  BY DEF SendMail, Does, Busy, Types
<1>1. /\ j # Idle /\ j.phase = "claimed" /\ Holds(w, Notice(j)) /\ Notice(j) \in Notices
      /\ j.current \in Subs
      /\ UNCHANGED <<queue, now, faults, sub, claim, undone>>
  BY HeldNotices DEF SendMail, Does, Busy, Types
<1>2. \E k \in MailJob :
        /\ Gives(w, k) /\ Notice(k) = Notice(j) /\ k.current = j.current
        /\ \/ k.phase = "sent" /\ emails' = [emails EXCEPT ![Notice(j)] = @ + 1]
           \/ k.phase = "no_contact" /\ UNCHANGED emails
  <2>1. CASE HasContact(j.current)
    <3> DEFINE k == [j EXCEPT !.phase = "sent"]
    <3>1. Gives(w, k) /\ emails' = [emails EXCEPT ![Notice(j)] = @ + 1]
      BY <2>1 DEF SendMail, Starts, Gives
    <3>2. k \in MailJob /\ k.phase = "sent" /\ k.message = j.message /\ k.current = j.current
      BY DEF MailJob
    <3> HIDE DEF k
    <3>3. QED
      BY <3>1, <3>2 DEF Notice
  <2>2. CASE ~HasContact(j.current)
    <3> DEFINE k == [j EXCEPT !.phase = "no_contact"]
    <3>1. Gives(w, k) /\ UNCHANGED emails
      BY <2>2 DEF SendMail, Starts, Gives
    <3>2. k \in MailJob /\ k.phase = "no_contact" /\ k.message = j.message /\ k.current = j.current
      BY DEF MailJob
    <3> HIDE DEF k
    <3>3. QED
      BY <3>1, <3>2 DEF Notice
  <2>3. QED
    BY <2>1, <2>2
<1>3. PICK k \in MailJob :
        /\ Gives(w, k) /\ Notice(k) = Notice(j) /\ k.current = j.current
        /\ \/ k.phase = "sent" /\ emails' = [emails EXCEPT ![Notice(j)] = @ + 1]
           \/ k.phase = "no_contact" /\ UNCHANGED emails
  BY <1>2
<1>4. job'[w] = k /\ (\A v \in Workers \ {w} : job'[v] = job[v]) /\ k # Idle
  BY <1>3, GivesJob, MailIdleAssumption
<1>5. /\ \A n \in Notices : /\ Holds(w, n)' = Holds(w, n)
                            /\ Sending(w, n)' = (n = Notice(j) /\ k.phase = "sent") /\ ~Sending(w, n)
      /\ \A v \in Workers \ {w} : \A n \in Notices :
           Holds(v, n)' = Holds(v, n) /\ Sending(v, n)' = Sending(v, n)
  BY <1>1, <1>3, <1>4 DEF Holds, Sending, Does, Busy
<1>6. ClaimsAreExclusive'
  BY <1>1, <1>5 DEF MailInv, ClaimsAreExclusive
<1>7. \A v \in Workers : ~Sending(v, Notice(j))
  BY <1>1, <1>5 DEF MailInv, ClaimsAreExclusive, Sending
<1>8. \A n \in Notices :
        InFlight(n)' = IF n = Notice(j) /\ k.phase = "sent" THEN InFlight(n) + 1 ELSE InFlight(n)
  <2>1. ASSUME NEW n \in Notices, n = Notice(j) /\ k.phase = "sent"
        PROVE  InFlight(n)' = 1 /\ InFlight(n) = 0
    BY <1>5, <1>7, <2>1 DEF InFlight
  <2>2. ASSUME NEW n \in Notices, ~(n = Notice(j) /\ k.phase = "sent")
        PROVE  InFlight(n)' = InFlight(n)
    BY <1>5, <2>2 DEF InFlight
  <2>3. QED
    BY <2>1, <2>2
<1>9. \A n \in Notices :
        emails'[n] = IF n = Notice(j) /\ k.phase = "sent" THEN emails[n] + 1 ELSE emails[n]
  BY <1>1, <1>3 DEF Types
<1>10. \A n \in Notices : InFlight(n) \in Nat /\ RecordedOnce(n) \in Nat /\ emails[n] \in Nat /\ undone[n] \in Nat
  BY DEF InFlight, RecordedOnce, Types
<1>11. MailsAddUp'
  <2>1. \A n \in Notices : RecordedOnce(n)' = RecordedOnce(n) /\ undone'[n] = undone[n]
    BY <1>1 DEF RecordedOnce
  <2>2. QED
    BY <1>8, <1>9, <1>10, <2>1 DEF MailInv, MailsAddUp
<1>12. UndoneAreFaults'
  BY <1>1 DEF MailInv, UndoneAreFaults
<1>13. Types'
  <2>1. emails' \in [Notices -> Nat]
    BY <1>3 DEF Types
  <2>2. QED
    BY <1>1, <1>3, <2>1, JobTypes DEF Types
<1>14. QED
  BY <1>6, <1>11, <1>12, <1>13 DEF MailInv

(* The row of the notice is committed, and says whether the mail went out. *)
LEMMA CommitKeeps ==
  ASSUME Types, MailInv, NEW w \in Workers, CommitNotice(w)
  PROVE  Types' /\ MailInv'
<1> PICK j \in MailJob : j = job[w]
  BY DEF CommitNotice, Does, Busy, Types
<1>1. /\ j # Idle /\ j.phase \in {"sent", "no_contact"} /\ Holds(w, Notice(j)) /\ Notice(j) \in Notices
      /\ claim' = [claim EXCEPT ![Notice(j)] = j.phase] /\ Leaves(w, j.current)
      /\ UNCHANGED <<queue, now, faults, sub, emails, undone>>
  BY HeldNotices DEF CommitNotice, Does, Busy, Types
<1>2. PICK k : Empty(k) /\ Gives(w, k)
  BY <1>1, LeavesStep DEF Busy
<1>3. job'[w] = k /\ \A v \in Workers \ {w} : job'[v] = job[v]
  BY <1>2, GivesJob
<1>4. /\ \A n \in Notices : /\ ~Holds(w, n)' /\ ~Sending(w, n)'
                            /\ Sending(w, n) = (n = Notice(j) /\ j.phase = "sent")
      /\ \A v \in Workers \ {w} : \A n \in Notices :
           Holds(v, n)' = Holds(v, n) /\ Sending(v, n)' = Sending(v, n)
  BY <1>1, <1>2, <1>3 DEF Empty, Holds, Sending, Does, Busy
<1>5. \A n \in Notices : claim'[n] = IF n = Notice(j) THEN j.phase ELSE claim[n]
  BY <1>1 DEF Types
<1>6. claim[Notice(j)] = "none" /\ \A v \in Workers : Holds(v, Notice(j)) => v = w
  BY <1>1 DEF MailInv, ClaimsAreExclusive
<1>7. ClaimsAreExclusive'
  BY <1>4, <1>5, <1>6 DEF MailInv, ClaimsAreExclusive
<1>8. \A n \in Notices : RecordedOnce(n)' + InFlight(n)' = RecordedOnce(n) + InFlight(n)
  <2>1. ASSUME NEW n \in Notices, n # Notice(j)
        PROVE  RecordedOnce(n)' = RecordedOnce(n) /\ InFlight(n)' = InFlight(n)
    BY <1>4, <1>5, <2>1 DEF RecordedOnce, InFlight
  <2>2. RecordedOnce(Notice(j)) = 0 /\ InFlight(Notice(j))' = 0
    BY <1>1, <1>4, <1>6 DEF RecordedOnce, InFlight, Sending
  <2>3. RecordedOnce(Notice(j))' = InFlight(Notice(j))
    BY <1>1, <1>4, <1>5, <1>6 DEF RecordedOnce, InFlight, Sending
  <2>4. InFlight(Notice(j)) \in Nat
    BY DEF InFlight
  <2>5. QED
    BY <2>1, <2>2, <2>3, <2>4
<1>9. MailsAddUp' /\ UndoneAreFaults'
  <2>1. \A n \in Notices : emails'[n] = emails[n] /\ undone'[n] = undone[n]
    BY <1>1
  <2>2. QED
    BY <1>1, <1>8, <2>1 DEF MailInv, MailsAddUp, UndoneAreFaults
<1>10. Types'
  <2>1. claim' \in [Notices -> {"none", "sent", "no_contact"}]
    BY <1>1 DEF Types
  <2>2. QED
    BY <1>1, <1>2, <2>1, JobTypes DEF Types, Empty
<1>11. QED
  BY <1>7, <1>9, <1>10 DEF MailInv

(* A task that ends reverts its claim; its mail, if it went out, is undone. *)
LEMMA AbortKeeps ==
  ASSUME Types, MailInv, NEW w \in Workers, AbortMail(w)
  PROVE  Types' /\ MailInv'
<1> PICK j \in MailJob : j = job[w]
  BY DEF AbortMail, TaskFails, WorkerDies, Busy, Types
<1>1. /\ j # Idle /\ Gives(w, Idle) /\ queue' \subseteq queue \cup {j.message}
      /\ faults < MaxFaults /\ faults' = faults + 1 /\ UNCHANGED <<now, sub, claim, emails>>
      /\ undone' = IF Does(w, {"sent"}) THEN [undone EXCEPT ![Notice(j)] = @ + 1] ELSE undone
  BY DEF AbortMail, TaskFails, WorkerDies, Faulty, Ends, Starts, Gives, Busy
<1>2. Empty(Idle) /\ faults \in Nat /\ faults' \in 0 .. MaxFaults
  BY <1>1, CeleryAssumption DEF Empty, Types
<1>3. Types'
  <2>1. undone' \in [Notices -> Nat]
    <3>1. CASE Does(w, {"sent"})
      <4>1. Notice(j) \in Notices
        BY <3>1, HeldNotices DEF Does
      <4>2. QED
        BY <1>1, <3>1, <4>1 DEF Types
    <3>2. CASE ~Does(w, {"sent"})
      BY <1>1, <3>2 DEF Types
    <3>3. QED
      BY <3>1, <3>2
  <2>2. queue' \subseteq MailMessages
    BY <1>1 DEF Types, MailJob
  <2>3. QED
    BY <1>1, <1>2, <2>1, <2>2, JobTypes DEF Types
<1>4. CASE ~Does(w, {"sent"})
  BY <1>1, <1>2, <1>3, <1>4, EmptyKeeps
<1>5. CASE Does(w, {"sent"})
  <2>1. Holds(w, Notice(j)) /\ Notice(j) \in Notices
    BY <1>5, HeldNotices DEF Does
  <2>2. job'[w] = Idle /\ \A v \in Workers \ {w} : job'[v] = job[v]
    BY <1>1, GivesJob
  <2>3. /\ \A n \in Notices : ~Holds(w, n)' /\ ~Sending(w, n)' /\ Sending(w, n) = (n = Notice(j))
        /\ \A v \in Workers \ {w} : \A n \in Notices :
             Holds(v, n)' = Holds(v, n) /\ Sending(v, n)' = Sending(v, n)
    BY <1>5, <2>1, <2>2 DEF Holds, Sending, Does, Busy
  <2>4. ClaimsAreExclusive'
    BY <1>1, <2>3 DEF MailInv, ClaimsAreExclusive
  <2>5. \A n \in Notices : InFlight(n) = IF n = Notice(j) THEN InFlight(n)' + 1 ELSE InFlight(n)'
    <3>1. InFlight(Notice(j)) = 1
      BY <2>1, <2>3 DEF InFlight
    <3>2. \A v \in Workers : ~Sending(v, Notice(j))'
      BY <2>1, <2>3 DEF MailInv, ClaimsAreExclusive, Sending
    <3>3. InFlight(Notice(j))' = 0
      BY <3>2 DEF InFlight
    <3>4. \A n \in Notices : n # Notice(j) => InFlight(n)' = InFlight(n)
      BY <2>3 DEF InFlight
    <3>5. QED
      BY <3>1, <3>3, <3>4
  <2>6. \A n \in Notices : undone'[n] = IF n = Notice(j) THEN undone[n] + 1 ELSE undone[n]
    BY <1>1, <1>5 DEF Types
  <2>7. \A n \in Notices : /\ RecordedOnce(n)' = RecordedOnce(n) /\ emails'[n] = emails[n]
                           /\ RecordedOnce(n) \in Nat /\ InFlight(n)' \in Nat /\ undone[n] \in Nat
    BY <1>1 DEF RecordedOnce, InFlight, Types
  <2>8. MailsAddUp'
    BY <2>5, <2>6, <2>7 DEF MailInv, MailsAddUp
  <2>9. UndoneAreFaults'
    BY <1>1, <1>2, <2>6, <2>7 DEF MailInv, UndoneAreFaults
  <2>10. QED
    BY <1>3, <2>4, <2>8, <2>9 DEF MailInv
<1>6. QED
  BY <1>4, <1>5

-----------------------------------------------------------------------------
(* The invariant holds in every state.                                     *)

(* A settled subscription starts with its welcome sent and recorded. *)
LEMMA IInvInit == Init => IInv
<1> SUFFICES ASSUME Init PROVE IInv
  OBVIOUS
<1>1. \A w \in Workers : \A n \in Notices : ~Holds(w, n) /\ ~Sending(w, n)
  BY DEF Init, InitCelery, Holds, Sending, Does, Busy
<1>2. ClaimsAreExclusive /\ UndoneAreFaults
  BY <1>1 DEF Init, InitCelery, InitMail, ClaimsAreExclusive, UndoneAreFaults
<1>3. MailsAddUp
  <2>1. \A n \in Notices : InFlight(n) = 0 /\ emails[n] = RecordedOnce(n) /\ undone[n] = 0
    BY <1>1 DEF Init, InitMail, RecordedOnce, InFlight
  <2>2. \A n \in Notices : RecordedOnce(n) \in Nat
    BY DEF RecordedOnce
  <2>3. QED
    BY <2>1, <2>2 DEF MailsAddUp
<1>4. QED
  BY <1>2, <1>3, TypesInit DEF IInv, MailInv

(* Every step keeps the invariant. *)
LEMMA IInvNext == IInv /\ [Next]_vars => IInv'
<1> SUFFICES ASSUME IInv, [Next]_vars PROVE Types' /\ MailInv'
  BY DEF IInv
<1>1. Types /\ MailInv /\ faults \in Nat
  BY CeleryAssumption DEF IInv, Types
<1>2. CASE \/ \E x \in Subs : Activate(x) \/ Cancel(x)
           \/ ExpireSubscriptions
           \/ BeatMail(MissingWelcomes) \/ BeatMail(NotifyExpiring)
           \/ TimePasses /\ UNCHANGED mailVars
           \/ UNCHANGED vars
  <2>1. Types' /\ UNCHANGED <<job, claim, emails, undone, faults>>
    BY <1>1, <1>2, QuietTypes
  <2>2. MailInv'
    BY <1>1, <2>1 DEF MailInv, ClaimsAreExclusive, MailsAddUp, UndoneAreFaults, Holds, Does, Busy,
       RecordedOnce, InFlight, Sending
  <2>3. QED
    BY <2>1, <2>2
<1>3. ASSUME NEW w \in Workers, NEW message \in MailMessages, TakeMail(w, message)
      PROVE  Types' /\ MailInv'
  <2>1. PICK k : Empty(k) /\ Gives(w, k)
    BY <1>1, <1>3, TakeStep
  <2>2. ~Does(w, {"sent"}) /\ queue' \subseteq queue /\ UNCHANGED <<mailVars, now, faults>>
    BY <1>1, <1>3, TakeStep DEF Does
  <2>3. MailInv'
    BY <1>1, <2>1, <2>2, EmptyKeeps
  <2>4. Types'
    BY <1>1, <2>1, <2>2, JobTypes DEF Types, Empty
  <2>5. QED
    BY <2>3, <2>4
<1>4. ASSUME NEW w \in Workers, ClaimNotice(w)
      PROVE  Types' /\ MailInv'
  <2>1. Busy(w) /\ job[w].phase = "next" /\ UNCHANGED <<queue, now, faults, mailVars>>
    BY <1>1, <1>4, ClaimStep
  <2>2. ASSUME NEW k, Empty(k), Gives(w, k)
        PROVE  Types' /\ MailInv'
    <3>1. MailInv'
      BY <1>1, <2>1, <2>2, EmptyKeeps DEF Does
    <3>2. Types'
      BY <1>1, <2>1, <2>2, JobTypes DEF Types, Empty
    <3>3. QED
      BY <3>1, <3>2
  <2>3. ASSUME NEW k \in MailJob, Gives(w, k), k.phase = "claimed", k.current \in Subs,
               claim[Notice(k)] = "none", \A v \in Workers : ~Holds(v, Notice(k))
        PROVE  Types' /\ MailInv'
    <3>1. MailInv'
      BY <1>1, <2>1, <2>3, ClaimKeeps
    <3>2. Types'
      BY <1>1, <2>1, <2>3, JobTypes DEF Types
    <3>3. QED
      BY <3>1, <3>2
  <2>4. QED
    BY <1>1, <1>4, <2>2, <2>3, ClaimStep
<1>5. ASSUME NEW w \in Workers, SendMail(w) \/ CommitNotice(w) \/ AbortMail(w)
      PROVE  Types' /\ MailInv'
  BY <1>1, <1>5, SendKeeps, CommitKeeps, AbortKeeps
<1>6. QED
  BY <1>2, <1>3, <1>4, <1>5 DEF Next, ContinueMail

(* The invariant holds in every reachable state. *)
THEOREM InductiveInvariant == Spec => []IInv
  BY IInvInit, IInvNext, PTL DEF Spec

-----------------------------------------------------------------------------
(* No notice goes out twice, and it is recorded exactly if it went out,     *)
(* whatever is delivered again, retried or raced by the safety net, but for *)
(* transactions that failed after their mail had gone.                     *)
THEOREM MailsAreAccounted == Spec => []EveryMailIsAccounted
<1>1. IInv => EveryMailIsAccounted
  <2> SUFFICES ASSUME IInv, NEW n \in Notices
               PROVE  LET sending == {w \in Workers : Holds(w, n) /\ Does(w, {"sent"})}
                          recorded == IF claim[n] = "sent" THEN 1 ELSE 0
                      IN  /\ emails[n] = recorded + Cardinality(sending) + undone[n]
                          /\ recorded + Cardinality(sending) <= 1
    BY DEF EveryMailIsAccounted
  <2> DEFINE sending == {w \in Workers : Holds(w, n) /\ Does(w, {"sent"})}
             recorded == IF claim[n] = "sent" THEN 1 ELSE 0
  <2>1. ClaimsAreExclusive /\ MailsAddUp
    BY DEF IInv, MailInv
  <2>2. recorded = RecordedOnce(n) /\ recorded \in {0, 1}
    BY DEF RecordedOnce
  <2>3. CASE sending = {}
    <3>1. InFlight(n) = 0 /\ Cardinality(sending) = 0
      BY <2>3, FS_EmptySet DEF InFlight, Sending
    <3> HIDE DEF sending, recorded
    <3>2. QED
      BY <2>1, <2>2, <3>1 DEF MailsAddUp, sending, recorded
  <2>4. ASSUME NEW w \in sending
        PROVE  /\ emails[n] = recorded + Cardinality(sending) + undone[n]
               /\ recorded + Cardinality(sending) <= 1
    <3>1. sending = {w} /\ claim[n] = "none" /\ InFlight(n) = 1
      BY <2>1 DEF ClaimsAreExclusive, InFlight, Sending
    <3>2. Cardinality(sending) = 1 /\ recorded = 0
      BY <3>1, FS_Singleton
    <3> HIDE DEF sending, recorded
    <3>3. emails[n] = RecordedOnce(n) + InFlight(n) + undone[n]
      BY <2>1 DEF MailsAddUp
    <3>4. RecordedOnce(n) = 0
      BY <2>2, <3>2
    <3>5. QED
      BY <3>1, <3>2, <3>3, <3>4
  <2> HIDE DEF sending, recorded
  <2>5. QED
    BY <2>3, <2>4 DEF sending, recorded
<1>2. QED
  BY <1>1, InductiveInvariant, PTL

(* The types; no more mails are undone than there were failures, so no      *)
(* notice goes out more often than that and once more.                     *)
THEOREM TypeCorrect == Spec => []TypeOK
<1>1. IInv => TypeOK
  <2> SUFFICES ASSUME IInv PROVE TypeOK
    OBVIOUS
  <2>1. \A n \in Notices :
          /\ emails[n] = RecordedOnce(n) + InFlight(n) + undone[n] /\ undone[n] <= faults
          /\ undone[n] \in Nat
    BY DEF IInv, MailInv, MailsAddUp, UndoneAreFaults, Types
  <2>2. \A n \in Notices : RecordedOnce(n) + InFlight(n) \in {0, 1}
    BY DEF IInv, MailInv, ClaimsAreExclusive, RecordedOnce, InFlight, Sending
  <2>3. \A n \in Notices : RecordedOnce(n) \in Nat /\ InFlight(n) \in Nat
    BY DEF RecordedOnce, InFlight
  <2>4. faults \in Nat /\ faults <= MaxFaults /\ MaxFaults \in Nat
    BY CeleryAssumption DEF IInv, Types
  <2>5. \A n \in Notices : emails[n] \in 0 .. 1 + MaxFaults /\ undone[n] \in 0 .. MaxFaults
    BY <2>1, <2>2, <2>3, <2>4
  <2>6. QED
    BY <2>5 DEF IInv, Types, TypeOK
<1>2. QED
  BY <1>1, InductiveInvariant, PTL
=============================================================================
