----------------------------- MODULE RequestsProofs -----------------------------
(***************************************************************************)
(* Proofs about the parts that share no state with others: the access to   *)
(* what is premium, the exchange rates, the reports, the page of movements *)
(* and the commands of maintenance, for any values of their constants.     *)
(***************************************************************************)
EXTENDS Reports, PremiumAccess, ExchangeRates, MovementsPage, Maintenance, SumsOverSets

-----------------------------------------------------------------------------
(* Access: what a request knows of the plan of its user.                   *)

AskedRequest ==
  [user : Payers, had : Nat, phase : {"missed", "answered", "found", "decided"}, until : Nat,
   access : {"unknown", "premium", "free", "unavailable"}]

AccessTypes ==
  /\ instant \in Nat
  /\ paid \in [Payers -> SUBSET [start : Nat, end : Nat]]
  /\ cache \in [Payers -> [until : Nat, expires : Nat] \cup {NoEntry}]
  /\ asking \in [Requests -> AskedRequest \cup {NoRequest}]

(* An end that is not over is that of a paid period. *)
KnownEnd(u, until) == until <= instant \/ \E p \in paid[u] : until = p.end

(* At most one period of a user is not over, and none is ahead. *)
PeriodsApart ==
  \A u \in Payers :
    /\ \A p \in paid[u] : p.start <= instant
    /\ \A p, q \in Current(u) : p = q

(* What a request knows is true: the end it has been told is that of a     *)
(* paid period, and of the one its user had when it arrived, if it lasts.  *)
KnowsTruth(r) ==
  /\ KnownEnd(r.user, r.had)
  /\ r.phase \in {"answered", "found"} =>
       KnownEnd(r.user, r.until) /\ (instant < r.had => r.until = r.had)

AccessInv ==
  /\ PeriodsApart
  /\ \A u \in Payers : cache[u] # NoEntry => KnownEnd(u, cache[u].until)
  /\ \A s \in Requests : asking[s] # NoRequest => KnowsTruth(asking[s])

(* The entitlement is the end of the period that is not over. *)
LEMMA EntitlementFacts ==
  ASSUME AccessTypes, PeriodsApart, NEW u \in Payers
  PROVE  /\ Entitlement(u) \in Nat /\ KnownEnd(u, Entitlement(u))
         /\ \A until \in Nat : KnownEnd(u, until) /\ instant < until => until = Entitlement(u)
<1>1. Current(u) \subseteq paid[u] /\ paid[u] \subseteq [start : Nat, end : Nat] /\ instant \in Nat
  BY DEF Current, AccessTypes
<1>2. CASE Current(u) = {}
  BY <1>1, <1>2 DEF Entitlement, KnownEnd, Current
<1>3. CASE Current(u) # {}
  <2>1. PICK p \in Current(u) : Entitlement(u) = p.end
    BY <1>3 DEF Entitlement
  <2>2. p \in paid[u] /\ p.end \in Nat
    BY <1>1, <2>1
  <2>3. ASSUME NEW until \in Nat, KnownEnd(u, until), instant < until
        PROVE  until = p.end
    <3>1. PICK q \in paid[u] : until = q.end
      BY <1>1, <2>3 DEF KnownEnd
    <3>2. q \in Current(u)
      BY <2>3, <3>1 DEF Current
    <3>3. QED
      BY <2>1, <3>1, <3>2 DEF PeriodsApart
  <2>4. QED
    BY <2>1, <2>2, <2>3 DEF KnownEnd
<1>4. QED
  BY <1>2, <1>3

(* The request s is given what it goes on with, or nothing. *)
Asking(s, k) == asking' = [asking EXCEPT ![s] = k]

(* The other requests stay. *)
LEMMA AskingRequest ==
  ASSUME AccessTypes, NEW s \in Requests, NEW k, Asking(s, k)
  PROVE  asking'[s] = k /\ \A o \in Requests \ {s} : asking'[o] = asking[o]
  BY DEF AccessTypes, Asking

(* What a request may go on with: nothing, or what it knows is true. *)
MayAsk(k) == k \in AskedRequest \cup {NoRequest} /\ (k # NoRequest => KnowsTruth(k))

(* A step of a request, which leaves the clock and the payments. *)
LEMMA AskingKeeps ==
  ASSUME AccessTypes, AccessInv, NEW s \in Requests, NEW k, Asking(s, k), MayAsk(k),
         UNCHANGED paidVars, cache' \in [Payers -> [until : Nat, expires : Nat] \cup {NoEntry}],
         \A u \in Payers : cache'[u] # NoEntry => KnownEnd(u, cache'[u].until)
  PROVE  AccessTypes' /\ AccessInv'
<1>1. asking'[s] = k /\ \A o \in Requests \ {s} : asking'[o] = asking[o]
  BY AskingRequest
<1>2. AccessTypes'
  BY DEF AccessTypes, Asking, MayAsk, paidVars
<1>3. /\ \A u, until : KnownEnd(u, until)' <=> KnownEnd(u, until)
      /\ PeriodsApart' <=> PeriodsApart
  BY DEF KnownEnd, PeriodsApart, Current, paidVars
<1>4. \A o \in Requests : asking'[o] # NoRequest => KnowsTruth(asking'[o])
  BY <1>1 DEF AccessInv, MayAsk
<1>5. \A r : KnowsTruth(r) => KnowsTruth(r)'
  BY DEF KnowsTruth, KnownEnd, paidVars
<1>6. AccessInv'
  BY <1>3, <1>4, <1>5 DEF AccessInv
<1>7. QED
  BY <1>2, <1>6

(* What a request asks, is told, remembers and decides. *)
LEMMA AskingSteps ==
  ASSUME AccessTypes, AccessInv, NEW s \in Requests,
         \/ \E u \in Payers : Arrive(s, u)
         \/ Consult(s) \/ WriteCache(s) \/ Decide(s) \/ Respond(s)
  PROVE  AccessTypes' /\ AccessInv'
<1> DEFINE r == asking[s]
           Cached == /\ cache' \in [Payers -> [until : Nat, expires : Nat] \cup {NoEntry}]
                     /\ \A u \in Payers : cache'[u] # NoEntry => KnownEnd(u, cache'[u].until)
<1>1. instant \in Nat /\ CacheSeconds \in Nat /\ PeriodsApart
  BY AccessAssumption DEF AccessTypes, AccessInv
<1>2. UNCHANGED cache => Cached
  BY DEF AccessTypes, AccessInv
<1>3. r # NoRequest => r \in AskedRequest /\ r.user \in Payers /\ KnowsTruth(r)
  BY DEF AccessTypes, AccessInv, AskedRequest
<1>4. ASSUME NEW u \in Payers, Arrive(s, u) PROVE AccessTypes' /\ AccessInv'
  <2>1. UNCHANGED paidVars /\ Cached
    BY <1>2, <1>4 DEF Arrive
  <2>2. ASSUME NEW phase \in {"found", "missed"}, NEW until \in Nat,
               phase = "found" => KnownEnd(u, until) /\ instant < until,
               asking' = [asking EXCEPT ![s] = Request(u, phase, until)]
        PROVE  AccessTypes' /\ AccessInv'
    <3>1. /\ Entitlement(u) \in Nat /\ KnownEnd(u, Entitlement(u))
          /\ phase = "found" => until = Entitlement(u)
      BY <1>1, <2>2, EntitlementFacts
    <3>2. MayAsk(Request(u, phase, until))
      BY <2>2, <3>1 DEF MayAsk, Request, AskedRequest, KnowsTruth
    <3>3. QED
      BY <2>1, <2>2, <3>2, AskingKeeps DEF Asking
  <2>3. CASE /\ cache[u] # NoEntry /\ IsPremium(cache[u].until)
             /\ asking' = [asking EXCEPT ![s] = Request(u, "found", cache[u].until)]
    <3>1. cache[u].until \in Nat /\ KnownEnd(u, cache[u].until) /\ instant < cache[u].until
      BY <2>3 DEF AccessTypes, AccessInv, IsPremium
    <3>2. QED
      BY <2>2, <2>3, <3>1
  <2>4. CASE asking' = [asking EXCEPT ![s] = Request(u, "missed", 0)]
    BY <2>2, <2>4
  <2>5. QED
    BY <1>4, <2>3, <2>4 DEF Arrive
<1>5. CASE Consult(s)
  <2>1. r # NoRequest /\ UNCHANGED paidVars /\ Cached
    BY <1>2, <1>5 DEF Consult
  <2>2. CASE asking' = [asking EXCEPT ![s].phase = "answered", ![s].until = Entitlement(asking[s].user)]
    <3> DEFINE k == [r EXCEPT !.phase = "answered", !.until = Entitlement(r.user)]
    <3>1. /\ Entitlement(r.user) \in Nat /\ KnownEnd(r.user, Entitlement(r.user))
          /\ instant < r.had => Entitlement(r.user) = r.had
      BY <1>1, <1>3, <2>1, EntitlementFacts DEF KnowsTruth, AskedRequest
    <3>2. /\ k \in AskedRequest /\ k.user = r.user /\ k.had = r.had /\ k.until = Entitlement(r.user)
      BY <1>3, <2>1, <3>1 DEF AskedRequest
    <3> HIDE DEF k
    <3>3. MayAsk(k)
      BY <1>3, <2>1, <3>1, <3>2 DEF MayAsk, KnowsTruth
    <3>4. Asking(s, k)
      BY <2>2 DEF Asking, k
    <3>5. QED
      BY <2>1, <3>3, <3>4, AskingKeeps
  <2>3. CASE asking' = [asking EXCEPT ![s].phase = "decided", ![s].access = "unavailable"]
    <3> DEFINE k == [r EXCEPT !.phase = "decided", !.access = "unavailable"]
    <3>1. MayAsk(k)
      BY <1>3, <2>1 DEF MayAsk, AskedRequest, KnowsTruth
    <3>2. Asking(s, k)
      BY <2>3 DEF Asking
    <3>3. QED
      BY <2>1, <3>1, <3>2, AskingKeeps
  <2>4. QED
    BY <1>5, <2>2, <2>3 DEF Consult
<1>6. CASE WriteCache(s)
  <2>1. /\ r # NoRequest /\ r.phase = "answered" /\ UNCHANGED paidVars
        /\ asking' = [asking EXCEPT ![s].phase = "found"]
    BY <1>6 DEF WriteCache
  <2>2. r.until \in Nat /\ r.user \in Payers /\ KnownEnd(r.user, r.until)
    BY <1>3, <2>1 DEF AskedRequest, KnowsTruth
  <2>3. MayAsk([r EXCEPT !.phase = "found"])
    BY <1>3, <2>1 DEF MayAsk, AskedRequest, KnowsTruth
  <2>4. Cached
    <3>1. CASE UNCHANGED cache
      BY <1>2, <3>1
    <3>2. CASE cache' = [cache EXCEPT ![r.user] =
                 [until |-> r.until, expires |-> LesserOf(instant + CacheSeconds, r.until)]]
      <4>1. LesserOf(instant + CacheSeconds, r.until) \in Nat
        BY <1>1, <2>2 DEF LesserOf
      <4>2. QED
        BY <2>2, <3>2, <4>1 DEF AccessTypes, AccessInv
    <3>3. QED
      BY <1>6, <3>1, <3>2 DEF WriteCache
  <2>5. Asking(s, [r EXCEPT !.phase = "found"])
    BY <2>1 DEF Asking
  <2>6. QED
    BY <2>1, <2>3, <2>4, <2>5, AskingKeeps
<1>7. CASE Decide(s)
  <2>1. r # NoRequest /\ UNCHANGED paidVars /\ Cached
    BY <1>2, <1>7 DEF Decide
  <2> DEFINE k == [r EXCEPT !.phase = "decided", !.access = IF IsPremium(r.until) THEN "premium" ELSE "free"]
  <2>2. MayAsk(k)
    BY <1>3, <2>1 DEF MayAsk, AskedRequest, KnowsTruth
  <2>3. Asking(s, k)
    BY <1>7 DEF Decide, Asking
  <2>4. QED
    BY <2>1, <2>2, <2>3, AskingKeeps
<1>8. CASE Respond(s)
  <2>1. UNCHANGED paidVars /\ Cached /\ Asking(s, NoRequest)
    BY <1>2, <1>8 DEF Respond, Asking
  <2>2. MayAsk(NoRequest)
    BY DEF MayAsk
  <2>3. QED
    BY <2>1, <2>2, AskingKeeps
<1>9. QED
  BY <1>4, <1>5, <1>6, <1>7, <1>8

(* A payment and the clock make no end unknown and no period current but   *)
(* the one that is paid.                                                   *)
LEMMA PaidSteps ==
  ASSUME AccessTypes, AccessInv, NextPaid, UNCHANGED <<cache, asking>>
  PROVE  AccessTypes' /\ AccessInv'
<1>1. /\ instant \in Nat /\ PaidFor \in Nat \ {0}
      /\ \A u \in Payers : paid[u] \subseteq [start : Nat, end : Nat]
  BY PaidAssumption DEF AccessTypes
<1>2. CASE InstantPasses
  <2>1. instant' = instant + 1 /\ UNCHANGED paid
    BY <1>2 DEF InstantPasses
  <2>2. AccessTypes'
    BY <2>1 DEF AccessTypes
  <2>3. PeriodsApart'
    <3>1. \A u \in Payers : Current(u)' \subseteq Current(u)
      BY <1>1, <2>1 DEF Current
    <3>2. \A u \in Payers : \A p \in paid'[u] : p.start <= instant'
      <4>1. \A u \in Payers : \A p \in paid[u] : p.start \in Nat /\ p.start <= instant
        BY <1>1 DEF AccessInv, PeriodsApart
      <4>2. QED
        BY <1>1, <2>1, <4>1
    <3>3. QED
      BY <3>1, <3>2 DEF AccessInv, PeriodsApart
  <2>4. \A u \in Payers, until \in Nat : KnownEnd(u, until) => KnownEnd(u, until)'
    BY <1>1, <2>1 DEF KnownEnd
  <2>5. \A until \in Nat : instant' < until => instant < until
    BY <1>1, <2>1
  <2>6. QED
    BY <2>2, <2>3, <2>4, <2>5 DEF AccessTypes, AccessInv, KnowsTruth, AskedRequest
<1>3. ASSUME NEW v \in Payers, Pay(v) PROVE AccessTypes' /\ AccessInv'
  <2>1. PICK start \in 0 .. instant :
          /\ \A p \in paid[v] : p.end <= start
          /\ paid' = [paid EXCEPT ![v] = @ \cup {[start |-> start, end |-> start + PaidFor]}]
          /\ instant' = instant
    BY <1>3 DEF Pay
  <2> DEFINE p == [start |-> start, end |-> start + PaidFor]
  <2>2. p \in [start : Nat, end : Nat] /\ p.start <= instant
    BY <1>1
  <2> HIDE DEF p
  <2>3. \A u \in Payers : paid'[u] = IF u = v THEN paid[u] \cup {p} ELSE paid[u]
    BY <2>1 DEF AccessTypes, p
  <2>4. AccessTypes'
    BY <1>1, <2>1, <2>2 DEF AccessTypes, p
  <2>5. PeriodsApart'
    <3>1. \A q \in paid[v] : ~(instant < q.end)
      BY <1>1, <2>1
    <3>2. ASSUME NEW u \in Payers, NEW q \in Current(u)'
          PROVE  IF u = v THEN q = p ELSE q \in Current(u)
      <4>1. q \in paid'[u] /\ instant < q.end
        BY <2>1, <3>2 DEF Current
      <4>2. QED
        BY <2>3, <3>1, <4>1 DEF Current
    <3>3. \A u \in Payers : \A q \in paid'[u] : q.start <= instant'
      BY <2>1, <2>2, <2>3 DEF AccessInv, PeriodsApart
    <3>4. QED
      BY <3>2, <3>3 DEF AccessInv, PeriodsApart
  <2>6. \A u \in Payers, until \in Nat : KnownEnd(u, until) => KnownEnd(u, until)'
    BY <2>1, <2>3 DEF KnownEnd
  <2>7. QED
    BY <2>1, <2>4, <2>5, <2>6 DEF AccessTypes, AccessInv, KnowsTruth, AskedRequest
<1>4. QED
  BY <1>2, <1>3 DEF NextPaid

(* Every step keeps what is known of the plan. *)
LEMMA AccessNext == AccessTypes /\ AccessInv /\ [NextAccess]_accessVars => AccessTypes' /\ AccessInv'
<1> SUFFICES ASSUME AccessTypes, AccessInv, [NextAccess]_accessVars PROVE AccessTypes' /\ AccessInv'
  OBVIOUS
<1>1. CASE UNCHANGED accessVars
  BY <1>1 DEF accessVars, paidVars, AccessTypes, AccessInv, PeriodsApart, Current, KnowsTruth, KnownEnd
<1>2. QED
  BY <1>1, AskingSteps, PaidSteps DEF NextAccess

(* INV-06: a payment opens what is premium and nothing else does, through a *)
(* cache that outlives the question and requests that outlive the answer.  *)
THEOREM AccessIsPaidFor == SpecAccess => AccessFollowsPayment
<1> DEFINE Known == AccessTypes /\ AccessInv
           Follows ==
             \A s \in Requests :
               LET r == asking'[s] IN
               (r # NoRequest /\ asking[s] # r /\ r.phase = "decided") =>
                 \A route \in Routes \ [kind : {"report"}, month : {"recent"}] :
                   /\ Outcome(route, r.access) = "full" =>
                        \E p \in paid[r.user] : p.start <= instant /\ instant < p.end
                   /\ instant < r.had => Outcome(route, r.access) # "403"
<1>1. InitAccess => Known
  BY DEF InitAccess, InitPaid, AccessTypes, AccessInv, PeriodsApart, Current
<1>2. Known /\ [NextAccess]_accessVars => Follows
  <2> SUFFICES ASSUME AccessTypes, AccessInv, [NextAccess]_accessVars, NEW s \in Requests,
                      asking'[s] # NoRequest, asking[s] # asking'[s], asking'[s].phase = "decided",
                      NEW route \in Routes \ [kind : {"report"}, month : {"recent"}]
               PROVE  LET r == asking'[s] IN
                      /\ Outcome(route, r.access) = "full" =>
                           \E p \in paid[r.user] : p.start <= instant /\ instant < p.end
                      /\ instant < r.had => Outcome(route, r.access) # "403"
    OBVIOUS
  <2>1. Consult(s) \/ Decide(s)
    <3>1. PICK o \in Requests :
            (\E u \in Payers : Arrive(o, u)) \/ Consult(o) \/ WriteCache(o) \/ Decide(o) \/ Respond(o)
      BY DEF NextAccess, accessVars
    <3>2. PICK k : Asking(o, k)
      BY <3>1 DEF Arrive, Consult, WriteCache, Decide, Respond, Asking
    <3>3. o = s
      BY <3>2, AskingRequest
    <3>4. \A u \in Payers : ~Arrive(s, u)
      BY AskingRequest DEF Arrive, Request, Asking
    <3>5. ~WriteCache(s)
      <4>1. SUFFICES ASSUME WriteCache(s) PROVE FALSE
        OBVIOUS
      <4>2. asking'[s].phase = "found"
        BY <4>1 DEF WriteCache, AccessTypes, AskedRequest
      <4>3. QED
        BY <4>2
    <3>6. ~Respond(s)
      BY AskingRequest DEF Respond, Asking
    <3>7. QED
      BY <3>1, <3>3, <3>4, <3>5, <3>6
  <2>2. CASE Consult(s)
    <3>1. asking'[s].access = "unavailable"
      BY <2>2 DEF Consult, AccessTypes, AskedRequest
    <3>2. QED
      BY <3>1 DEF Outcome, WholeRoute, PartialRoute, PeriodRoute, Denial, Routes
  <2>3. CASE Decide(s)
    <3>1. /\ asking[s] # NoRequest /\ asking[s].phase = "found" /\ asking[s] \in AskedRequest
          /\ KnowsTruth(asking[s])
          /\ asking'[s].had = asking[s].had /\ asking'[s].user = asking[s].user
          /\ asking'[s].access = IF IsPremium(asking[s].until) THEN "premium" ELSE "free"
      BY <2>3 DEF Decide, AccessTypes, AccessInv, AskedRequest
    <3>2. /\ asking[s].user \in Payers /\ asking[s].until \in Nat /\ instant \in Nat
          /\ KnownEnd(asking[s].user, asking[s].until)
          /\ instant < asking[s].had => asking[s].until = asking[s].had
      BY <3>1 DEF AccessTypes, AskedRequest, KnowsTruth
    <3>3. CASE IsPremium(asking[s].until)
      <4>1. \E p \in paid[asking[s].user] : p.start <= instant /\ instant < p.end
        BY <3>2, <3>3 DEF IsPremium, KnownEnd, AccessInv, PeriodsApart
      <4>2. QED
        BY <3>1, <3>3, <4>1 DEF Outcome, WholeRoute, PartialRoute, PeriodRoute
    <3>4. CASE ~IsPremium(asking[s].until)
      <4>1. ~(instant < asking[s].had)
        BY <3>2, <3>4 DEF IsPremium
      <4>2. Outcome(route, "free") # "full"
        BY DEF Outcome, WholeRoute, PartialRoute, PeriodRoute, Denial, Routes
      <4>3. QED
        BY <3>1, <3>4, <4>1, <4>2
    <3>5. QED
      BY <3>3, <3>4
  <2>4. QED
    BY <2>1, <2>2, <2>3
<1>3. QED
  BY <1>1, <1>2, AccessNext, PTL DEF SpecAccess, AccessFollowsPayment

-----------------------------------------------------------------------------
(* Exchange rates: what a day's key, the last rate and an answer can be.    *)

RateAsk ==
  [phase : {"calling", "storing", "degrading", "answered"}, today : 0 .. LastDay,
   source : {"none", "live", "cached", "fallback"}, fetched : Nat \cup {NoRate},
   apiDown : BOOLEAN]

RatesTypes ==
  /\ day \in 0 .. LastDay
  /\ dayRate \in [0 .. LastDay -> Nat \cup {NoRate}]
  /\ lastRate \in Nat \cup {NoRate}
  /\ asks \in [Askers -> RateAsk \cup {Unasked}]

(* Only a failing call leads to a rate that may not be of today ... *)
AnswerIsTrue(r) ==
  /\ r.today <= day
  /\ r.phase \in {"calling", "storing"} => ~r.apiDown
  /\ r.phase = "degrading" => r.apiDown
  /\ r.phase = "answered" =>
       /\ ~r.apiDown => r.source \in {"live", "cached"} /\ r.fetched = r.today
       /\ r.source = "fallback" => r.apiDown
       /\ r.source = "cached" => r.fetched \in Nat /\ r.fetched <= day

(* ... because the key of a day only ever has the rate of that day. *)
RatesInv ==
  /\ \A d \in 0 .. LastDay : dayRate[d] # NoRate => dayRate[d] = d
  /\ lastRate # NoRate => lastRate <= day
  /\ \A s \in Askers : asks[s] # Unasked => AnswerIsTrue(asks[s])

Allowed(k) == k \in RateAsk \cup {Unasked} /\ (k # Unasked => AnswerIsTrue(k))

AnswersTo(k, r, source, f) ==
  /\ k = Answered(r, source, f) /\ k.phase = "answered" /\ k.today = r.today
  /\ k.apiDown = r.apiDown /\ k.source = source /\ k.fetched = f

(* An answer of a request is one of its record, with its day and its call. *)
LEMMA AnsweredRate ==
  ASSUME NEW r \in RateAsk, NEW source \in {"live", "cached", "fallback"}, NEW f \in Nat \cup {NoRate}
  PROVE  \E k \in RateAsk : AnswersTo(k, r, source, f)
<1> DEFINE k == Answered(r, source, f)
<1>1. /\ k \in RateAsk /\ k.phase = "answered" /\ k.today = r.today
      /\ k.apiDown = r.apiDown /\ k.source = source /\ k.fetched = f
  BY DEF Answered, RateAsk
<1> HIDE DEF k
<1>2. QED
  BY <1>1 DEF k, AnswersTo

(* A step of a request, which may write the key of its day and the last rate. *)
LEMMA RateStepKeeps ==
  ASSUME RatesTypes, RatesInv, NEW s \in Askers, NEW k, asks' = [asks EXCEPT ![s] = k], Allowed(k),
         day' = day,
         \/ UNCHANGED <<dayRate, lastRate>>
         \/ \E d \in 0 .. day : dayRate' = [dayRate EXCEPT ![d] = d] /\ lastRate' = d
  PROVE  RatesTypes' /\ RatesInv'
<1>1. LastDay \in Nat /\ day \in Nat /\ day <= LastDay
  BY RatesAssumption DEF RatesTypes
<1>2. asks'[s] = k /\ \A o \in Askers \ {s} : asks'[o] = asks[o]
  BY DEF RatesTypes
<1>3. asks' \in [Askers -> RateAsk \cup {Unasked}]
  BY DEF RatesTypes, Allowed
<1>4. \A r : AnswerIsTrue(r)' <=> AnswerIsTrue(r)
  BY DEF AnswerIsTrue
<1>5. \A o \in Askers : (asks[o] # Unasked => AnswerIsTrue(asks[o]))'
  BY <1>2, <1>4 DEF RatesInv, Allowed, AnswerIsTrue
<1>6. CASE UNCHANGED <<dayRate, lastRate>>
  BY <1>3, <1>5, <1>6 DEF RatesTypes, RatesInv
<1>7. ASSUME NEW d \in 0 .. day, dayRate' = [dayRate EXCEPT ![d] = d], lastRate' = d
      PROVE  RatesTypes' /\ RatesInv'
  <2>1. d \in 0 .. LastDay /\ d \in Nat /\ d <= day
    BY <1>1
  <2>2. /\ dayRate' \in [0 .. LastDay -> Nat \cup {NoRate}]
        /\ \A c \in 0 .. LastDay : dayRate'[c] # NoRate => dayRate'[c] = c
    BY <1>7, <2>1 DEF RatesTypes, RatesInv
  <2>3. QED
    BY <1>3, <1>5, <1>7, <2>1, <2>2 DEF RatesTypes, RatesInv
<1>8. QED
  BY <1>6, <1>7

(* Every step keeps the keys and the answers true. *)
LEMMA RatesNext == RatesTypes /\ RatesInv /\ [NextRates]_rateVars => RatesTypes' /\ RatesInv'
<1> SUFFICES ASSUME RatesTypes, RatesInv, [NextRates]_rateVars PROVE RatesTypes' /\ RatesInv'
  OBVIOUS
<1>1. LastDay \in Nat /\ day \in Nat /\ day <= LastDay
  BY RatesAssumption DEF RatesTypes
<1>2. \A s \in Askers : asks[s] # Unasked => asks[s] \in RateAsk /\ AnswerIsTrue(asks[s])
  BY DEF RatesTypes, RatesInv
<1>3. ASSUME NEW s \in Askers, AskRate(s) PROVE RatesTypes' /\ RatesInv'
  <2> DEFINE r == [phase |-> "calling", today |-> day, source |-> "none", fetched |-> NoRate,
                   apiDown |-> FALSE]
  <2>1. r \in RateAsk /\ r.today = day /\ ~r.apiDown /\ Allowed(r)
    BY <1>1 DEF RateAsk, Allowed, AnswerIsTrue
  <2>2. UNCHANGED <<day, dayRate, lastRate>>
    BY <1>3 DEF AskRate
  <2>3. CASE dayRate[day] # NoRate /\ asks' = [asks EXCEPT ![s] = Answered(r, "cached", dayRate[day])]
    <3>1. dayRate[day] = day /\ dayRate[day] \in Nat
      BY <1>1, <2>3 DEF RatesTypes, RatesInv
    <3> HIDE DEF r
    <3> PICK k \in RateAsk : AnswersTo(k, r, "cached", dayRate[day])
      BY <2>1, <3>1, AnsweredRate
    <3>2. Allowed(k)
      BY <1>1, <2>1, <3>1 DEF Allowed, AnswerIsTrue, AnswersTo
    <3>3. QED
      BY <2>2, <2>3, <3>2, RateStepKeeps DEF AnswersTo
  <2>4. CASE asks' = [asks EXCEPT ![s] = r]
    BY <2>1, <2>2, <2>4, RateStepKeeps
  <2>5. QED
    BY <1>3, <2>3, <2>4 DEF AskRate
<1>4. ASSUME NEW s \in Askers, CallApi(s) PROVE RatesTypes' /\ RatesInv'
  <2> PICK r \in RateAsk : r = asks[s]
    BY <1>2, <1>4 DEF CallApi, IsAt
  <2> DEFINE stored == [r EXCEPT !.phase = "storing"]
             degraded == [r EXCEPT !.phase = "degrading", !.apiDown = TRUE]
  <2>1. AnswerIsTrue(r) /\ r.phase = "calling" /\ UNCHANGED <<day, dayRate, lastRate>>
    BY <1>2, <1>4 DEF CallApi, IsAt
  <2>2. Allowed(stored)
    BY <2>1 DEF Allowed, RateAsk, AnswerIsTrue
  <2>3. Allowed(degraded)
    BY <2>1 DEF Allowed, RateAsk, AnswerIsTrue
  <2>4. \/ asks' = [asks EXCEPT ![s] = stored]
        \/ asks' = [asks EXCEPT ![s] = degraded]
    BY <1>4 DEF CallApi
  <2> HIDE DEF stored, degraded
  <2>5. QED
    BY <2>1, <2>2, <2>3, <2>4, RateStepKeeps
<1>5. ASSUME NEW s \in Askers, StoreRate(s) PROVE RatesTypes' /\ RatesInv'
  <2> PICK r \in RateAsk : r = asks[s]
    BY <1>2, <1>5 DEF StoreRate, IsAt
  <2>1. /\ AnswerIsTrue(r) /\ r.phase = "storing" /\ day' = day /\ r.today \in Nat
        /\ asks' = [asks EXCEPT ![s] = Answered(r, "live", r.today)]
        /\ \/ dayRate' = [dayRate EXCEPT ![r.today] = r.today] /\ lastRate' = r.today
           \/ UNCHANGED <<dayRate, lastRate>>
    BY <1>2, <1>5 DEF StoreRate, IsAt, RateAsk
  <2>2. r.today \in 0 .. day /\ ~r.apiDown
    BY <1>1, <2>1 DEF AnswerIsTrue
  <2> PICK k \in RateAsk : AnswersTo(k, r, "live", r.today)
    BY <2>1, AnsweredRate
  <2>3. Allowed(k)
    BY <1>1, <2>1, <2>2 DEF Allowed, AnswerIsTrue, AnswersTo
  <2>4. QED
    BY <2>1, <2>2, <2>3, RateStepKeeps DEF AnswersTo
<1>6. ASSUME NEW s \in Askers, DegradeRate(s) PROVE RatesTypes' /\ RatesInv'
  <2> PICK r \in RateAsk : r = asks[s]
    BY <1>2, <1>6 DEF DegradeRate, IsAt
  <2>1. AnswerIsTrue(r) /\ r.phase = "degrading" /\ r.apiDown /\ UNCHANGED <<day, dayRate, lastRate>>
    BY <1>2, <1>6 DEF DegradeRate, IsAt, AnswerIsTrue
  <2>2. CASE lastRate # NoRate /\ asks' = [asks EXCEPT ![s] = Answered(r, "cached", lastRate)]
    <3>1. lastRate \in Nat /\ lastRate <= day
      BY <2>2 DEF RatesTypes, RatesInv
    <3> PICK k \in RateAsk : AnswersTo(k, r, "cached", lastRate)
      BY <3>1, AnsweredRate
    <3>2. Allowed(k)
      BY <1>1, <2>1, <3>1 DEF Allowed, AnswerIsTrue, AnswersTo
    <3>3. QED
      BY <2>1, <2>2, <3>2, RateStepKeeps DEF AnswersTo
  <2>3. CASE asks' = [asks EXCEPT ![s] = Answered(r, "fallback", NoRate)]
    <3> PICK k \in RateAsk : AnswersTo(k, r, "fallback", NoRate)
      BY AnsweredRate
    <3>1. Allowed(k)
      BY <1>1, <2>1 DEF Allowed, AnswerIsTrue, AnswersTo
    <3>2. QED
      BY <2>1, <2>3, <3>1, RateStepKeeps DEF AnswersTo
  <2>4. QED
    BY <1>6, <2>2, <2>3 DEF DegradeRate
<1>7. ASSUME NEW s \in Askers, RespondRate(s) PROVE RatesTypes' /\ RatesInv'
  BY <1>7, RateStepKeeps DEF RespondRate, Allowed
<1>8. CASE Midnight
  <2>1. day' = day + 1 /\ day < LastDay /\ UNCHANGED <<dayRate, lastRate, asks>>
    BY <1>8 DEF Midnight
  <2>2. \A r \in RateAsk : AnswerIsTrue(r) => AnswerIsTrue(r)'
    <3> TAKE r \in RateAsk
    <3>1. r.today \in Nat /\ (r.fetched \in Nat /\ r.fetched <= day => r.fetched <= day + 1)
      BY <1>1 DEF RateAsk
    <3>2. QED
      BY <1>1, <2>1, <3>1 DEF AnswerIsTrue
  <2>3. RatesTypes'
    BY <1>1, <2>1 DEF RatesTypes
  <2>4. lastRate # NoRate => lastRate <= day + 1
    BY <1>1 DEF RatesTypes, RatesInv
  <2>5. RatesInv'
    BY <1>2, <2>1, <2>2, <2>4 DEF RatesInv
  <2>6. QED
    BY <2>3, <2>5
<1>9. CASE UNCHANGED rateVars
  BY <1>9 DEF rateVars, RatesTypes, RatesInv, AnswerIsTrue
<1>10. QED
  BY <1>3, <1>4, <1>5, <1>6, <1>7, <1>8, <1>9 DEF NextRates

(* ADR-12: an answer only falls as far as the failures it met, across       *)
(* midnight too.                                                           *)
THEOREM RatesFallInOrder == SpecRates => []RatesDegradeInOrder
<1>1. InitRates => RatesTypes /\ RatesInv
  BY RatesAssumption DEF InitRates, RatesTypes, RatesInv
<1>2. RatesTypes /\ RatesInv => RatesDegradeInOrder
  BY DEF RatesInv, AnswerIsTrue, RatesDegradeInOrder, IsAt
<1>3. QED
  BY <1>1, <1>2, RatesNext, PTL DEF SpecRates

-----------------------------------------------------------------------------
(* Reports: who builds which file.                                         *)

ReportsTypes ==
  /\ report \in [ReportIds -> ReportRecord]
  /\ queue \subseteq ReportMessages
  /\ job \in [Workers -> ReportJob \cup {Idle}]
  /\ now \in Nat

(* FOR UPDATE SKIP LOCKED: a report that is being built is PENDING, and one *)
(* task builds it.                                                         *)
ReportsInv ==
  /\ \A w \in Workers : \A r \in ReportIds :
       Runs(w, Generate(r)) => report[r].status = "PENDING"
  /\ \A v, w \in Workers : \A r \in ReportIds :
       Runs(v, Generate(r)) /\ Runs(w, Generate(r)) => v = w

(* The messages of different reports and of the periodic tasks differ. *)
LEMMA MessagesDiffer ==
  /\ \A r, q \in ReportIds : Generate(r) = Generate(q) => r = q
  /\ \A r \in ReportIds : Generate(r) # Requeue /\ Generate(r) # Purge
  /\ Requeue # Purge
  BY DEF Generate, Requeue, Purge

(* A worker takes a task or leaves the one it has: if it is to build a      *)
(* report, nobody else does and the report is PENDING.                     *)
LEMMA ReportJobKeeps ==
  ASSUME ReportsTypes, ReportsInv, NEW w \in Workers, NEW k \in ReportJob \cup {Idle},
         job' = [job EXCEPT ![w] = k],
         \A r \in ReportIds : (k # Idle /\ k.message = Generate(r)) =>
           report'[r].status = "PENDING" /\ \A v \in Workers \ {w} : ~Runs(v, Generate(r)),
         \A r \in ReportIds :
           report'[r].status = report[r].status \/ \A v \in Workers \ {w} : ~Runs(v, Generate(r))
  PROVE  ReportsInv' /\ job' \in [Workers -> ReportJob \cup {Idle}]
<1>1. job'[w] = k /\ \A v \in Workers \ {w} : job'[v] = job[v]
  BY DEF ReportsTypes
<1>2. job' \in [Workers -> ReportJob \cup {Idle}]
  BY DEF ReportsTypes
<1>3. /\ \A r \in ReportIds : Runs(w, Generate(r))' => k # Idle /\ k.message = Generate(r)
      /\ \A v \in Workers \ {w} : \A r \in ReportIds : Runs(v, Generate(r))' <=> Runs(v, Generate(r))
  BY <1>1 DEF Runs, Busy
<1>4. \A v \in Workers : \A r \in ReportIds :
        Runs(v, Generate(r))' => report'[r].status = "PENDING"
  BY <1>3 DEF ReportsInv
<1>5. \A u, v \in Workers : \A r \in ReportIds :
        Runs(u, Generate(r))' /\ Runs(v, Generate(r))' => u = v
  BY <1>3 DEF ReportsInv
<1>6. QED
  BY <1>2, <1>4, <1>5 DEF ReportsInv

(* What a step does to one report: nothing, a step towards its end, or its  *)
(* deletion once its retention is over.                                    *)
ReportMoves(r) ==
  \/ report'[r] = report[r]
  \/ report[r].status \in {"none", "PENDING"} /\ report'[r].status \in {"PENDING", "READY", "FAILED"}
  \/ report'[r].status = "purged" /\ report[r].created + Retention < now

(* Every step keeps a report to one task, and moves it forward. *)
LEMMA ReportsNext ==
  ReportsTypes /\ ReportsInv /\ [NextReports]_reportVars =>
    ReportsTypes' /\ ReportsInv' /\ \A r \in ReportIds : ReportMoves(r)
<1> SUFFICES ASSUME ReportsTypes, ReportsInv, [NextReports]_reportVars
             PROVE  ReportsTypes' /\ ReportsInv' /\ \A r \in ReportIds : ReportMoves(r)
  OBVIOUS
<1>1. UNCHANGED report => \A r \in ReportIds : ReportMoves(r)
  BY DEF ReportMoves
<1>2. ASSUME UNCHANGED job,
             \A r \in ReportIds : report[r].status = "PENDING" /\ Locked(r) => report'[r] = report[r]
      PROVE  ReportsInv'
  BY <1>2 DEF ReportsInv, Runs, Busy, Locked
<1>3. ASSUME NEW r \in ReportIds, RequestReport(r)
      PROVE  ReportsTypes' /\ ReportsInv' /\ \A q \in ReportIds : ReportMoves(q)
  <2>1. /\ report[r].status = "none" /\ UNCHANGED <<job, now>>
        /\ report' = [report EXCEPT ![r].status = "PENDING", ![r].created = now]
        /\ queue' \subseteq queue \cup {Generate(r)}
    BY <1>3 DEF RequestReport
  <2> DEFINE k == [report[r] EXCEPT !.status = "PENDING", !.created = now]
  <2>2. k \in ReportRecord /\ k.status = "PENDING"
    BY <2>1 DEF ReportsTypes, ReportRecord
  <2>3. report' = [report EXCEPT ![r] = k]
    BY <2>1 DEF ReportsTypes
  <2> HIDE DEF k
  <2>4. ReportsTypes'
    BY <2>1, <2>2, <2>3 DEF ReportsTypes, ReportMessages
  <2>5. report'[r] = k /\ \A q \in ReportIds \ {r} : report'[q] = report[q]
    BY <2>3 DEF ReportsTypes
  <2>6. ReportsInv'
    BY <1>2, <2>1, <2>5
  <2>7. \A q \in ReportIds : ReportMoves(q)
    BY <2>1, <2>2, <2>5 DEF ReportMoves
  <2>8. QED
    BY <2>4, <2>6, <2>7
<1>4. ASSUME NEW w \in Workers, NEW r \in ReportIds, GenerateReport(w, r)
      PROVE  ReportsTypes' /\ ReportsInv' /\ \A q \in ReportIds : ReportMoves(q)
  <2> DEFINE k == [message |-> Generate(r), ids |-> {r}]
  <2>1. UNCHANGED <<report, now>> /\ queue' \subseteq queue
    BY <1>4 DEF GenerateReport, Receives
  <2>2. k \in ReportJob /\ k.message = Generate(r)
    BY MessagesDiffer DEF ReportJob, ReportMessages
  <2> HIDE DEF k
  <2>3. CASE report[r].status = "PENDING" /\ ~Locked(r) /\ job' = [job EXCEPT ![w] = k]
    <3>1. \A q \in ReportIds : k.message = Generate(q) =>
            report'[q].status = "PENDING" /\ \A v \in Workers \ {w} : ~Runs(v, Generate(q))
      BY <2>1, <2>2, <2>3, MessagesDiffer DEF Locked
    <3>2. ReportsInv' /\ job' \in [Workers -> ReportJob \cup {Idle}]
      BY <2>1, <2>2, <2>3, <3>1, ReportJobKeeps
    <3>3. QED
      BY <1>1, <2>1, <3>2 DEF ReportsTypes
  <2>4. CASE UNCHANGED job
    BY <1>1, <1>2, <2>1, <2>4 DEF ReportsTypes
  <2>5. QED
    BY <1>4, <2>3, <2>4 DEF GenerateReport, Starts, k
<1>5. ASSUME NEW w \in Workers, SelectStale(w)
      PROVE  ReportsTypes' /\ ReportsInv' /\ \A q \in ReportIds : ReportMoves(q)
  <2> DEFINE k == [message |-> Requeue, ids |-> StaleReports]
  <2>1. UNCHANGED <<report, now>> /\ queue' \subseteq queue
    BY <1>5 DEF SelectStale, Receives
  <2>2. k \in ReportJob /\ k.message = Requeue
    BY MessagesDiffer DEF ReportJob, ReportMessages, StaleReports
  <2> HIDE DEF k
  <2>3. CASE job' = [job EXCEPT ![w] = k]
    <3>1. ReportsInv' /\ job' \in [Workers -> ReportJob \cup {Idle}]
      BY <2>1, <2>2, <2>3, MessagesDiffer, ReportJobKeeps
    <3>2. QED
      BY <1>1, <2>1, <3>1 DEF ReportsTypes
  <2>4. CASE UNCHANGED job
    BY <1>1, <1>2, <2>1, <2>4 DEF ReportsTypes
  <2>5. QED
    BY <1>5, <2>3, <2>4 DEF SelectStale, Starts, k
<1>6. ASSUME NEW w \in Workers, Ends(w), UNCHANGED report, now' = now, queue' \subseteq ReportMessages
      PROVE  ReportsTypes' /\ ReportsInv' /\ \A q \in ReportIds : ReportMoves(q)
  <2>1. ReportsInv' /\ job' \in [Workers -> ReportJob \cup {Idle}]
    BY <1>6, ReportJobKeeps DEF Ends, Starts
  <2>2. QED
    BY <1>1, <1>6, <2>1 DEF ReportsTypes
<1>7. ASSUME NEW w \in Workers, EnqueueStale(w)
      PROVE  ReportsTypes' /\ ReportsInv' /\ \A q \in ReportIds : ReportMoves(q)
  <2>1. job[w] \in ReportJob /\ job[w].ids \subseteq ReportIds
    BY <1>7 DEF EnqueueStale, Runs, Busy, ReportsTypes, ReportJob
  <2>2. queue' \subseteq ReportMessages
    BY <1>7, <2>1 DEF EnqueueStale, ReportsTypes, ReportMessages
  <2>3. QED
    BY <1>6, <1>7, <2>2 DEF EnqueueStale
<1>8. ASSUME NEW w \in Workers, NEW r \in ReportIds, CommitReport(w, r)
      PROVE  ReportsTypes' /\ ReportsInv' /\ \A q \in ReportIds : ReportMoves(q)
  <2> PICK status \in {"READY", "FAILED"} :
        report' = [report EXCEPT ![r].status = status, ![r].completed = now]
    BY <1>8 DEF CommitReport
  <2> DEFINE k == [report[r] EXCEPT !.status = status, !.completed = now]
  <2>1. /\ report[r].status = "PENDING" /\ Runs(w, Generate(r))
        /\ job' = [job EXCEPT ![w] = Idle] /\ UNCHANGED <<queue, now>>
    BY <1>8 DEF CommitReport, ReportsInv, Ends, Starts
  <2>2. k \in ReportRecord /\ k.status = status
    BY <2>1 DEF ReportsTypes, ReportRecord
  <2>3. report' = [report EXCEPT ![r] = k]
    BY <2>1 DEF ReportsTypes
  <2> HIDE DEF k
  <2>4. report' \in [ReportIds -> ReportRecord]
    BY <2>2, <2>3 DEF ReportsTypes
  <2>5. report'[r] = k /\ \A q \in ReportIds \ {r} : report'[q] = report[q]
    BY <2>3 DEF ReportsTypes
  <2>6. \A v \in Workers \ {w} : ~Runs(v, Generate(r))
    BY <2>1 DEF ReportsInv
  <2>7. ReportsInv' /\ job' \in [Workers -> ReportJob \cup {Idle}]
    BY <2>1, <2>5, <2>6, ReportJobKeeps
  <2>8. \A q \in ReportIds : ReportMoves(q)
    BY <2>1, <2>2, <2>5 DEF ReportMoves
  <2>9. QED
    BY <2>1, <2>4, <2>7, <2>8 DEF ReportsTypes
<1>9. ASSUME NEW w \in Workers, PurgeExpired(w)
      PROVE  ReportsTypes' /\ ReportsInv' /\ \A q \in ReportIds : ReportMoves(q)
  <2> DEFINE old == {r \in ReportIds : report[r].status \notin Absent /\ report[r].created + Retention < now}
  <2>1. /\ UNCHANGED <<now, job>> /\ queue' \subseteq queue /\ \A r \in old : ~Locked(r)
        /\ report' = [r \in ReportIds |-> IF r \in old THEN [report[r] EXCEPT !.status = "purged"]
                                                       ELSE report[r]]
    BY <1>9 DEF PurgeExpired, Receives
  <2>2. \A r \in ReportIds :
          /\ r \in old => /\ report'[r].status = "purged" /\ report'[r] \in ReportRecord
                          /\ report[r].created + Retention < now
          /\ r \notin old => report'[r] = report[r]
    BY <2>1 DEF ReportsTypes, ReportRecord, Absent
  <2> HIDE DEF old
  <2>3. report' \in [ReportIds -> ReportRecord]
    BY <2>1, <2>2 DEF ReportsTypes
  <2>4. ReportsInv'
    BY <1>2, <2>1, <2>2
  <2>5. \A q \in ReportIds : ReportMoves(q)
    BY <2>2 DEF ReportMoves
  <2>6. QED
    BY <2>1, <2>3, <2>4, <2>5 DEF ReportsTypes
<1>10. ASSUME NEW w \in Workers, AbortReport(w)
       PROVE  ReportsTypes' /\ ReportsInv' /\ \A q \in ReportIds : ReportMoves(q)
  <2>1. Busy(w) /\ Ends(w) /\ UNCHANGED <<report, now>> /\ queue' \subseteq queue \cup {job[w].message}
    BY <1>10 DEF AbortReport, TaskFails, WorkerDies
  <2>2. job[w].message \in ReportMessages
    BY <2>1 DEF Busy, ReportsTypes, ReportJob
  <2>3. QED
    BY <1>6, <2>1, <2>2 DEF ReportsTypes
<1>11. ASSUME BeatReport(Requeue) \/ BeatReport(Purge)
       PROVE  ReportsTypes' /\ ReportsInv' /\ \A q \in ReportIds : ReportMoves(q)
  BY <1>1, <1>2, <1>11 DEF BeatReport, BeatSends, ReportsTypes, ReportMessages
<1>12. CASE ReportTick
  BY <1>1, <1>2, <1>12 DEF ReportTick, TimePasses, ReportsTypes
<1>13. CASE UNCHANGED reportVars
  BY <1>1, <1>2, <1>13 DEF reportVars, ReportsTypes
<1>14. QED
  BY <1>3, <1>4, <1>5, <1>7, <1>8, <1>9, <1>10, <1>11, <1>12, <1>13
     DEF NextReports, TakeReport, ContinueReport

(* At most one task builds a report, whatever the broker delivers again. *)
LEMMA ReportsInvariance == SpecReports => [](ReportsTypes /\ ReportsInv)
<1>1. InitReports => ReportsTypes /\ ReportsInv
  BY DEF InitReports, InitCelery, ReportsTypes, ReportsInv, ReportRecord, Absent, Runs, Busy
<1>2. QED
  BY <1>1, ReportsNext, PTL DEF SpecReports

(* The types of the variables; a task only builds a report that is PENDING. *)
THEOREM ReportsAreTyped == SpecReports => []ReportsTypeOK
<1>1. ReportsTypes /\ ReportsInv => ReportsTypeOK
  BY DEF ReportsTypes, ReportsInv, ReportsTypeOK, Locked
<1>2. QED
  BY <1>1, ReportsInvariance, PTL

(* A delivered file stays the file until its retention is over, and no two  *)
(* tasks build the same report.                                            *)
THEOREM DeliveredReportsAreFinal == SpecReports => ReportsAreFinal
<1> DEFINE Final(r) ==
      /\ report[r].status \in {"READY", "FAILED", "purged"} =>
           report'[r].status = "purged" \/ report'[r] = report[r]
      /\ (Download(r) = <<"file", report[r].completed>> /\ report'[r].status # "purged") =>
           Download(r)' = Download(r)
      /\ (report'[r].status = "purged" /\ report[r].status # "purged") =>
           report[r].created + Retention < now
<1>1. ASSUME ReportsTypes, ReportsInv, [NextReports]_reportVars, NEW r \in ReportIds
      PROVE  Final(r)
  <2>1. ReportMoves(r) /\ report[r] \in ReportRecord
    BY <1>1, ReportsNext DEF ReportsTypes
  <2>2. Download(r) = <<"file", report[r].completed>> => report[r].status = "READY"
    BY <2>1 DEF Download, ReportRecord, Absent
  <2>3. report'[r] = report[r] => Download(r)' = Download(r)
    BY DEF Download
  <2>4. QED
    BY <2>1, <2>2, <2>3 DEF ReportMoves
<1>2. ReportsTypes /\ ReportsInv /\ [NextReports]_reportVars =>
        /\ \A r \in ReportIds : Final(r)
        /\ \A v, w \in Workers : \A r \in ReportIds :
             Runs(v, Generate(r)) /\ Runs(w, Generate(r)) => v = w
  BY <1>1 DEF ReportsInv
<1>3. QED
  BY <1>2, ReportsInvariance, PTL DEF SpecReports, ReportsAreFinal

-----------------------------------------------------------------------------
(* The movements page: which request the list waits for, and what it shows. *)

ListRequest == [filter : Filters, number : Int, latest : BOOLEAN]

PageTypes ==
  /\ form \in [filter : Filters, timer : BOOLEAN]
  /\ paging.number \in Int
  /\ requests \subseteq ListRequest
  /\ screen = [list |-> screen.list, pager |-> screen.pager, first |-> screen.first, data |-> screen.data]

(* What was asked for, r, is the page of the script; the filters may have    *)
(* been typed over, but then the search timer is going to ask again.         *)
OfThisPage(r) == r.number = paging.number /\ (~form.timer => r.filter = form.filter)

(* The list loads as long as its one latest request is on its way. *)
PageInv ==
  /\ \A r, q \in requests : r.latest /\ q.latest => r = q
  /\ \A r \in requests : r.latest => OfThisPage(r)
  /\ screen.list = "loading" <=> \E r \in requests : r.latest
  /\ screen.list \in {"rows", "empty"} => OfThisPage(screen.data)

(* Loading the list leaves one latest request: that of the page and the      *)
(* filters of this moment.                                                   *)
LEMMA LoadListKeeps ==
  ASSUME PageTypes, NEW f \in Filters, NEW pages, pages.number \in Int, LoadList(f, pages),
         form' \in [filter : Filters, timer : BOOLEAN], f = form'.filter
  PROVE  PageTypes' /\ PageInv'
<1> DEFINE k == [filter |-> f, number |-> pages.number, latest |-> TRUE]
<1>1. /\ paging' = pages
      /\ requests' = {[r EXCEPT !.latest = FALSE] : r \in requests} \cup {k}
      /\ screen' = [screen EXCEPT !.list = "loading"]
  BY DEF LoadList
<1>2. \A r \in ListRequest :
        [r EXCEPT !.latest = FALSE] \in ListRequest /\ ~[r EXCEPT !.latest = FALSE].latest
  BY DEF ListRequest
<1>3. k \in ListRequest /\ k.filter = f /\ k.number = pages.number /\ k.latest = TRUE
  BY DEF ListRequest
<1> HIDE DEF k
<1>4. requests' \subseteq ListRequest /\ \A r \in requests' : r.latest => r = k
  BY <1>1, <1>2, <1>3 DEF PageTypes
<1>5. /\ screen'.list = "loading"
      /\ screen' = [list |-> screen'.list, pager |-> screen'.pager, first |-> screen'.first,
                    data |-> screen'.data]
  BY <1>1 DEF PageTypes
<1>6. k \in requests' /\ OfThisPage(k)'
  BY <1>1, <1>3 DEF OfThisPage
<1>7. PageTypes'
  BY <1>1, <1>4, <1>5 DEF PageTypes
<1>8. \A r \in requests' : r.latest => OfThisPage(r)'
  BY <1>4, <1>6
<1>9. QED
  BY <1>3, <1>4, <1>5, <1>6, <1>7, <1>8 DEF PageInv

(* Every step keeps the list to its latest request. *)
LEMMA PageNext == PageTypes /\ PageInv /\ [NextMovementsPage]_pageVars => PageTypes' /\ PageInv'
<1> SUFFICES ASSUME PageTypes, PageInv, [NextMovementsPage]_pageVars PROVE PageTypes' /\ PageInv'
  OBVIOUS
<1>1. form.filter \in Filters /\ FirstPage.number \in Int
  BY DEF PageTypes, FirstPage
<1>2. ASSUME NEW pages, pages.number \in Int, LoadList(form.filter, pages), UNCHANGED form PROVE PageTypes' /\ PageInv'
  BY <1>1, <1>2, LoadListKeeps DEF PageTypes
<1>3. CASE NextPage
  BY <1>2, <1>3 DEF NextPage, PageTypes
<1>4. CASE PreviousPage
  BY <1>2, <1>4 DEF PreviousPage, PageTypes
<1>5. CASE Retry
  BY <1>2, <1>5 DEF Retry, PageTypes
<1>6. ASSUME NEW f \in Filters, RegisterHere(f) \/ RemoveMovement(f) PROVE PageTypes' /\ PageInv'
  BY <1>1, <1>2, <1>6 DEF RegisterHere, RemoveMovement, PageTypes
<1>7. ASSUME NEW f \in Filters, ApplyFilters(f) PROVE PageTypes' /\ PageInv'
  <2>1. form' = [form EXCEPT !.filter = f] /\ LoadList(f, FirstPage)
    BY <1>7 DEF ApplyFilters
  <2>2. form' \in [filter : Filters, timer : BOOLEAN] /\ form'.filter = f
    BY <2>1 DEF PageTypes
  <2>3. QED
    BY <1>1, <2>1, <2>2, LoadListKeeps
<1>8. CASE SearchTimer
  <2>1. form' = [form EXCEPT !.timer = FALSE] /\ LoadList(form.filter, FirstPage)
    BY <1>8 DEF SearchTimer
  <2>2. form' \in [filter : Filters, timer : BOOLEAN] /\ form'.filter = form.filter
    BY <2>1 DEF PageTypes
  <2>3. QED
    BY <1>1, <2>1, <2>2, LoadListKeeps
<1>9. ASSUME NEW f \in Filters, Type(f) PROVE PageTypes' /\ PageInv'
  <2>1. form' = [filter |-> f, timer |-> TRUE] /\ UNCHANGED <<paging, requests, screen>>
    BY <1>9 DEF Type
  <2>2. form'.filter = f /\ form'.timer = TRUE
    BY <2>1
  <2>3. QED
    BY <2>1, <2>2 DEF PageTypes, PageInv, OfThisPage
<1>10. ASSUME NEW r \in requests, Stale(r) PROVE PageTypes' /\ PageInv'
  BY <1>10 DEF Stale, Settled, PageTypes, PageInv, OfThisPage
<1>11. ASSUME NEW r \in requests, Answer(r) PROVE PageTypes' /\ PageInv'
  <2> PICK body \in Paginate(total[r.filter], r.number) : RenderList(r, body)
    BY <1>11 DEF Answer
  <2> DEFINE data == [filter |-> r.filter, number |-> r.number, length |-> body.length,
                      next |-> body.next, previous |-> body.previous]
  <2>1. r.latest /\ requests' = requests \ {r} /\ UNCHANGED <<form, paging>>
    BY <1>11 DEF Answer, Settled, RenderList
  <2>2. data.filter = r.filter /\ data.number = r.number
    OBVIOUS
  <2>3. \/ screen' = [list |-> "empty", pager |-> FALSE, first |-> screen.first, data |-> data]
        \/ screen' = [list |-> "rows", pager |-> TRUE, first |-> Last(paging.offsets) + 1, data |-> data]
    BY DEF RenderList
  <2> HIDE DEF data
  <2>4. /\ screen'.list \in {"empty", "rows"} /\ screen'.data = data
        /\ screen' = [list |-> screen'.list, pager |-> screen'.pager, first |-> screen'.first,
                      data |-> screen'.data]
    BY <2>3
  <2>5. OfThisPage(data)'
    BY <2>1, <2>2 DEF PageInv, OfThisPage
  <2>6. \A q \in requests' : q \in requests /\ ~q.latest
    BY <2>1 DEF PageInv, PageTypes, ListRequest
  <2>7. PageTypes'
    BY <2>1, <2>4, <2>6 DEF PageTypes
  <2>8. QED
    BY <2>4, <2>5, <2>6, <2>7 DEF PageInv
<1>12. ASSUME NEW r \in requests, PageGone(r) PROVE PageTypes' /\ PageInv'
  <2> PICK k : k = [filter |-> form.filter, number |-> 1, latest |-> TRUE]
    OBVIOUS
  <2>1. /\ r.latest /\ requests' = (requests \ {r}) \cup {k} /\ UNCHANGED form
        /\ paging' = FirstPage /\ screen' = [screen EXCEPT !.list = "loading"]
    BY <1>12 DEF PageGone
  <2>2. k \in ListRequest /\ k.filter = form.filter /\ k.number = 1 /\ k.latest = TRUE
    BY <1>1 DEF ListRequest
  <2>3. \A q \in requests' : q = k \/ (q \in requests /\ ~q.latest)
    BY <2>1 DEF PageInv, PageTypes, ListRequest
  <2>4. /\ screen'.list = "loading"
        /\ screen' = [list |-> screen'.list, pager |-> screen'.pager, first |-> screen'.first,
                      data |-> screen'.data]
    BY <2>1 DEF PageTypes
  <2>5. OfThisPage(k)'
    BY <2>1, <2>2 DEF OfThisPage, FirstPage
  <2>6. PageTypes'
    <3>1. paging'.number = 1
      BY <2>1 DEF FirstPage
    <3>2. requests' \subseteq ListRequest
      BY <2>2, <2>3 DEF PageTypes
    <3>3. QED
      BY <2>1, <2>4, <3>1, <3>2 DEF PageTypes
  <2>7. QED
    BY <2>1, <2>2, <2>3, <2>4, <2>5, <2>6 DEF PageInv
<1>13. ASSUME NEW r \in requests, Failed(r) PROVE PageTypes' /\ PageInv'
  <2>1. /\ r.latest /\ requests' = requests \ {r} /\ UNCHANGED <<form, paging>>
        /\ screen' = [screen EXCEPT !.list = "error", !.pager = FALSE]
    BY <1>13 DEF Failed, Settled
  <2>2. \A q \in requests' : q \in requests /\ ~q.latest
    BY <2>1 DEF PageInv, PageTypes, ListRequest
  <2>3. /\ screen'.list = "error"
        /\ screen' = [list |-> screen'.list, pager |-> screen'.pager, first |-> screen'.first,
                      data |-> screen'.data]
    BY <2>1 DEF PageTypes
  <2>4. QED
    BY <2>1, <2>2, <2>3 DEF PageTypes, PageInv
<1>14. CASE UNCHANGED pageVars
  BY <1>14 DEF pageVars, PageTypes, PageInv, OfThisPage
<1>15. QED
  BY <1>3, <1>4, <1>5, <1>6, <1>7, <1>8, <1>9, <1>10, <1>11, <1>12, <1>13, <1>14 DEF NextMovementsPage

(* However its requests overlap, fail or arrive late, a page at rest shows   *)
(* the list of its filters and number, and a skeleton waits for an answer.   *)
THEOREM ListFollowsForm == SpecPage => []ListIsCurrent
<1>1. InitPage => PageTypes /\ PageInv
  <2> SUFFICES ASSUME InitPage PROVE PageTypes /\ PageInv
    OBVIOUS
  <2> PICK f \in Filters :
        /\ form = [filter |-> f, timer |-> FALSE]
        /\ requests = {[filter |-> f, number |-> 1, latest |-> TRUE]}
    BY DEF InitPage
  <2>1. paging.number = 1 /\ screen = [list |-> "loading", pager |-> FALSE, first |-> 0, data |-> NoData]
    BY DEF InitPage, FirstPage
  <2>2. QED
    BY <2>1 DEF PageTypes, ListRequest, PageInv, OfThisPage
<1>2. PageTypes /\ PageInv => ListIsCurrent
  BY DEF PageTypes, PageInv, OfThisPage, ListIsCurrent, AtRestWith
<1>3. QED
  BY <1>1, <1>2, PageNext, PTL DEF SpecPage

-----------------------------------------------------------------------------
(* Maintenance: the balance and its movements, as the audit sees them.      *)

AuditTypes ==
  /\ entries \in [Entries -> EntryRow \cup {NoEntryRow}]
  /\ balanceNow \in Int /\ stamp \in Nat
  /\ audit \in [at : {"start", "balances", "movements", "fixing", "again", "last", "exit"},
                fix : BOOLEAN, balance : Int, quiet : BOOLEAN, calculated : Int]

(* Until somebody commits, the balance that was read is the balance. *)
AuditInv == audit.at \in {"movements", "last"} /\ audit.quiet => audit.balance = balanceNow

AmountOf == [e \in Entries |-> IF e \in Kept THEN entries[e].amount ELSE 0]

(* The sum over the rows is a sum over the transactions. *)
LEMMA MovementsAreAmounts ==
  AuditTypes => /\ Movements = SumFunctionOnSet(AmountOf, Entries) /\ Movements \in Int
                /\ \A d \in Entries : AmountOf[d] \in Int
<1> SUFFICES ASSUME AuditTypes
             PROVE  /\ Movements = SumFunctionOnSet(AmountOf, Entries) /\ Movements \in Int
                    /\ \A d \in Entries : AmountOf[d] \in Int
  OBVIOUS
<1> DEFINE f == [e \in Kept |-> entries[e].amount]
           K == Kept
<1>1. /\ K \in SUBSET Entries /\ IsFiniteSet(K) /\ IsFiniteSet(Entries)
      /\ \A e \in Entries : AmountOf[e] \in Int /\ (e \notin K => AmountOf[e] = 0)
      /\ \A e \in K : f[e] = AmountOf[e]
  <2>1. K \in SUBSET Entries /\ IsFiniteSet(Entries)
    BY EntriesAssumption DEF Kept
  <2>2. IsFiniteSet(K)
    BY <2>1, FS_Subset
  <2>3. \A e \in K : entries[e] \in EntryRow /\ entries[e].amount \in Int
    BY EntriesAssumption DEF Kept, AuditTypes, EntryRow
  <2>4. \A e \in Entries : AmountOf[e] \in Int /\ (e \notin K => AmountOf[e] = 0)
    BY <2>3 DEF AmountOf
  <2>5. \A e \in K : f[e] = AmountOf[e]
    BY <2>1 DEF AmountOf
  <2>6. QED
    BY <2>1, <2>2, <2>4, <2>5
<1>2. Movements = SumFunctionOnSet(f, K)
  BY DEF Movements
<1> HIDE DEF f, K
<1>3. Movements = SumFunctionOnSet(AmountOf, Entries)
  BY <1>1, <1>2, SumCongruence, SumSupport
<1>4. QED
  BY <1>1, <1>3, SumType

(* A request moves the balance by what it moves its transaction. *)
LEMMA RequestMoves ==
  ASSUME AuditTypes, AuditTypes', NEW e \in Entries,
         \A f \in Entries \ {e} : entries'[f] = entries[f],
         balanceNow' = balanceNow - AmountOf[e] + AmountOf'[e]
  PROVE  Consistent => Consistent'
<1> DEFINE f == AmountOf
           g == AmountOf'
<1>1. /\ IsFiniteSet(Entries) /\ \A x \in Entries : f[x] \in Int /\ g[x] \in Int
      /\ Movements = SumFunctionOnSet(f, Entries) /\ Movements' = SumFunctionOnSet(g, Entries)
  <2>1. (AuditTypes => /\ Movements = SumFunctionOnSet(AmountOf, Entries) /\ Movements \in Int
                       /\ \A d \in Entries : AmountOf[d] \in Int)'
    BY MovementsAreAmounts, PTL
  <2>2. QED
    BY <2>1, EntriesAssumption, MovementsAreAmounts
<1>2. \A x \in Entries \ {e} : f[x] = g[x]
  BY DEF AmountOf, Kept
<1>3. balanceNow' = balanceNow - f[e] + g[e] /\ balanceNow \in Int
  BY DEF AuditTypes
<1> HIDE DEF f, g
<1>4. SumFunctionOnSet(f, Entries) \in Int /\ Movements' = SumFunctionOnSet(f, Entries) - f[e] + g[e]
  BY <1>1, <1>2, SumType, SumUpdate
<1>5. QED
  BY <1>1, <1>3, <1>4 DEF Consistent

Erases == \E e \in Entries : CommitErase(e)

(* Every step keeps what the audit has read, and none but a deletion makes a *)
(* consistent balance inconsistent.                                          *)
LEMMA AuditNext ==
  AuditTypes /\ AuditInv /\ [NextMaintenance]_maintenanceVars =>
    AuditTypes' /\ AuditInv' /\ (Consistent => Consistent' \/ Erases)
<1> SUFFICES ASSUME AuditTypes, AuditInv, [NextMaintenance]_maintenanceVars
             PROVE  AuditTypes' /\ AuditInv' /\ (Consistent => Consistent' \/ Erases)
  OBVIOUS
<1>0. audit' = [audit EXCEPT !.quiet = FALSE] =>
        audit' \in [at : {"start", "balances", "movements", "fixing", "again", "last", "exit"},
                    fix : BOOLEAN, balance : Int, quiet : BOOLEAN, calculated : Int]
  BY DEF AuditTypes
<1>1. Movements \in Int
  BY MovementsAreAmounts
<1>2. ASSUME NEW e \in Entries, NEW amount \in EntryAmounts, NEW label \in Labels,
             CommitEntry(e, amount, label)
      PROVE  AuditTypes' /\ AuditInv' /\ (Consistent => Consistent' \/ Erases)
  <2> DEFINE k == [amount |-> amount, label |-> label, created |-> stamp']
  <2>1. /\ entries' = [entries EXCEPT ![e] = k] /\ balanceNow' = balanceNow + amount
        /\ audit' = [audit EXCEPT !.quiet = FALSE] /\ entries[e] = NoEntryRow /\ stamp' \in Nat
    BY <1>2 DEF CommitEntry, Tick, AuditTypes
  <2>2. k \in EntryRow /\ k.amount = amount /\ k # NoEntryRow /\ amount \in Int
    BY <2>1, EntriesAssumption DEF EntryRow
  <2> HIDE DEF k
  <2>3. AuditTypes'
    <3>1. entries' \in [Entries -> EntryRow \cup {NoEntryRow}]
      BY <2>1, <2>2 DEF AuditTypes
    <3>2. balanceNow' \in Int
      BY <2>1, <2>2 DEF AuditTypes
    <3>3. QED
      BY <1>0, <2>1, <3>1, <3>2 DEF AuditTypes
  <2>4. AuditInv'
    BY <2>1 DEF AuditTypes, AuditInv
  <2>5. AmountOf[e] = 0 /\ AmountOf'[e] = amount
    BY <2>1, <2>2 DEF AmountOf, Kept, AuditTypes
  <2>6. balanceNow' = balanceNow - AmountOf[e] + AmountOf'[e]
    BY <2>1, <2>2, <2>5 DEF AuditTypes
  <2>7. \A f \in Entries \ {e} : entries'[f] = entries[f]
    BY <2>1 DEF AuditTypes
  <2>8. QED
    BY <2>3, <2>4, <2>6, <2>7, RequestMoves
<1>3. ASSUME NEW e \in Entries, NEW label \in Labels, CommitLabel(e, label)
      PROVE  AuditTypes' /\ AuditInv' /\ (Consistent => Consistent' \/ Erases)
  <2> DEFINE k == [entries[e] EXCEPT !.label = label]
  <2>1. /\ entries' = [entries EXCEPT ![e] = k] /\ balanceNow' = balanceNow
        /\ audit' = [audit EXCEPT !.quiet = FALSE] /\ e \in Kept /\ stamp' \in Nat
    BY <1>3 DEF CommitLabel, Tick, AuditTypes
  <2>2. entries[e] \in EntryRow
    BY <2>1 DEF Kept, AuditTypes
  <2>3. k \in EntryRow /\ k.amount = entries[e].amount /\ k # NoEntryRow
    BY <2>2, EntriesAssumption DEF EntryRow
  <2> HIDE DEF k
  <2>4. AuditTypes'
    BY <1>0, <2>1, <2>3 DEF AuditTypes
  <2>5. AuditInv'
    BY <2>1 DEF AuditTypes, AuditInv
  <2>6. AmountOf[e] = AmountOf'[e]
    BY <2>1, <2>3 DEF AmountOf, Kept, AuditTypes
  <2>7. balanceNow' = balanceNow - AmountOf[e] + AmountOf'[e]
    BY <2>1, <2>6, MovementsAreAmounts DEF AuditTypes
  <2>8. \A f \in Entries \ {e} : entries'[f] = entries[f]
    BY <2>1 DEF AuditTypes
  <2>9. QED
    BY <2>4, <2>5, <2>7, <2>8, RequestMoves
<1>4. ASSUME NEW e \in Entries, CommitErase(e)
      PROVE  AuditTypes' /\ AuditInv' /\ (Consistent => Consistent' \/ Erases)
  <2>1. /\ entries' = [entries EXCEPT ![e] = NoEntryRow] /\ e \in Kept
        /\ audit' = [audit EXCEPT !.quiet = FALSE] /\ stamp' \in Nat
    BY <1>4 DEF CommitErase, Tick, AuditTypes
  <2>2. PICK deviation \in Int : balanceNow' = balanceNow - entries[e].amount + deviation
    BY <1>4, EntriesAssumption DEF CommitErase
  <2>3. entries[e].amount \in Int
    BY <2>1, EntriesAssumption DEF Kept, AuditTypes, EntryRow
  <2>4. AuditTypes'
    <3>1. entries' \in [Entries -> EntryRow \cup {NoEntryRow}]
      BY <2>1 DEF AuditTypes
    <3>2. balanceNow' \in Int
      BY <2>2, <2>3 DEF AuditTypes
    <3>3. QED
      BY <1>0, <2>1, <3>1, <3>2 DEF AuditTypes
  <2>5. AuditInv'
    BY <2>1 DEF AuditTypes, AuditInv
  <2>6. QED
    BY <1>4, <2>4, <2>5 DEF Erases
<1>5. UNCHANGED entries => Movements' = Movements
  BY DEF Movements, Kept
<1>6. ASSUME NEW fix \in BOOLEAN, StartAudit(fix)
      PROVE  AuditTypes' /\ AuditInv' /\ (Consistent => Consistent' \/ Erases)
  BY <1>5, <1>6 DEF StartAudit, requestVars, AuditTypes, AuditInv, Consistent
<1>7. CASE ReadBalances
  BY <1>5, <1>7 DEF ReadBalances, requestVars, AuditTypes, AuditInv, Consistent
<1>8. CASE ReadMovements
  BY <1>1, <1>5, <1>8 DEF ReadMovements, requestVars, AuditTypes, AuditInv, Consistent
<1>9. CASE Fix
  BY <1>1, <1>5, <1>9 DEF Fix, AuditTypes, AuditInv, Consistent
<1>10. ASSUME UNCHANGED <<balanceNow, entries, stamp, audit>>
       PROVE  AuditTypes' /\ AuditInv' /\ (Consistent => Consistent' \/ Erases)
  BY <1>5, <1>10 DEF AuditTypes, AuditInv, Consistent
<1>11. ASSUME NEW b \in Backfillers, ReadBatch(b) \/ CommitBatch(b)
       PROVE  AuditTypes' /\ AuditInv' /\ (Consistent => Consistent' \/ Erases)
  BY <1>10, <1>11 DEF ReadBatch, CommitBatch, requestVars
<1>12. CASE UNCHANGED maintenanceVars
  BY <1>10, <1>12 DEF maintenanceVars, requestVars
<1>13. QED
  BY <1>2, <1>3, <1>4, <1>6, <1>7, <1>8, <1>9, <1>11, <1>12
     DEF NextMaintenance, NextRequest, NextAudit, NextBackfill

(* INV-07 and its audit: nothing but a deletion that reverts a stale balance *)
(* makes a consistent one inconsistent, not even --fix, and the exit code is *)
(* the truth when nobody committed.                                          *)
THEOREM AuditsAreExact == SpecMaintenance => AuditIsExact
<1>1. InitMaintenance => AuditTypes /\ AuditInv
  <2> SUFFICES ASSUME InitMaintenance PROVE AuditTypes /\ AuditInv
    OBVIOUS
  <2>1. /\ audit = [at |-> "start", fix |-> FALSE, balance |-> 0, quiet |-> TRUE, calculated |-> 0]
        /\ stamp = 0
    BY DEF InitMaintenance
  <2>2. entries \in [Entries -> EntryRow \cup {NoEntryRow}]
    BY DEF InitMaintenance, EntryRow
  <2>3. PICK deviation \in Int : balanceNow = Movements + deviation
    BY EntriesAssumption DEF InitMaintenance
  <2>4. Movements \in Int
    <3> DEFINE K == Kept
               f == [e \in K |-> entries[e].amount]
    <3>1. IsFiniteSet(K)
      BY EntriesAssumption, FS_Subset DEF Kept
    <3>2. \A e \in K : f[e] \in Int
      BY <2>2, EntriesAssumption DEF Kept, EntryRow
    <3>3. Movements = SumFunctionOnSet(f, K)
      BY DEF Movements
    <3> HIDE DEF f, K
    <3>4. QED
      BY <3>1, <3>2, <3>3, SumType
  <2>5. QED
    BY <2>1, <2>2, <2>3, <2>4 DEF AuditTypes, AuditInv
<1>2. ASSUME AuditTypes, AuditInv, [NextMaintenance]_maintenanceVars
      PROVE  /\ Consistent /\ ~Consistent' => Erases
             /\ (ReadMovements /\ audit'.at = "exit" /\ audit.quiet) =>
                  (audit'.balance = audit'.calculated <=> Consistent)
             /\ (audit'.at = "again" /\ audit.at = "fixing") => Consistent'
  <2>1. Consistent /\ ~Consistent' => Erases
    BY <1>2, AuditNext
  <2>2. (ReadMovements /\ audit.quiet) => (audit'.balance = audit'.calculated <=> Consistent)
    BY <1>2 DEF ReadMovements, AuditTypes, AuditInv, Consistent
  <2>3. ASSUME audit'.at = "again", audit.at = "fixing" PROVE Consistent'
    <3>1. Fix
      BY <1>2, <2>3 DEF NextMaintenance, NextRequest, CommitEntry, CommitLabel, CommitErase, Tick,
         NextAudit, StartAudit, ReadBalances, ReadMovements, NextBackfill, ReadBatch, CommitBatch,
         maintenanceVars, AuditTypes
    <3>2. Movements' = Movements
      BY <3>1 DEF Fix, Movements, Kept
    <3>3. QED
      BY <3>1, <3>2 DEF Fix, Consistent
  <2>4. QED
    BY <2>1, <2>2, <2>3
<1>3. QED
  BY <1>1, <1>2, AuditNext, PTL DEF SpecMaintenance, NextMaintenance, AuditIsExact, Erases

-----------------------------------------------------------------------------
(* Maintenance: the events of each transaction, and what a run of            *)
(* outbox-backfill still knows of those it read.                             *)

Of(e) == {r \in recorded : r.tx = e}

FactTypes ==
  /\ stamp \in Nat
  /\ entries \in [Entries -> EntryRow \cup {NoEntryRow}]
  /\ \A e \in Kept : entries[e].created <= stamp
  /\ \A r \in recorded : r.kind \in {"Added", "Categorized", "Deleted"} /\ r.at \in 0 .. stamp
  /\ filling = [b \in Backfillers |-> filling[b]]

(* Added is recorded once; only what is deleted has a Deleted, and what was  *)
(* there before and is gone has one.                                         *)
RecordedOnce ==
  \A e \in Entries :
    /\ \A r, q \in Of(e) : r.kind = "Added" /\ q.kind = "Added" => r = q
    /\ e \in Kept => ~Happened(e, "Deleted")
    /\ (e \notin Kept /\ Of(e) # {}) => Happened(e, "Deleted")

(* The newest events of a transaction tell its category, and each change of  *)
(* it is newer than its registration.                                        *)
NewestIsTrue ==
  \A e \in Kept :
    /\ Of(e) # {} => RM!Newest(Of(e)) # {}
    /\ \A r \in RM!Newest(Of(e)) : r.category = entries[e].label
    /\ \A r \in Of(e) : r.kind = "Categorized" => entries[e].created < r.at

Waits(b) == filling[b].at = "commit"

Picture(b) == filling[b].batch

(* The picture of a batch is of a transaction there was: still the row's     *)
(* unless a change of its category is recorded.                              *)
PicturesAreKnown ==
  \A b \in Backfillers : Waits(b) =>
    /\ DOMAIN Picture(b) \subseteq Entries
    /\ \A e \in DOMAIN Picture(b) :
         /\ Picture(b)[e].created \in 0 .. stamp
         /\ e \in Kept \/ Happened(e, "Deleted")
         /\ e \in Kept =>
              /\ Picture(b)[e].created = entries[e].created
              /\ Happened(e, "Categorized") \/ Picture(b)[e].label = entries[e].label

(* A batch that is not full was the last, and what was missing is in it. *)
LastBatchHasAll ==
  \A b \in Backfillers :
    /\ (Waits(b) /\ Cardinality(DOMAIN Picture(b)) # BackfillSize) => Missing \subseteq DOMAIN Picture(b)
    /\ filling[b].at = "done" => Missing = {}

FactsInv == RecordedOnce /\ NewestIsTrue /\ PicturesAreKnown /\ LastBatchHasAll

(* What a committed request does to the events and the row of one            *)
(* transaction: it is registered, changed or deleted, with the event x.      *)
RequestOn(e, x) ==
  /\ stamp' = stamp + 1 /\ UNCHANGED filling
  /\ recorded' = recorded \cup {x} /\ x.tx = e /\ x.at = stamp'
  /\ entries' \in [Entries -> EntryRow \cup {NoEntryRow}]
  /\ \A f \in Entries \ {e} : entries'[f] = entries[f]
  /\ \/ /\ x.kind = "Added" /\ e \notin Kept /\ ~Happened(e, "Deleted") /\ e \in Kept'
        /\ entries'[e].created = stamp' /\ entries'[e].label = x.category
     \/ /\ x.kind = "Categorized" /\ e \in Kept /\ e \in Kept'
        /\ entries'[e].created = entries[e].created /\ entries'[e].label = x.category
     \/ x.kind = "Deleted" /\ e \in Kept /\ e \notin Kept'

(* Every request is one of these. *)
LEMMA RequestShapes ==
  ASSUME FactTypes, NextRequest
  PROVE  \E e \in Entries : \E x : RequestOn(e, x)
<1>1. ASSUME NEW e \in Entries, NEW kind \in {"Added", "Categorized", "Deleted"}, NEW label,
             Record(e, kind, stamp', label), Tick
      PROVE  \E x : /\ recorded' = recorded \cup {x} /\ x.tx = e /\ x.kind = kind /\ x.at = stamp'
                    /\ x.category = label /\ stamp' = stamp + 1 /\ stamp' \in Nat
  <2> DEFINE y == [id |-> Cardinality(recorded) + 1, tx |-> e, kind |-> kind, at |-> stamp',
                   category |-> label]
  <2>1. recorded' = recorded \cup {y} /\ stamp' = stamp + 1 /\ stamp' \in Nat
    BY <1>1 DEF Record, Tick, FactTypes
  <2>2. y.tx = e /\ y.kind = kind /\ y.at = stamp' /\ y.category = label
    OBVIOUS
  <2> HIDE DEF y
  <2>3. QED
    BY <2>1, <2>2
<1>2. ASSUME NEW e \in Entries, NEW amount \in EntryAmounts, NEW label \in Labels,
             CommitEntry(e, amount, label)
      PROVE  \E x : RequestOn(e, x)
  <2> PICK x : /\ recorded' = recorded \cup {x} /\ x.tx = e /\ x.kind = "Added" /\ x.at = stamp'
               /\ x.category = label /\ stamp' = stamp + 1 /\ stamp' \in Nat
    BY <1>1, <1>2 DEF CommitEntry
  <2> PICK k : k = [amount |-> amount, label |-> label, created |-> stamp + 1]
    OBVIOUS
  <2>1. k \in EntryRow /\ k.label = label /\ k.created = stamp' /\ k # NoEntryRow
    BY EntriesAssumption DEF EntryRow
  <2>2. /\ entries' = [entries EXCEPT ![e] = k] /\ UNCHANGED filling
        /\ e \notin Kept /\ ~Happened(e, "Deleted")
    BY <1>2 DEF CommitEntry, Kept
  <2>3. e \in Kept' /\ entries'[e] = k /\ entries' \in [Entries -> EntryRow \cup {NoEntryRow}]
    BY <2>1, <2>2 DEF Kept, FactTypes
  <2>4. \A f \in Entries \ {e} : entries'[f] = entries[f]
    BY <2>2 DEF FactTypes
  <2>5. RequestOn(e, x)
    BY <2>1, <2>2, <2>3, <2>4 DEF RequestOn
  <2>6. QED
    BY <2>5
<1>3. ASSUME NEW e \in Entries, NEW label \in Labels, CommitLabel(e, label)
      PROVE  \E x : RequestOn(e, x)
  <2> PICK x : /\ recorded' = recorded \cup {x} /\ x.tx = e /\ x.kind = "Categorized" /\ x.at = stamp'
               /\ x.category = label /\ stamp' = stamp + 1 /\ stamp' \in Nat
    BY <1>1, <1>3 DEF CommitLabel
  <2>1. e \in Kept /\ entries[e] \in EntryRow /\ UNCHANGED filling
    BY <1>3 DEF CommitLabel, Kept, FactTypes
  <2> PICK k : k = [entries[e] EXCEPT !.label = label]
    OBVIOUS
  <2>2. k \in EntryRow /\ k.label = label /\ k.created = entries[e].created /\ k # NoEntryRow
    BY <2>1, EntriesAssumption DEF EntryRow
  <2>3. entries' = [entries EXCEPT ![e] = k]
    BY <1>3 DEF CommitLabel, FactTypes
  <2>4. e \in Kept' /\ entries'[e] = k /\ entries' \in [Entries -> EntryRow \cup {NoEntryRow}]
    BY <2>2, <2>3 DEF Kept, FactTypes
  <2>5. \A f \in Entries \ {e} : entries'[f] = entries[f]
    BY <2>3 DEF FactTypes
  <2>6. RequestOn(e, x)
    BY <2>1, <2>2, <2>4, <2>5 DEF RequestOn
  <2>7. QED
    BY <2>6
<1>4. ASSUME NEW e \in Entries, CommitErase(e)
      PROVE  \E x : RequestOn(e, x)
  <2> PICK x : /\ recorded' = recorded \cup {x} /\ x.tx = e /\ x.kind = "Deleted" /\ x.at = stamp'
               /\ x.category = entries[e].label /\ stamp' = stamp + 1 /\ stamp' \in Nat
    BY <1>1, <1>4 DEF CommitErase
  <2>1. e \in Kept /\ entries' = [entries EXCEPT ![e] = NoEntryRow] /\ UNCHANGED filling
    BY <1>4 DEF CommitErase
  <2>2. e \notin Kept' /\ entries' \in [Entries -> EntryRow \cup {NoEntryRow}]
    BY <2>1 DEF Kept, FactTypes
  <2>3. \A f \in Entries \ {e} : entries'[f] = entries[f]
    BY <2>1 DEF FactTypes
  <2>4. RequestOn(e, x)
    BY <2>1, <2>2, <2>3 DEF RequestOn
  <2>5. QED
    BY <2>4
<1>5. QED
  BY <1>2, <1>3, <1>4 DEF NextRequest

(* A request only adds to the events of its transaction. *)
LEMMA RequestFrame ==
  ASSUME FactTypes, NEW e \in Entries, NEW x, RequestOn(e, x)
  PROVE  /\ Of(e)' = Of(e) \cup {x}
         /\ \A f \in Entries \ {e} : Of(f)' = Of(f) /\ (f \in Kept' <=> f \in Kept)
         /\ \A f \in Entries : \A kind :
              Happened(f, kind)' <=> Happened(f, kind) \/ (f = e /\ kind = x.kind)
         /\ x \in recorded' /\ \A r \in recorded : r.at < x.at
  BY DEF RequestOn, Of, Kept, Happened, FactTypes

(* A request keeps the invariant. *)
LEMMA RequestKeepsFacts ==
  ASSUME FactTypes, FactsInv, NEW e \in Entries, NEW x, RequestOn(e, x)
  PROVE  FactTypes' /\ FactsInv'
<1>1. /\ Of(e)' = Of(e) \cup {x}
      /\ \A f \in Entries \ {e} : Of(f)' = Of(f) /\ (f \in Kept' <=> f \in Kept)
      /\ \A f \in Entries : \A kind :
           Happened(f, kind)' <=> Happened(f, kind) \/ (f = e /\ kind = x.kind)
      /\ \A r \in recorded : r.at < x.at
  BY RequestFrame
<1>2. /\ stamp \in Nat /\ stamp' = stamp + 1 /\ UNCHANGED filling /\ x.at = stamp'
      /\ \A f \in Entries \ {e} : entries'[f] = entries[f]
  BY DEF RequestOn, FactTypes
<1>3. \A f : (Of(f) \subseteq recorded) /\ \A kind : Happened(f, kind) <=> \E r \in Of(f) : r.kind = kind
  BY DEF Of, Happened
<1>4. x.kind = "Added" => Of(e) = {}
  BY DEF RequestOn, FactsInv, RecordedOnce
<1>5. FactTypes'
  <2>1. \A f \in Kept' : entries'[f].created <= stamp'
    <3> TAKE f \in Kept'
    <3>1. CASE f = e
      <4>1. entries'[e].created = stamp' \/ (e \in Kept /\ entries'[e].created = entries[e].created)
        BY <3>1 DEF RequestOn
      <4>2. e \in Kept => entries[e].created \in Nat /\ entries[e].created <= stamp
        BY DEF FactTypes, Kept, EntryRow
      <4>3. QED
        BY <1>2, <3>1, <4>1, <4>2
    <3>2. CASE f # e
      <4>1. f \in Kept /\ entries'[f] = entries[f]
        BY <1>1, <1>2, <3>2 DEF Kept
      <4>2. entries[f].created \in Nat /\ entries[f].created <= stamp
        BY <4>1 DEF FactTypes, Kept, EntryRow
      <4>3. QED
        BY <1>2, <4>1, <4>2
    <3>3. QED
      BY <3>1, <3>2
  <2>2. \A r \in recorded' : r.kind \in {"Added", "Categorized", "Deleted"} /\ r.at \in 0 .. stamp'
    BY <1>2 DEF RequestOn, FactTypes
  <2>3. stamp' \in Nat /\ entries' \in [Entries -> EntryRow \cup {NoEntryRow}]
    BY <1>2 DEF RequestOn
  <2>4. filling' = [b \in Backfillers |-> filling'[b]]
    BY <1>2 DEF FactTypes
  <2>5. QED
    BY <2>1, <2>2, <2>3, <2>4 DEF FactTypes
<1>6. RecordedOnce'
  <2> SUFFICES ASSUME NEW f \in Entries
               PROVE  (/\ \A r, q \in Of(f) : r.kind = "Added" /\ q.kind = "Added" => r = q
                       /\ f \in Kept => ~Happened(f, "Deleted")
                       /\ (f \notin Kept /\ Of(f) # {}) => Happened(f, "Deleted"))'
    BY DEF RecordedOnce
  <2>1. CASE f # e
    BY <1>1, <2>1 DEF FactsInv, RecordedOnce
  <2>2. CASE f = e
    BY <1>1, <1>3, <1>4, <2>2 DEF FactsInv, RecordedOnce, RequestOn
  <2>3. QED
    BY <2>1, <2>2
<1>7. NewestIsTrue'
  <2> SUFFICES ASSUME NEW f \in Kept'
               PROVE  (/\ Of(f) # {} => RM!Newest(Of(f)) # {}
                       /\ \A r \in RM!Newest(Of(f)) : r.category = entries[f].label
                       /\ \A r \in Of(f) : r.kind = "Categorized" => entries[f].created < r.at)'
    BY DEF NewestIsTrue
  <2>0. f \in Entries
    BY DEF Kept
  <2>1. CASE f # e
    BY <1>1, <1>2, <2>0, <2>1 DEF FactsInv, NewestIsTrue, RM!Newest
  <2>2. CASE f = e
    <3>1. RM!Newest(Of(e)') = {x}
      BY <1>1, <1>2, <1>3 DEF RM!Newest, FactTypes
    <3>2. x.category = entries'[e].label
      BY <2>2 DEF RequestOn
    <3>3. ASSUME NEW r \in Of(e)', r.kind = "Categorized" PROVE entries'[e].created < r.at
      <4>1. CASE r = x
        <5>1. e \in Kept /\ entries'[e].created = entries[e].created
          BY <3>3, <4>1 DEF RequestOn
        <5>2. entries[e].created \in Nat /\ entries[e].created <= stamp
          BY <5>1 DEF FactTypes, Kept, EntryRow
        <5>3. QED
          BY <1>2, <4>1, <5>1, <5>2
      <4>2. CASE r \in Of(e)
        <5>1. e \in Kept /\ entries'[e].created = entries[e].created
          BY <1>4, <2>2, <4>2 DEF RequestOn
        <5>2. QED
          BY <3>3, <4>2, <5>1 DEF FactsInv, NewestIsTrue
      <4>3. QED
        BY <1>1, <4>1, <4>2
    <3>4. QED
      BY <2>2, <3>1, <3>2, <3>3 DEF RM!Newest
  <2>3. QED
    BY <2>1, <2>2
<1>8. PicturesAreKnown'
  <2> SUFFICES ASSUME NEW b \in Backfillers, Waits(b)'
               PROVE  (/\ DOMAIN Picture(b) \subseteq Entries
                       /\ \A f \in DOMAIN Picture(b) :
                            /\ Picture(b)[f].created \in 0 .. stamp
                            /\ f \in Kept \/ Happened(f, "Deleted")
                            /\ f \in Kept =>
                                 /\ Picture(b)[f].created = entries[f].created
                                 /\ Happened(f, "Categorized") \/ Picture(b)[f].label = entries[f].label)'
    BY DEF PicturesAreKnown
  <2>1. Waits(b) /\ UNCHANGED Picture(b)
    BY <1>2 DEF Waits, Picture
  <2>2. DOMAIN Picture(b) \subseteq Entries
    BY <2>1 DEF FactsInv, PicturesAreKnown
  <2>3. ASSUME NEW f \in DOMAIN Picture(b)
        PROVE  (/\ Picture(b)[f].created \in 0 .. stamp
                /\ f \in Kept \/ Happened(f, "Deleted")
                /\ f \in Kept =>
                     /\ Picture(b)[f].created = entries[f].created
                     /\ Happened(f, "Categorized") \/ Picture(b)[f].label = entries[f].label)'
    <3>1. /\ f \in Entries /\ Picture(b)[f].created \in 0 .. stamp
          /\ f \in Kept \/ Happened(f, "Deleted")
          /\ f \in Kept =>
               /\ Picture(b)[f].created = entries[f].created
               /\ Happened(f, "Categorized") \/ Picture(b)[f].label = entries[f].label
      BY <2>1, <2>2 DEF FactsInv, PicturesAreKnown
    <3>2. (Picture(b)[f].created)' = Picture(b)[f].created /\ (Picture(b)[f].label)' = Picture(b)[f].label
      BY <2>1
    <3>3. Picture(b)[f].created \in 0 .. stamp'
      BY <1>2, <3>1
    <3>4. CASE f # e
      BY <1>1, <1>2, <3>1, <3>2, <3>3, <3>4
    <3>5. CASE f = e
      BY <1>1, <1>2, <3>1, <3>2, <3>3, <3>5 DEF RequestOn
    <3>6. QED
      BY <3>4, <3>5
  <2>4. QED
    BY <2>1, <2>2, <2>3
<1>9. LastBatchHasAll'
  <2>1. Missing' \subseteq Missing
    BY <1>1 DEF Missing, Kept, RequestOn
  <2>2. \A b \in Backfillers : UNCHANGED <<Waits(b), Picture(b), filling[b].at>>
    BY <1>2 DEF Waits, Picture
  <2>3. QED
    BY <2>1, <2>2 DEF FactsInv, LastBatchHasAll
<1>10. QED
  BY <1>5, <1>6, <1>7, <1>8, <1>9 DEF FactsInv

(* Nothing of the invariant but what a run has read depends on the runs. *)
LEMMA RunFrame ==
  ASSUME FactTypes, FactsInv, UNCHANGED <<recorded, entries, stamp>>
  PROVE  RecordedOnce' /\ NewestIsTrue' /\ Missing' = Missing
  BY DEF FactsInv, RecordedOnce, NewestIsTrue, RM!Newest, Missing, Kept, Of, Happened

(* Reading a batch keeps the invariant. *)
LEMMA ReadBatchKeepsFacts ==
  ASSUME FactTypes, FactsInv, NEW b \in Backfillers, ReadBatch(b)
  PROVE  FactTypes' /\ FactsInv'
<1> PICK B \in Batches :
      filling' = [filling EXCEPT ![b] = [at |-> "commit", batch |-> [e \in B |-> entries[e]]]]
  BY DEF ReadBatch
<1> PICK p : p = [e \in B |-> entries[e]]
  OBVIOUS
<1>1. UNCHANGED <<recorded, entries, stamp>>
  BY DEF ReadBatch, requestVars
<1>2. /\ filling' = [filling EXCEPT ![b] = [at |-> "commit", batch |-> p]]
      /\ B \subseteq Missing /\ Missing \subseteq Kept /\ Kept \subseteq Entries
      /\ DOMAIN p = B /\ \A e \in B : p[e] = entries[e]
  BY DEF Batches, Missing, Kept
<1>3. \A c \in Backfillers \ {b} : filling'[c] = filling[c]
  BY <1>2 DEF FactTypes
<1>4. filling'[b] = [at |-> "commit", batch |-> p] /\ filling' = [c \in Backfillers |-> filling'[c]]
  BY <1>2 DEF FactTypes
<1>5. Waits(b)' /\ Picture(b)' = p
  BY <1>4 DEF Waits, Picture
<1>6. \A c \in Backfillers \ {b} : UNCHANGED <<Waits(c), Picture(c), filling[c].at>>
  BY <1>3 DEF Waits, Picture
<1>7. FactTypes'
  <2>1. /\ stamp' \in Nat
        /\ entries' \in [Entries -> EntryRow \cup {NoEntryRow}]
        /\ \A e \in Kept' : entries'[e].created <= stamp'
        /\ \A r \in recorded' : r.kind \in {"Added", "Categorized", "Deleted"} /\ r.at \in 0 .. stamp'
    BY <1>1 DEF FactTypes, Kept
  <2>2. QED
    BY <1>4, <2>1 DEF FactTypes
<1>8. PicturesAreKnown'
  <2>1. \A e \in B : entries[e].created \in 0 .. stamp
    BY <1>2 DEF FactTypes, Kept, EntryRow
  <2>2. \A c \in Backfillers \ {b} : (Waits(c) =>
          /\ DOMAIN Picture(c) \subseteq Entries
          /\ \A e \in DOMAIN Picture(c) :
               /\ Picture(c)[e].created \in 0 .. stamp
               /\ e \in Kept \/ Happened(e, "Deleted")
               /\ e \in Kept =>
                    /\ Picture(c)[e].created = entries[e].created
                    /\ Happened(e, "Categorized") \/ Picture(c)[e].label = entries[e].label)'
    BY <1>1, <1>6 DEF FactsInv, PicturesAreKnown, Kept, Happened
  <2>3. (/\ DOMAIN Picture(b) \subseteq Entries
         /\ \A e \in DOMAIN Picture(b) :
              /\ Picture(b)[e].created \in 0 .. stamp
              /\ e \in Kept \/ Happened(e, "Deleted")
              /\ e \in Kept =>
                   /\ Picture(b)[e].created = entries[e].created
                   /\ Happened(e, "Categorized") \/ Picture(b)[e].label = entries[e].label)'
    BY <1>1, <1>2, <1>5, <2>1 DEF Kept
  <2>4. QED
    BY <2>2, <2>3 DEF PicturesAreKnown
<1>9. LastBatchHasAll'
  <2>1. Cardinality(B) # BackfillSize => B = Missing
    <3>1. IsFiniteSet(Missing)
      BY <1>2, EntriesAssumption, FS_Subset
    <3>2. Cardinality(B) = IF Cardinality(Missing) < BackfillSize THEN Cardinality(Missing) ELSE BackfillSize
      BY DEF Batches
    <3>3. QED
      BY <1>2, <3>1, <3>2, FS_Subset
  <2>2. Missing' = Missing
    BY <1>1, RunFrame
  <2>3. filling'[b].at = "commit"
    BY <1>4
  <2>4. QED
    BY <1>2, <1>5, <1>6, <2>1, <2>2, <2>3 DEF FactsInv, LastBatchHasAll
<1>10. QED
  BY <1>1, <1>7, <1>8, <1>9, RunFrame DEF FactsInv

(* A commit that is not refused adds its Added event to each transaction of  *)
(* the batch.                                                                *)
LEMMA FilledShapes ==
  ASSUME NEW p, recorded' = recorded \cup Filled(p)
  PROVE  /\ \A f \in Entries \ DOMAIN p : Of(f)' = Of(f)
         /\ \A f \in DOMAIN p : \E y :
              /\ Of(f)' = Of(f) \cup {y} /\ y.kind = "Added"
              /\ y.at = p[f].created /\ y.category = p[f].label
         /\ \A f : \A kind :
              Happened(f, kind)' <=> Happened(f, kind) \/ (kind = "Added" /\ f \in DOMAIN p)
<1> DEFINE y(f) == [id |-> Cardinality(recorded) + f, tx |-> f, kind |-> "Added",
                    at |-> p[f].created, category |-> p[f].label]
<1>1. \A f : y(f).tx = f /\ y(f).kind = "Added" /\ y(f).at = p[f].created /\ y(f).category = p[f].label
  OBVIOUS
<1>2. recorded' = recorded \cup {y(f) : f \in DOMAIN p}
  BY DEF Filled
<1> HIDE DEF y
<1>3. \A f \in DOMAIN p : Of(f)' = Of(f) \cup {y(f)}
  BY <1>1, <1>2 DEF Of
<1>4. \A f \in Entries \ DOMAIN p : Of(f)' = Of(f)
  BY <1>1, <1>2 DEF Of
<1>5. \A f : \A kind : Happened(f, kind)' <=> Happened(f, kind) \/ (kind = "Added" /\ f \in DOMAIN p)
  BY <1>1, <1>2 DEF Happened
<1>6. QED
  BY <1>1, <1>3, <1>4, <1>5

(* Committing a batch keeps the invariant. *)
LEMMA CommitBatchKeepsFacts ==
  ASSUME FactTypes, FactsInv, NEW b \in Backfillers, CommitBatch(b)
  PROVE  FactTypes' /\ FactsInv'
<1> PICK p : p = Picture(b)
  OBVIOUS
<1> PICK at \in {"start", "failed", "done"} :
      /\ filling' = [filling EXCEPT ![b] = [at |-> at, batch |-> NoPicture]]
      /\ at = "done" => /\ ~\E e \in DOMAIN p : Happened(e, "Added")
                        /\ Cardinality(DOMAIN p) # BackfillSize
      /\ \/ recorded' = recorded
         \/ /\ ~\E e \in DOMAIN p : Happened(e, "Added")
            /\ recorded' = recorded \cup Filled(p)
      /\ at = "done" => recorded' = recorded \cup Filled(p)
  BY DEF CommitBatch, Picture
<1>1. Waits(b) /\ UNCHANGED <<entries, stamp>>
  BY DEF CommitBatch, Waits
<1>2. /\ \A c \in Backfillers \ {b} : filling'[c] = filling[c]
      /\ filling'[b] = [at |-> at, batch |-> NoPicture]
      /\ filling' = [c \in Backfillers |-> filling'[c]]
  BY DEF FactTypes
<1>3. \A c \in Backfillers \ {b} : UNCHANGED <<Waits(c), Picture(c), filling[c].at>>
  BY <1>2 DEF Waits, Picture
<1>4. ~Waits(b)' /\ filling'[b].at = at
  BY <1>2 DEF Waits
<1>5. /\ DOMAIN p \subseteq Entries
      /\ \A f \in DOMAIN p :
           /\ p[f].created \in 0 .. stamp
           /\ f \in Kept \/ Happened(f, "Deleted")
           /\ f \in Kept =>
                /\ p[f].created = entries[f].created
                /\ Happened(f, "Categorized") \/ p[f].label = entries[f].label
      /\ Cardinality(DOMAIN p) # BackfillSize => Missing \subseteq DOMAIN p
  BY <1>1 DEF FactsInv, PicturesAreKnown, LastBatchHasAll
<1>6. Kept' = Kept /\ Kept \subseteq Entries /\ \A f : Happened(f, "Added") <=> \E r \in Of(f) : r.kind = "Added"
  BY <1>1 DEF Kept, Of, Happened
<1>7. ASSUME \A f : \A kind : Happened(f, kind) => Happened(f, kind)'
      PROVE  PicturesAreKnown'
  BY <1>1, <1>3, <1>4, <1>6, <1>7 DEF FactsInv, PicturesAreKnown
<1>8. ASSUME Missing' \subseteq Missing, at = "done" => Missing' = {}
      PROVE  LastBatchHasAll'
  BY <1>3, <1>4, <1>8 DEF FactsInv, LastBatchHasAll
<1>9. CASE recorded' = recorded /\ at # "done"
  <2>1. FactTypes'
    BY <1>1, <1>2, <1>6, <1>9 DEF FactTypes
  <2>2. RecordedOnce' /\ NewestIsTrue' /\ Missing' = Missing
    BY <1>1, <1>9, RunFrame
  <2>3. \A f : \A kind : Happened(f, kind) => Happened(f, kind)'
    BY <1>9 DEF Happened
  <2>4. QED
    BY <1>7, <1>8, <1>9, <2>1, <2>2, <2>3 DEF FactsInv
<1>10. CASE recorded' = recorded \cup Filled(p) /\ ~\E e \in DOMAIN p : Happened(e, "Added")
  <2>1. /\ \A f \in Entries \ DOMAIN p : Of(f)' = Of(f)
        /\ \A f \in DOMAIN p : \E y :
             /\ Of(f)' = Of(f) \cup {y} /\ y.kind = "Added"
             /\ y.at = p[f].created /\ y.category = p[f].label
        /\ \A f : \A kind :
             Happened(f, kind)' <=> Happened(f, kind) \/ (kind = "Added" /\ f \in DOMAIN p)
    BY <1>10, FilledShapes
  <2>2. FactTypes'
    <3>1. \A r \in recorded' : r.kind \in {"Added", "Categorized", "Deleted"} /\ r.at \in 0 .. stamp'
      BY <1>1, <1>5, <1>10 DEF FactTypes, Filled
    <3>2. QED
      BY <1>1, <1>2, <1>6, <3>1 DEF FactTypes
  <2>3. RecordedOnce'
    <3> SUFFICES ASSUME NEW f \in Entries
                 PROVE  (/\ \A r, q \in Of(f) : r.kind = "Added" /\ q.kind = "Added" => r = q
                         /\ f \in Kept => ~Happened(f, "Deleted")
                         /\ (f \notin Kept /\ Of(f) # {}) => Happened(f, "Deleted"))'
      BY DEF RecordedOnce
    <3>1. CASE f \notin DOMAIN p
      BY <1>6, <2>1, <3>1 DEF FactsInv, RecordedOnce
    <3>2. CASE f \in DOMAIN p
      <4> PICK y : /\ Of(f)' = Of(f) \cup {y} /\ y.kind = "Added"
                   /\ y.at = p[f].created /\ y.category = p[f].label
        BY <2>1, <3>2
      <4>1. ~\E r \in Of(f) : r.kind = "Added"
        BY <1>6, <1>10, <3>2
      <4>2. QED
        BY <1>5, <1>6, <2>1, <3>2, <4>1 DEF FactsInv, RecordedOnce
    <3>3. QED
      BY <3>1, <3>2
  <2>4. NewestIsTrue'
    <3> SUFFICES ASSUME NEW f \in Kept'
                 PROVE  (/\ Of(f) # {} => RM!Newest(Of(f)) # {}
                         /\ \A r \in RM!Newest(Of(f)) : r.category = entries[f].label
                         /\ \A r \in Of(f) : r.kind = "Categorized" => entries[f].created < r.at)'
      BY DEF NewestIsTrue
    <3>0. /\ f \in Kept /\ f \in Entries
          /\ Of(f) # {} => RM!Newest(Of(f)) # {}
          /\ \A r \in RM!Newest(Of(f)) : r.category = entries[f].label
          /\ \A r \in Of(f) : r.kind = "Categorized" => entries[f].created < r.at
      BY <1>6 DEF FactsInv, NewestIsTrue
    <3>1. CASE f \notin DOMAIN p
      BY <1>1, <2>1, <3>0, <3>1 DEF RM!Newest
    <3>2. CASE f \in DOMAIN p
      <4> PICK y : /\ Of(f)' = Of(f) \cup {y} /\ y.kind = "Added"
                   /\ y.at = p[f].created /\ y.category = p[f].label
        BY <2>1, <3>2
      <4>1. y.at = entries[f].created /\ entries[f].created \in Nat
        BY <1>5, <3>0, <3>2 DEF FactTypes, Kept, EntryRow
      <4>2. \A r \in Of(f) : r.at \in Nat /\ r.kind = "Categorized" /\ y.at < r.at
        <5> TAKE r \in Of(f)
        <5>1. r.kind # "Added"
          BY <1>6, <1>10, <3>2
        <5>2. r.kind # "Deleted"
          BY <3>0 DEF FactsInv, RecordedOnce, Happened, Of
        <5>3. r.at \in Nat /\ r.kind \in {"Added", "Categorized", "Deleted"}
          BY DEF FactTypes, Of
        <5>4. QED
          BY <3>0, <4>1, <5>1, <5>2, <5>3
      <4>3. CASE Of(f) = {}
        <5>1. ~Happened(f, "Categorized")
          BY <4>3 DEF Happened, Of
        <5>2. y.category = entries[f].label
          BY <1>5, <3>0, <3>2, <5>1
        <5>3. Of(f)' = {y} /\ RM!Newest(Of(f)') = {y}
          BY <4>1, <4>3 DEF RM!Newest
        <5>4. QED
          BY <1>1, <5>2, <5>3 DEF RM!Newest
      <4>4. CASE Of(f) # {}
        <5>1. RM!Newest(Of(f)') = RM!Newest(Of(f))
          BY <4>1, <4>2, <4>4 DEF RM!Newest
        <5>2. QED
          BY <1>1, <3>0, <4>4, <5>1 DEF RM!Newest
      <4>5. QED
        BY <4>3, <4>4
    <3>3. QED
      BY <3>1, <3>2
  <2>5. PicturesAreKnown'
    BY <1>7, <2>1
  <2>6. Missing' \subseteq Missing /\ Missing' \cap DOMAIN p = {}
    BY <1>6, <2>1 DEF Missing
  <2>7. LastBatchHasAll'
    BY <1>5, <1>8, <2>6
  <2>8. QED
    BY <2>2, <2>3, <2>4, <2>5, <2>7 DEF FactsInv
<1>11. QED
  BY <1>9, <1>10

(* Every step keeps the invariant. *)
LEMMA FactsNext ==
  FactTypes /\ FactsInv /\ [NextMaintenance]_maintenanceVars => FactTypes' /\ FactsInv'
<1> SUFFICES ASSUME FactTypes, FactsInv, [NextMaintenance]_maintenanceVars
             PROVE  FactTypes' /\ FactsInv'
  OBVIOUS
<1>1. CASE NextRequest
  BY <1>1, RequestShapes, RequestKeepsFacts
<1>2. ASSUME UNCHANGED <<recorded, entries, stamp, filling>> PROVE FactTypes' /\ FactsInv'
  BY <1>2 DEF FactTypes, FactsInv, RecordedOnce, NewestIsTrue, RM!Newest, PicturesAreKnown,
     LastBatchHasAll, Missing, Kept, Of, Happened, Waits, Picture
<1>3. CASE NextAudit
  BY <1>2, <1>3 DEF NextAudit, StartAudit, ReadBalances, ReadMovements, Fix, requestVars
<1>4. CASE NextBackfill
  BY <1>4, ReadBatchKeepsFacts, CommitBatchKeepsFacts DEF NextBackfill
<1>5. CASE UNCHANGED maintenanceVars
  BY <1>2, <1>5 DEF maintenanceVars, requestVars
<1>6. QED
  BY <1>1, <1>3, <1>4, <1>5 DEF NextMaintenance

(* Whatever the users commit and however many runs fill at once, what the    *)
(* read model will show is what the table says, Added is recorded once, and  *)
(* a run that ended well leaves no transaction without it.                   *)
THEOREM BackfillsConverge == SpecMaintenance => []BackfillConverges
<1>1. InitMaintenance => FactTypes /\ FactsInv
  <2> SUFFICES ASSUME InitMaintenance PROVE FactTypes /\ FactsInv
    OBVIOUS
  <2>1. /\ entries \in [Entries -> EntryRow \cup {NoEntryRow}] /\ stamp = 0 /\ recorded = {}
        /\ filling = [b \in Backfillers |-> [at |-> "start", batch |-> NoPicture]]
        /\ \A e \in Kept : entries[e].created = 0
    BY EntriesAssumption DEF InitMaintenance, EntryRow, Kept
  <2>2. FactTypes
    BY <2>1 DEF FactTypes
  <2>3. FactsInv
    BY <2>1 DEF FactsInv, RecordedOnce, NewestIsTrue, RM!Newest, PicturesAreKnown, LastBatchHasAll,
       Of, Happened, Waits
  <2>4. QED
    BY <2>2, <2>3
<1>2. FactTypes /\ FactsInv => BackfillConverges
  <2> SUFFICES ASSUME FactTypes, FactsInv PROVE BackfillConverges
    OBVIOUS
  <2>1. ASSUME NEW e \in Entries, Happened(e, "Added")
        PROVE  /\ RM!Views(Of(e)) = {IF e \in Kept THEN entries[e].label ELSE Erased}
               /\ Cardinality({r \in recorded : r.tx = e /\ r.kind = "Added"}) = 1
    <3>1. PICK r \in Of(e) : r.kind = "Added"
      BY <2>1 DEF Happened, Of
    <3>2. {q \in recorded : q.tx = e /\ q.kind = "Added"} = {r}
      BY <3>1 DEF FactsInv, RecordedOnce, Of
    <3>3. CASE e \in Kept
      <4>1. /\ RM!Newest(Of(e)) # {} /\ \A q \in RM!Newest(Of(e)) : q.category = entries[e].label
            /\ ~\E q \in Of(e) : q.kind = "Deleted"
        BY <3>1, <3>3 DEF FactsInv, NewestIsTrue, RecordedOnce, Happened, Of
      <4>2. RM!Views(Of(e)) = {q.category : q \in RM!Newest(Of(e))}
        BY <4>1 DEF RM!Views
      <4>3. RM!Views(Of(e)) = {entries[e].label}
        BY <4>1, <4>2
      <4>4. QED
        BY <3>2, <3>3, <4>3, FS_Singleton
    <3>4. CASE e \notin Kept
      <4>1. \E q \in Of(e) : q.kind = "Deleted"
        BY <3>1, <3>4 DEF FactsInv, RecordedOnce, Happened, Of
      <4>2. QED
        BY <3>2, <3>4, <4>1, FS_Singleton DEF RM!Views
    <3>5. QED
      BY <3>3, <3>4
  <2>2. QED
    BY <2>1 DEF BackfillConverges, Of, FactsInv, LastBatchHasAll
<1>3. QED
  BY <1>1, <1>2, FactsNext, PTL DEF SpecMaintenance, NextMaintenance
=============================================================================
