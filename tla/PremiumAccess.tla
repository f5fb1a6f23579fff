----------------------------- MODULE PremiumAccess -----------------------------
(***************************************************************************)
(* INV-06: what analytics-service and recommendation-service let a user    *)
(* see.  Each request asks the entitlements of subscription-service, behind *)
(* a Redis cache that both services share, and decides by its clock.       *)
(***************************************************************************)
EXTENDS PaidPeriods

CONSTANTS
  Requests,     \* requests served at the same time
  NoRequest,
  NoEntry,      \* the cache has no entry for the user
  CacheSeconds  \* longest life of a cache entry

ASSUME AccessAssumption == CacheSeconds \in Nat

(* What is asked for, by what it takes to get it.  "recent" is a month of  *)
(* the free window of three, "old" one before it.                          *)
Routes ==
  [kind : {"premium", "partial"}, month : {"recent"}]
    \cup [kind : {"dashboard", "report"}, month : {"recent", "old"}]

VARIABLES
  cache,  \* cache[u]: the entry of u: the end it says, and its own end
  asking  \* asking[s]: the request s serves

accessVars == <<paidVars, cache, asking>>

InitAccess ==
  /\ InitPaid
  /\ cache = [u \in Payers |-> NoEntry]
  /\ asking = [s \in Requests |-> NoRequest]

-----------------------------------------------------------------------------
Current(u) == {p \in paid[u] : instant < p.end}

(* Entitlement.of: the end of the period that gives access, 0 for none;    *)
(* cancelling takes none away.                                             *)
Entitlement(u) == IF Current(u) = {} THEN 0 ELSE (CHOOSE p \in Current(u) : TRUE).end

IsPremium(until) == instant < until

(* had is what u is entitled to when its request arrives. *)
Request(u, phase, until) ==
  [user |-> u, had |-> Entitlement(u), phase |-> phase, until |-> until, access |-> "unknown"]

(* A hit is an entry that still says premium; Redis not answering is a     *)
(* miss.                                                                   *)
Arrive(s, u) ==
  /\ asking[s] = NoRequest
  /\ \/ /\ cache[u] # NoEntry /\ instant < cache[u].expires /\ IsPremium(cache[u].until)
        /\ asking' = [asking EXCEPT ![s] = Request(u, "found", cache[u].until)]
     \/ asking' = [asking EXCEPT ![s] = Request(u, "missed", 0)]
  /\ UNCHANGED <<paidVars, cache>>

(* subscription-service answers; a failure of any kind denies what is      *)
(* premium.                                                                *)
Consult(s) ==
  /\ asking[s] # NoRequest /\ asking[s].phase = "missed"
  /\ \/ asking' = [asking EXCEPT ![s].phase = "answered",
                                  ![s].until = Entitlement(asking[s].user)]
     \/ asking' = [asking EXCEPT ![s].phase = "decided", ![s].access = "unavailable"]
  /\ UNCHANGED <<paidVars, cache>>

LesserOf(a, b) == IF a <= b THEN a ELSE b

(* Only a positive answer is cached, and never beyond its period; Redis    *)
(* not answering loses the entry.                                          *)
WriteCache(s) ==
  LET until == asking[s].until IN
  /\ asking[s] # NoRequest /\ asking[s].phase = "answered"
  /\ asking' = [asking EXCEPT ![s].phase = "found"]
  /\ \/ /\ IsPremium(until)
        /\ cache' = [cache EXCEPT ![asking[s].user] =
             [until |-> until, expires |-> LesserOf(instant + CacheSeconds, until)]]
     \/ UNCHANGED cache
  /\ UNCHANGED paidVars

DecideByAnswer(s) ==
  /\ asking[s] # NoRequest /\ asking[s].phase = "found"
  /\ asking' = [asking EXCEPT ![s].phase = "decided",
                  ![s].access = IF asking[s].until # 0 THEN "premium" ELSE "free"]
  /\ UNCHANGED <<paidVars, cache>>

(* The gating looks at its clock once more. *)
Decide(s) ==
  /\ asking[s] # NoRequest /\ asking[s].phase = "found"
  /\ asking' = [asking EXCEPT ![s].phase = "decided",
                  ![s].access = IF IsPremium(asking[s].until) THEN "premium" ELSE "free"]
  /\ UNCHANGED <<paidVars, cache>>

(* What the answer to a route has: "locked" is without its premium part.    *)
Denial(access) == IF access = "unavailable" THEN "503" ELSE "403"

(* enforce_entitlements, on a route that is premium as a whole. *)
WholeRoute(access) == IF access = "premium" THEN "full" ELSE Denial(access)

(* investment_lock: the recommendations go without those of investment.     *)
PartialRoute(access) == IF access = "premium" THEN "full" ELSE "locked"

(* enforce_entitlements and require_visible_period: a report of a visible   *)
(* month does not ask for the plan.                                        *)
PeriodRoute(route, access) ==
  IF access = "premium" \/ (route.kind = "report" /\ route.month = "recent") THEN "full"
  ELSE IF route.kind = "dashboard" /\ route.month = "recent" THEN "locked"
  ELSE Denial(access)

Outcome(route, access) ==
  CASE route.kind = "premium" -> WholeRoute(access)
    [] route.kind = "partial" -> PartialRoute(access)
    [] OTHER -> PeriodRoute(route, access)

Respond(s) ==
  /\ asking[s] # NoRequest /\ asking[s].phase = "decided"
  /\ asking' = [asking EXCEPT ![s] = NoRequest]
  /\ UNCHANGED <<paidVars, cache>>

NextAccess ==
  \/ NextPaid /\ UNCHANGED <<cache, asking>>
  \/ \E s \in Requests :
       \/ \E u \in Payers : Arrive(s, u)
       \/ Consult(s) \/ WriteCache(s)
       \/ Decide(s) \/ Respond(s)

SpecAccess == InitAccess /\ [][NextAccess]_accessVars

-----------------------------------------------------------------------------
(* INV-06 at the instant it is decided, through a cache that outlives the  *)
(* question and a request that outlives the answer: premium content only   *)
(* goes to a user with a period that is paid and not over; and whoever was *)
(* entitled when the request arrived, and still is, is not refused as      *)
(* FREE, because no negative answer is remembered.                         *)
AccessFollowsPayment ==
  [][\A s \in Requests :
       LET r == asking'[s] IN
       (r # NoRequest /\ asking[s] # r /\ r.phase = "decided") =>
         \A route \in Routes \ [kind : {"report"}, month : {"recent"}] :
           /\ Outcome(route, r.access) = "full" =>
                \E p \in paid[r.user] : p.start <= instant /\ instant < p.end
           /\ instant < r.had => Outcome(route, r.access) # "403"]_accessVars
=============================================================================
