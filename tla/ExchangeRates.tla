----------------------------- MODULE ExchangeRates -----------------------------
(***************************************************************************)
(* recommendation-service: ExchangeRateService over the Redis cache, the   *)
(* public TRM service and the fixed rate.  A rate is known here by the day *)
(* it was fetched and by the source the answer names.                      *)
(***************************************************************************)
EXTENDS Naturals

CONSTANTS
  Askers,     \* requests served at the same time
  Unasked,    \* the asker serves no request
  NoRate,
  LastDay     \* bound of the model on the calendar

ASSUME RatesAssumption == LastDay \in Nat

VARIABLES
  day,        \* the local date
  dayRate,    \* dayRate[d]: the key of day d, gone when the day is over
  lastRate,   \* the key of the last known rate, which never expires
  asks        \* asks[s]: the request s serves

rateVars == <<day, dayRate, lastRate, asks>>

InitRates ==
  /\ day = 0
  /\ dayRate = [d \in 0 .. LastDay |-> NoRate]
  /\ lastRate = NoRate
  /\ asks = [s \in Askers |-> Unasked]

-----------------------------------------------------------------------------
IsAt(s, phase) == asks[s] # Unasked /\ asks[s].phase = phase

Answered(r, source, fetched) == [r EXCEPT !.phase = "answered", !.source = source, !.fetched = fetched]

(* The cache of the day, which is empty when Redis does not answer. *)
AskRate(s) ==
  LET r == [phase |-> "calling", today |-> day, source |-> "none", fetched |-> NoRate,
            apiDown |-> FALSE]
  IN  /\ asks[s] = Unasked
      /\ \/ /\ dayRate[day] # NoRate
            /\ asks' = [asks EXCEPT ![s] = Answered(r, "cached", dayRate[day])]
         \/ asks' = [asks EXCEPT ![s] = r]
      /\ UNCHANGED <<day, dayRate, lastRate>>

CallApi(s) ==
  /\ IsAt(s, "calling")
  /\ \/ asks' = [asks EXCEPT ![s].phase = "storing"]
     \/ asks' = [asks EXCEPT ![s].phase = "degrading", ![s].apiDown = TRUE]
  /\ UNCHANGED <<day, dayRate, lastRate>>

StoreForTheDayItIs(s) ==
  LET r == asks[s] IN
  /\ IsAt(s, "storing")
  /\ asks' = [asks EXCEPT ![s] = Answered(r, "live", r.today)]
  /\ dayRate' = [dayRate EXCEPT ![day] = r.today] /\ lastRate' = r.today
  /\ UNCHANGED day

(* The live rate is kept for the day the request began in, and as the last *)
(* known one; the two keys are written in one Redis transaction, or the    *)
(* failure is ignored.                                                     *)
StoreRate(s) ==
  LET r == asks[s] IN
  /\ IsAt(s, "storing")
  /\ asks' = [asks EXCEPT ![s] = Answered(r, "live", r.today)]
  /\ \/ dayRate' = [dayRate EXCEPT ![r.today] = r.today] /\ lastRate' = r.today
     \/ UNCHANGED <<dayRate, lastRate>>
  /\ UNCHANGED day

(* The last known rate, or the fixed one if there is none or Redis does    *)
(* not answer.                                                             *)
DegradeRate(s) ==
  LET r == asks[s] IN
  /\ IsAt(s, "degrading")
  /\ \/ /\ lastRate # NoRate
        /\ asks' = [asks EXCEPT ![s] = Answered(r, "cached", lastRate)]
     \/ asks' = [asks EXCEPT ![s] = Answered(r, "fallback", NoRate)]
  /\ UNCHANGED <<day, dayRate, lastRate>>

RespondRate(s) ==
  /\ IsAt(s, "answered")
  /\ asks' = [asks EXCEPT ![s] = Unasked]
  /\ UNCHANGED <<day, dayRate, lastRate>>

(* Midnight.  The time to live of a day's key was counted from the         *)
(* beginning of its request: the key of an earlier day may still be there  *)
(* and nobody reads it.                                                    *)
Midnight ==
  /\ day < LastDay
  /\ day' = day + 1
  /\ UNCHANGED <<dayRate, lastRate, asks>>

NextRates ==
  \/ \E s \in Askers :
       AskRate(s) \/ CallApi(s) \/ StoreRate(s) \/ DegradeRate(s) \/ RespondRate(s)
  \/ Midnight

SpecRates == InitRates /\ [][NextRates]_rateVars

-----------------------------------------------------------------------------
(* ADR-12: an answer says where its rate comes from, and only falls as far *)
(* as the failures it met: with the TRM service up it is the rate of the   *)
(* day of the request, however many others ran across midnight, and the    *)
(* fixed rate is for when there is nothing better to be had.               *)
RatesDegradeInOrder ==
  \A s \in Askers :
    IsAt(s, "answered") =>
      LET r == asks[s] IN
      /\ ~r.apiDown => r.source \in {"live", "cached"} /\ r.fetched = r.today
      /\ r.source = "fallback" => r.apiDown
      /\ r.source = "cached" => r.fetched <= day
=============================================================================
