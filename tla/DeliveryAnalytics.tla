-------------------------- MODULE DeliveryAnalytics --------------------------
(***************************************************************************)
(* The supervisor's analytics next to the deliveries it counts.            *)
(*                                                                         *)
(* GET /api/analytics/complaints runs five SELECTs in one transaction; at  *)
(* READ COMMITTED each of them sees what is committed when it starts.  The *)
(* delivery percentage divides a count of the first, the created tasks, by *)
(* a count of the third, the confirmed candidates.  Every candidate here   *)
(* has a complaint, which both statements ask for.                         *)
(***************************************************************************)
EXTENDS Delivery

VARIABLES
    stage,      \* how far the reader is
    total,      \* total_complaints
    confirmed   \* confirmed_candidates

reader  == <<stage, total, confirmed>>
allVars == <<vars, reader>>

CountCreated ==
    /\ stage = "idle"
    /\ total' = Cardinality({c \in Candidates : task[c] = "created"})
    /\ stage' = "counted"
    /\ UNCHANGED <<vars, confirmed>>

CountConfirmed ==
    /\ stage = "counted"
    /\ confirmed' = Cardinality({c \in Candidates : review[c] = "confirmed"})
    /\ stage' = "answered"
    /\ UNCHANGED <<vars, total>>

(* delivery_success_percent, whose rounding is monotonic. *)
DeliverySuccessPercent ==
    IF confirmed = 0 THEN 0 ELSE (total * 100) \div confirmed

AnalyticsInit == Init /\ stage = "idle" /\ total = 0 /\ confirmed = 0

AnalyticsNext == (Next /\ UNCHANGED reader) \/ CountCreated \/ CountConfirmed

AnalyticsSpec == AnalyticsInit /\ [][AnalyticsNext]_allVars

-----------------------------------------------------------------------------
(* schemas.py: delivery_success_percent is Field(ge=0, le=100).  A call deleted
   between the two statements leaves more created tasks than confirmed
   candidates, and the response fails its own validation.                    *)
PercentInRange ==
    stage = "answered" => DeliverySuccessPercent \in 0 .. 100
=============================================================================
