------------------------------ MODULE MCRouter ------------------------------
(***************************************************************************)
(* Instances of Router for TLC.  Two request routes share topic t1 (the   *)
(* second piggybacks on the subscription of the first); two response       *)
(* routes with correlation ids of their own share topic t2.                *)
(***************************************************************************)
EXTENDS Router

CONSTANTS s1, s2, s3, t1, t2, c1, c2

\* Three channels of one topic.
MCTopicOne == [s \in Subs |-> t1]
MCCidOne == [s \in Subs |-> NoCid]

\* Two response routes of one topic, and an event route on another.
MCTopicResponses == [s \in Subs |-> IF s = s3 THEN t1 ELSE t2]
MCCidResponses == [s \in Subs |-> IF s = s1 THEN c1 ELSE IF s = s2 THEN c2
                                  ELSE NoCid]
=============================================================================
