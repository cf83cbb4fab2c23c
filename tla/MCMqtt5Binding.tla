--------------------------- MODULE MCMqtt5Binding ---------------------------
(***************************************************************************)
(* Instances of Mqtt5Binding for TLC: calls on one topic, with a share    *)
(* name, without, or one of each.                                          *)
(***************************************************************************)
EXTENDS Mqtt5Binding

CONSTANTS s1, s2, t1, g1

MCTopicOne == [s \in Subs |-> t1]
MCPlain == [s \in Subs |-> NoShare]
MCMixed == [s \in Subs |-> IF s = s1 THEN g1 ELSE NoShare]
MCShared == [s \in Subs |-> g1]
=============================================================================
