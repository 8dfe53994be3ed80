---------------------------- MODULE MCConformance ----------------------------
(* Two cases, one of two steps.  What was on disk makes no difference once *)
(* the pack is loaded.                                                     *)
EXTENDS Conformance
MCPath == <<"root", "data", "foundation">>
MCCases == << <<{"route", "policy"}, {"policy", "drift"}>>, <<{"drift"}>> >>
Live == IF at = "loaded" /\ (case # 1 \/ step # 1) THEN <<running>> ELSE vars
=============================================================================
