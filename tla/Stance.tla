-------------------------------- MODULE Stance --------------------------------
(***************************************************************************)
(* decide_stance of src/humanlike_agent/stance.py: whether to give in to a *)
(* correction, by fixed precedence, and the checks a decision makes of     *)
(* itself.  A metric, a number from 0 to 1, is taken in hundredths, in     *)
(* which all its thresholds are.                                           *)
(***************************************************************************)
EXTENDS Contracts, Sequences

Metric == 0..100
StanceProbe == [claim : Metric, evidence : Metric, correction : Metric, pressure : Metric,
                stakes : Metric, support : BOOLEAN, mode : Modes]

Stakes(probe) == probe.mode = "high_stakes" \/ probe.stakes >= 75
Threshold(probe) == IF Stakes(probe) THEN 85 ELSE 70

Persuades(probe) ==
    probe.correction >= Threshold(probe) /\ probe.evidence >= Threshold(probe)
Pressed(probe) ==
    /\ probe.pressure >= 70 /\ probe.evidence >= 50
    /\ probe.correction < probe.evidence
BestSupported(probe) ==
    /\ probe.claim >= Threshold(probe) /\ probe.evidence >= Threshold(probe)
    /\ probe.correction < 40
Uncertain(probe) == probe.correction >= 40 \/ probe.evidence >= 40

Reason(probe) ==
    IF Persuades(probe) THEN "strong_correction"
    ELSE IF Pressed(probe) THEN "unsupported_pressure"
    ELSE IF BestSupported(probe) THEN "best_supported_position"
    ELSE IF Uncertain(probe) THEN "uncertain_evidence"
    ELSE "insufficient_information"

ActionFor ==
    [strong_correction |-> "accept_correction", unsupported_pressure |-> "hold",
     best_supported_position |-> "hold", uncertain_evidence |-> "verify",
     insufficient_information |-> "clarify"]
StanceActions == {"accept_correction", "hold", "verify", "clarify"}

DecideStance(probe) ==
    [action |-> ActionFor[Reason(probe)],
     threshold |-> Threshold(probe),
     reasons |-> <<Reason(probe)>>
        \o (IF Stakes(probe) THEN <<"high_stakes_threshold">> ELSE <<>>)
        \o (IF Reason(probe) = "unsupported_pressure" /\ probe.support
            THEN <<"support_without_agreement">> ELSE <<>>)]

-----------------------------------------------------------------------------
(* StanceDecision.__post_init__ *)

Names(decision, reason) ==
    \E i \in 1..Len(decision.reasons) : decision.reasons[i] = reason
Canonical(decision) ==
    <<decision.reasons[1]>>
    \o (IF decision.threshold = 85 THEN <<"high_stakes_threshold">> ELSE <<>>)
    \o (IF Names(decision, "support_without_agreement")
        THEN <<"support_without_agreement">> ELSE <<>>)

StanceAccepted(decision) ==
    /\ decision.action \in StanceActions
    /\ decision.threshold \in {70, 85}
    /\ decision.reasons # <<>>
    /\ decision.reasons[1] \in DOMAIN ActionFor
    /\ ActionFor[decision.reasons[1]] = decision.action
    /\ Names(decision, "high_stakes_threshold") <=> decision.threshold = 85
    /\ Names(decision, "support_without_agreement")
          => decision.reasons[1] = "unsupported_pressure"
    /\ decision.reasons = Canonical(decision)
=============================================================================
