---------------------------- MODULE DriftSentinel ----------------------------
(***************************************************************************)
(* DriftSentinel of src/humanlike_agent/drift.py: one session's evidence   *)
(* of drift, and when it asks for the persona to be re-anchored.  A probe  *)
(* is what its score makes of it: calm, a breach of the threshold, or      *)
(* severe, a failed truth boundary, which always breaches it.  Of the      *)
(* scores kept for inspection only their number counts.                    *)
(***************************************************************************)
EXTENDS Integers

CONSTANTS ConsecutiveRequired, CooldownTurns, HistoryLimit

ASSUME SentinelAssumption ==
    /\ ConsecutiveRequired \in 1..8
    /\ CooldownTurns \in 0..64
    /\ HistoryLimit \in 1..32
    /\ ConsecutiveRequired <= HistoryLimit

Probes == {"calm", "breach", "severe"}
Breached(probe) == probe # "calm"

Sentinel == [breaches : 0..ConsecutiveRequired, cooldown : 0..CooldownTurns,
             scores : 0..HistoryLimit]
NewSentinel == [breaches |-> 0, cooldown |-> 0, scores |-> 0]

CoolingDown(drift) == drift.cooldown > 0
\* A slip: breaches are counted while cooling down.
BreachesAlways(drift, probe) == IF Breached(probe) THEN drift.breaches + 1 ELSE 0
Breaches(drift, probe) ==
    IF Breached(probe) /\ ~CoolingDown(drift) THEN drift.breaches + 1 ELSE 0
\* A slip: a severe probe is answered while cooling down.
AnchorsWhenSevere(drift, probe) ==
    probe = "severe" \/ Breaches(drift, probe) >= ConsecutiveRequired
Anchors(drift, probe) ==
    /\ ~CoolingDown(drift)
    /\ probe = "severe" \/ Breaches(drift, probe) >= ConsecutiveRequired

CooledDown(drift) == IF CoolingDown(drift) THEN drift.cooldown - 1 ELSE 0

Evaluate(drift, probe) ==
    [breaches |-> IF Anchors(drift, probe) THEN 0 ELSE Breaches(drift, probe),
     cooldown |-> IF Anchors(drift, probe) THEN CooldownTurns ELSE CooledDown(drift),
     scores |-> IF drift.scores < HistoryLimit THEN drift.scores + 1 ELSE HistoryLimit]

(***************************************************************************)
(* What the constructors of a decision and of a snapshot insist on.  They  *)
(* run after the sentinel has moved on: a decision that is refused loses   *)
(* the re-anchor it carries while the cooldown it started goes on.         *)
(***************************************************************************)
DecisionAccepted(drift, probe) ==
    LET next == Evaluate(drift, probe)
        requested == Anchors(drift, probe)
    IN /\ next.breaches > 0 => ~requested /\ ~CoolingDown(drift) /\ Breached(probe)
       /\ requested => Breached(probe) /\ ~CoolingDown(drift)
       /\ probe = "severe" => requested \/ CoolingDown(drift)
       /\ next.cooldown > 0 => requested \/ CoolingDown(drift)
       /\ next.breaches <= 8 /\ next.cooldown <= 64
SnapshotAccepted(drift) ==
    /\ drift.breaches <= drift.scores
    /\ drift.breaches = 0 \/ drift.cooldown = 0
    /\ drift.scores = 0 => drift.breaches = 0 /\ drift.cooldown = 0
=============================================================================
