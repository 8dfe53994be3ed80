------------------------------ MODULE Conformance ------------------------------
(***************************************************************************)
(* run_conformance of src/humanlike_agent/evals.py: every case of a suite  *)
(* is run against a runtime of its own, and what did not turn out as the   *)
(* case expects is reported, by case and by dimension.  What a plan and a  *)
(* receipt turn out to be is any of what the expectation can find in them. *)
(***************************************************************************)
EXTENDS PackFiles

CONSTANTS Cases  \* the suite: of each case, the dimensions its steps expect of

Dimensions == {"route", "social_move", "privacy", "context_budget", "policy",
               "disclosure", "stance", "memory", "drift"}
ASSUME CasesAssumption ==
    /\ Cases \in Seq(Seq(SUBSET Dimensions)) /\ Cases # <<>>
    /\ \A i \in DOMAIN Cases :
          /\ Len(Cases[i]) \in 1..3
          /\ \A j \in DOMAIN Cases[i] : Cases[i][j] # {}

VARIABLES
    case, step, \* the case that runs, and the step it is at
    seen,       \* what its steps expected of
    codes,      \* what did not turn out as expected
    coverage, dimension_failures,  \* of each dimension, cases
    passed,     \* of each case that ended
    missed,     \* history: cases and dimensions that were not as expected
    raised      \* history: cases that raised

running == <<case, step, seen, codes, coverage, dimension_failures, passed, missed, raised>>
vars == <<loading, running>>

Init ==
    /\ LoadInit
    /\ case = 1 /\ step = 1 /\ seen = {} /\ codes = {}
    /\ coverage = [d \in Dimensions |-> {}]
    /\ dimension_failures = [d \in Dimensions |-> {}]
    /\ passed = <<>> /\ missed = {} /\ raised = {}

Running == at = "loaded" /\ case \in DOMAIN Cases
Expected(c) == UNION {Cases[c][i] : i \in DOMAIN Cases[c]}

\* What a dimension is reported as: a policy can miss and have too much.
CodesOf(d) ==
    [dimension : {d}, code : IF d = "policy" THEN {"missing", "forbidden"} ELSE {"mismatch"}]

\* One step: the turn is prepared and observed, and both are looked at.
EvaluateStep ==
    /\ Running /\ step \in DOMAIN Cases[case]
    /\ \E found \in SUBSET UNION {CodesOf(d) : d \in Cases[case][step]} :
          /\ codes' = codes \cup found
          /\ missed' = missed \cup {<<case, code.dimension>> : code \in found}
    /\ seen' = seen \cup Cases[case][step]
    /\ step' = step + 1
    /\ UNCHANGED <<loading, case, coverage, dimension_failures, passed, raised>>

\* What a case leaves: dimensions it covers, those it failed, whether it passed.
Report(covered, failed, ok) ==
    /\ coverage' =
          [d \in Dimensions |-> coverage[d] \cup {c \in {case} : d \in covered}]
    /\ dimension_failures' =
          [d \in Dimensions |-> dimension_failures[d] \cup {c \in {case} : d \in failed}]
    /\ passed' = Append(passed, ok)
    /\ case' = case + 1 /\ step' = 1 /\ seen' = {} /\ codes' = {}
    /\ UNCHANGED loading

EndCase ==
    /\ Running /\ step \notin DOMAIN Cases[case]
    /\ Report(seen, {code.dimension : code \in codes}, codes = {})
    /\ UNCHANGED <<missed, raised>>

\* A slip: a case that raises failed no more than what it found.
CaseRaisesQuietly ==
    /\ Running
    /\ Report(Expected(case), {code.dimension : code \in codes}, codes = {})
    /\ raised' = raised \cup {case} /\ UNCHANGED missed

\* Anything in a case may raise: it fails in all it expects of.
CaseRaises ==
    /\ Running
    /\ Report(Expected(case), Expected(case), Expected(case) = {})
    /\ raised' = raised \cup {case} /\ UNCHANGED missed

Next ==
    \/ Load /\ UNCHANGED running
    \/ Interfere /\ UNCHANGED running
    \/ EvaluateStep \/ EndCase \/ CaseRaises

Spec == Init /\ [][Next]_vars

-----------------------------------------------------------------------------
FailedCount == Cardinality({c \in DOMAIN passed : ~passed[c]})
DimensionPasses(d) == coverage[d] # {} /\ dimension_failures[d] = {}
Reported == at = "loaded" /\ case \notin DOMAIN Cases

(***************************************************************************)
(* The report of a suite says what happened: a case passed if nothing in   *)
(* it raised and all turned out as expected, a dimension if that is so of  *)
(* what is expected of it and something is; it counts every case, and no   *)
(* dimension fails in a suite whose cases all passed, nor the reverse.     *)
(***************************************************************************)
ReportHonest ==
    Reported =>
        /\ DOMAIN passed = DOMAIN Cases
        /\ \A c \in DOMAIN Cases :
              passed[c] <=> c \notin raised /\ \A d \in Dimensions : <<c, d>> \notin missed
        /\ \A d \in Dimensions :
              LET expecting == {c \in DOMAIN Cases : d \in Expected(c)}
              IN /\ coverage[d] = expecting
                 /\ DimensionPasses(d) <=>
                       /\ expecting # {}
                       /\ \A c \in expecting : c \notin raised /\ <<c, d>> \notin missed
        /\ FailedCount = 0 <=> \A d \in Dimensions : dimension_failures[d] = {}
=============================================================================
