---------------------------- MODULE CreativeStudio ----------------------------
(***************************************************************************)
(* The creative studio of src/humanlike_agent/creative.py once a pack is   *)
(* read (PackFiles): the records a foundation pack may have, the plan for  *)
(* a creative turn and the room it takes, and the choice among candidates. *)
(* The five directives and the selection contract are fixed texts.  Of a   *)
(* description its length is kept, and how many of its characters JSON     *)
(* escapes: none of them is a control character, so one becomes two.       *)
(***************************************************************************)
EXTENDS Contracts, Integers, Sequences

RubricIds == <<"task_fit", "mechanism_shift", "specificity", "coherence", "preference_fit">>
AntiPatternIds == {"generic_template", "repeated_shape", "punchline_tail", "ornamental_novelty"}
IdChars(id) ==
    CASE id = "task_fit" -> 8 [] id = "mechanism_shift" -> 15 [] id = "specificity" -> 11
      [] id = "coherence" -> 9 [] id = "preference_fit" -> 14
      [] id = "generic_template" -> 16 [] id = "repeated_shape" -> 14
      [] id = "punchline_tail" -> 14 [] id = "ornamental_novelty" -> 18

DescriptionLimit == 512
CreativeRecord ==
    {record \in [id : {RubricIds[i] : i \in 1..5} \cup AntiPatternIds,
                 chars : 1..DescriptionLimit, escapes : Nat] : record.escapes <= record.chars}

-----------------------------------------------------------------------------
(* FoundationPack *)

FoundationPack ==
    {pack \in [rubric : Seq(CreativeRecord), anti_patterns : Seq(CreativeRecord)] :
        /\ Len(pack.rubric) = 5 /\ \A i \in 1..5 : pack.rubric[i].id = RubricIds[i]
        /\ pack.anti_patterns # <<>> /\ Len(pack.anti_patterns) <= 4
        /\ \A i, j \in DOMAIN pack.anti_patterns :
              /\ pack.anti_patterns[i].id \in AntiPatternIds
              /\ pack.anti_patterns[i].id = pack.anti_patterns[j].id => i = j}
NoPack == [rubric |-> <<>>, anti_patterns |-> <<>>]

-----------------------------------------------------------------------------
(* plan, CreativePlan and render_context *)

\* The directives, the contract, the labels and two empty lists of records.
FixedChars == 1317
\* {"description":"...","id":"..."}
RecordChars(record) == 26 + record.chars + record.escapes + IdChars(record.id)
\* One record of a list, if there are so many, and the comma before it.
PartChars(records, i) ==
    IF i > Len(records) THEN 0 ELSE RecordChars(records[i]) + (IF i = 1 THEN 0 ELSE 1)
ListChars(records) ==
    PartChars(records, 1) + PartChars(records, 2) + PartChars(records, 3)
    + PartChars(records, 4) + PartChars(records, 5)
RenderedChars(pack) == FixedChars + ListChars(pack.rubric) + ListChars(pack.anti_patterns)

\* What the studio makes of a request's text: it refuses one that is empty once
\* trimmed, longer than 64 Ki, or has a control or a format character.
StudioTexts == {"plain", "empty", "long", "unsafe"}
ContextLimits == 512..16384

\* The checks a CreativePlan makes of itself: that of a turn in another mode
\* retrieves nothing and has no candidates.
PlanAdmitted(route, pack, limit) ==
    /\ limit \in ContextLimits
    /\ route.mode = "creative" => route.candidates \in 1..16 /\ RenderedChars(pack) <= limit
PlanMade(route, text, pack, limit) == text = "plain" /\ PlanAdmitted(route, pack, limit)

\* The limit plan has unless told otherwise, and the one a runtime gives it.
DefaultLimit == 8192
RuntimeLimit == 16000

-----------------------------------------------------------------------------
(* select_candidate *)

\* A metric in thousandths.  Ids are compared as text; their rank stands for
\* them.  A candidate without a preference has NoPreference.
Metrics == 0..1000
NoPreference == -1
CandidateScore == [id : Nat, valid : BOOLEAN, fit : Metrics, clarity : Metrics,
                   novelty : Metrics, preference : Metrics \cup {NoPreference}]
Preferred(score) == IF score.preference = NoPreference THEN 0 ELSE score.preference

\* Whether one valid candidate is ranked before another.
RankedBefore(a, b) ==
    \/ a.fit > b.fit
    \/ a.fit = b.fit /\ a.clarity > b.clarity
    \/ a.fit = b.fit /\ a.clarity = b.clarity /\ a.novelty > b.novelty
    \/ /\ a.fit = b.fit /\ a.clarity = b.clarity /\ a.novelty = b.novelty
       /\ \/ Preferred(a) > Preferred(b)
          \/ Preferred(a) = Preferred(b) /\ a.id < b.id

Distinct(scores) == \A a, b \in scores : a.id = b.id => a = b
Valid(scores) == {score \in scores : score.valid}

\* The one selected, whichever way the scores were listed.
SelectedCandidate(scores) ==
    CHOOSE best \in Valid(scores) :
        \A other \in Valid(scores) \ {best} : RankedBefore(best, other)
=============================================================================
