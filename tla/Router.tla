-------------------------------- MODULE Router --------------------------------
(***************************************************************************)
(* route_turn of src/humanlike_agent/router.py.  Of a turn's text only the *)
(* signs its patterns find are kept.  The code looks for each sign in a    *)
(* view of the text of its own, without quoted spans, without attempts to  *)
(* set the mode, or without talk about commands; a sign stands for a match *)
(* in that view.                                                           *)
(***************************************************************************)
EXTENDS Contracts

\* "save" is a clause that asks to remember and does not also ask not to;
\* "decision" a wish to act now; "thanks" a text that is an acknowledgement
\* and nothing else, "greeting" one that is a greeting and nothing else.
Signs == {"crisis", "medical", "legal", "financial", "decision",
          "meta_truth", "repair", "research", "creative", "revise", "task_answer",
          "task_act", "no_advice", "next_step", "support", "reflective",
          "no_save_session", "no_save_item", "save", "greeting", "thanks",
          "brief", "no_list", "no_quotes"}

HighStakes(text) ==
    \/ "crisis" \in text
    \/ "decision" \in text /\ text \cap {"medical", "legal", "financial"} # {}
PrivacyControl(text) == text \cap {"no_save_session", "no_save_item"} # {}

PrivacyScope(text, inherited) ==
    CASE "no_save_session" \in text \/ inherited = "session" -> "session"
      [] "no_save_item" \in text /\ "no_save_session" \notin text /\ inherited # "session"
            -> "item"
      [] OTHER -> inherited

-----------------------------------------------------------------------------
(* _classify *)

\* What may decide the mode, the weightiest first.
Case(weight, sign, mode, move) ==
    [weight |-> weight, sign |-> sign, mode |-> mode, move |-> move]
Cases ==
    {Case(17, "high_stakes", "high_stakes", "answer"),
     Case(16, "meta_truth", "meta_truth", "answer"),
     Case(15, "repair", "repair", "revise"),
     Case(14, "research", "research", "answer"),
     Case(13, "creative", "creative", "create"),
     Case(12, "revise", "task", "revise"),
     Case(11, "task_answer", "task", "answer"),
     Case(10, "task_act", "task", "act"),
     Case(9, "no_advice", "support", "listen"),
     Case(8, "next_step", "support", "answer"),
     Case(7, "support", "support", "acknowledge"),
     Case(6, "reflective", "reflective", "ask"),
     Case(5, "privacy_control", "task", "act"),
     Case(4, "save", "task", "act"),
     Case(3, "greeting", "social", "connect"),
     Case(2, "thanks", "social", "acknowledge")}
NoCase == Case(1, "unknown", "unknown", "neutral")

Found(text) ==
    {case \in Cases :
        \/ case.sign \in text
        \/ case.sign = "high_stakes" /\ HighStakes(text)
        \/ case.sign = "privacy_control" /\ PrivacyControl(text)}

Classify(text) ==
    CHOOSE case \in Found(text) \cup {NoCase} : \A other \in Found(text) :
        case.weight >= other.weight

-----------------------------------------------------------------------------
(* _constraints and route_turn *)

ConstraintsOf(text, scope) ==
    (text \cap {"no_advice", "brief", "no_list", "no_quotes"})
    \cup {c \in {"no_persistence"} : scope # "default"}
    \cup {c \in {"explicit_save"} : scope = "default" /\ "save" \in text}

Budget ==
    [unknown |-> NoBudget, social |-> 220, meta_truth |-> 400, repair |-> 850,
     support |-> 900, reflective |-> 1000, creative |-> 1100, research |-> 1400,
     high_stakes |-> 1500, task |-> 1700]
CandidateCount(mode) ==
    CASE mode = "creative" -> 5
      [] mode = "high_stakes" -> 3
      [] mode \in {"research", "task", "reflective"} -> 2
      [] OTHER -> 1

\* A brief answer has 520 characters at most; one without a budget gets none.
BudgetOf(text, mode) ==
    IF "brief" \in text /\ Budget[mode] > 520 THEN 520 ELSE Budget[mode]

RouteTurn(text, inherited) ==
    LET case == Classify(text)
        scope == PrivacyScope(text, inherited)
    IN [mode |-> case.mode, move |-> case.move, budget |-> BudgetOf(text, case.mode),
        candidates |-> CandidateCount(case.mode),
        constraints |-> ConstraintsOf(text, scope), scope |-> scope]
=============================================================================
