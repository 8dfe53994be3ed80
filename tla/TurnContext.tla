----------------------------- MODULE TurnContext -----------------------------
(***************************************************************************)
(* The context of a turn: those of the fragments prepare                   *)
(* (src/humanlike_agent/runtime.py) offers that a TurnPlan                 *)
(* (src/humanlike_agent/models.py) selects for a limit.  None of a         *)
(* runtime's fragments may be shortened, so the part of TurnPlan that      *)
(* shortens one is left out.  Fragments are joined by a blank line.        *)
(***************************************************************************)
EXTENDS Integers

\* Mandatory fragments close a context or are selected first; the others are
\* named in the order of their priority.
Mandatory == {"safety", "stance_compact", "no_persistence", "truth"}
Optional == {"reanchor", "route_policy", "discourse", "stance", "creative",
             "creative_pack", "memory", "persona"}
Fragments == Mandatory \cup Optional

Gap == 2
Part(length, S, f) == IF f \in S THEN length[f] + Gap ELSE 0
\* The characters of some fragments, joined, and one gap more.
Joined(length, S) ==
    Part(length, S, "reanchor") + Part(length, S, "route_policy")
    + Part(length, S, "discourse") + Part(length, S, "stance")
    + Part(length, S, "creative") + Part(length, S, "creative_pack")
    + Part(length, S, "memory") + Part(length, S, "safety")
    + Part(length, S, "stance_compact") + Part(length, S, "persona")
    + Part(length, S, "no_persistence") + Part(length, S, "truth")
ContextChars(length, S) == IF S = {} THEN 0 ELSE Joined(length, S) - Gap

Fits(length, limit, S) == ContextChars(length, S) <= limit

\* One more of the fragments offered, if it fits.
Add(length, limit, offered, S, f) ==
    IF f \in offered /\ Fits(length, limit, S \cup {f}) THEN S \cup {f} ELSE S

Ranked(length, limit, offered, S) ==
    LET More(chosen, f) == Add(length, limit, offered, chosen, f)
        advised == More(More(More(More(S, "reanchor"), "route_policy"), "discourse"), "stance")
        inspired == More(More(advised, "creative"), "creative_pack")
    IN More(More(inspired, "memory"), "persona")

\* A slip: what closes a context is chosen last as well.
SelectedInOrder(length, limit, offered) ==
    LET More(chosen, f) == Add(length, limit, offered, chosen, f)
        body == Ranked(length, limit, offered, {})
    IN More(More(More(More(body, "safety"), "stance_compact"), "no_persistence"), "truth")

\* All mandatory fragments, which must fit; then the others, each if it fits
\* beside those before it.
SelectedFragments(length, limit, offered) ==
    Ranked(length, limit, offered, offered \cap Mandatory)
=============================================================================
