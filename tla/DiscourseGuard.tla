---------------------------- MODULE DiscourseGuard ----------------------------
(***************************************************************************)
(* DiscourseGuard of src/humanlike_agent/discourse.py: the bounded history *)
(* of the tactic chains a session's answers followed, the chain it         *)
(* recommends next, and the checks a recommendation makes of itself.       *)
(***************************************************************************)
EXTENDS Contracts, Sequences

CONSTANTS DiscourseLimit,      \* chains remembered: 16 in a runtime
          RepetitionThreshold  \* chains alike that are too many: 3

ASSUME DiscourseAssumption ==
    /\ DiscourseLimit \in 1..32
    /\ RepetitionThreshold \in 2..DiscourseLimit

Tactics == {"connect", "validate", "paraphrase", "listen", "direct_answer", "clarify",
            "specific_acknowledge", "correct", "concrete_step", "brief_banter", "joke",
            "challenge", "safety_frame"}
TacticChain == {chain \in Seq(Tactics) : Len(chain) \in 1..4}

Decision == [mode : Modes, tactics : TacticChain, budget : Budgets, rotated : BOOLEAN]

-----------------------------------------------------------------------------
\* deque(maxlen=history_limit)
Remembered(history, chain) ==
    Append(IF Len(history) < DiscourseLimit THEN history ELSE Tail(history), chain)

Banter(budget) ==
    IF budget < 180 THEN <<"brief_banter">> ELSE <<"connect", "brief_banter">>

\* connects: the social move is to connect.
Base(mode, connects, budget) ==
    CASE mode = "support" -> <<"validate", "listen">>
      [] mode = "repair" -> <<"specific_acknowledge", "correct">>
      [] mode = "high_stakes" -> <<"safety_frame", "direct_answer">>
      [] mode = "social" /\ connects -> Banter(budget)
      [] OTHER -> <<"direct_answer">>

PrefixRelated(left, right) ==
    \A i \in 1..4 : i <= Len(left) /\ i <= Len(right) => left[i] = right[i]

\* The most recent chains all open like this one.
Repeated(history, base) ==
    /\ Len(history) >= RepetitionThreshold
    /\ \A i \in 1..Len(history) :
          i > Len(history) - RepetitionThreshold => PrefixRelated(history[i], base)

Recommend(history, mode, connects, budget) ==
    LET base == Base(mode, connects, budget)
        rotates == mode = "support" /\ Repeated(history, base)
    IN [mode |-> mode, budget |-> budget, rotated |-> rotates,
        tactics |-> IF rotates THEN <<"listen">> ELSE base]

-----------------------------------------------------------------------------
(* DiscourseDecision.__post_init__ *)

Starts(chain, opening) ==
    Len(chain) >= Len(opening) /\ \A i \in 1..Len(opening) : chain[i] = opening[i]

\* The shapes of a decision that is not rotated.
ShapeFits(d) ==
    CASE d.mode = "support" -> d.tactics = <<"validate", "listen">>
      [] d.mode = "social" -> d.tactics \in {<<"direct_answer">>, Banter(d.budget)}
      [] d.mode \in {"repair", "high_stakes"} -> TRUE
      [] OTHER -> d.tactics = <<"direct_answer">>

Accepted(d) ==
    /\ d \in Decision
    /\ d.mode = "high_stakes" =>
          /\ \A i \in 1..Len(d.tactics) :
                d.tactics[i] \notin {"joke", "brief_banter", "challenge"}
          /\ d.tactics[1] = "safety_frame"
    /\ d.mode = "repair" => Starts(d.tactics, <<"specific_acknowledge", "correct">>)
    /\ d.rotated => d.mode = "support" /\ d.tactics = <<"listen">>
    /\ ~d.rotated => ShapeFits(d)
=============================================================================
