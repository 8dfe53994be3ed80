------------------------------ MODULE TurnPlans ------------------------------
(***************************************************************************)
(* What HumanlikeRuntime.prepare (src/humanlike_agent/runtime.py) makes of *)
(* a turn: the route it follows and the context it gives.  A component     *)
(* that fails costs its fragments and is named in the receipt.  The        *)
(* discourse guard's recommendation is always accepted                     *)
(* (RuntimeStateProofs), so its failure is left out.                       *)
(***************************************************************************)
EXTENDS Router, Stance, TurnContext

CONSTANTS NormalChars, DeepChars,  \* limits of a context
          TurnInputs,              \* the turns a host may ask to prepare
          None

ASSUME LimitsAssumption == NormalChars \in 600..8000 /\ DeepChars \in NormalChars..16000

(***************************************************************************)
(* asked: the scope a host asks for; text: the signs in its text, None if  *)
(* the router raises on it; foreign: the answer of a router of the host's  *)
(* own; stance: the probe it adds; offers and fails: what the memory and   *)
(* the pack have for it, and what goes wrong; soft: the characters of the  *)
(* fragments whose content varies.                                         *)
(***************************************************************************)
Soft == Optional \ {"reanchor"}
Input == [asked : Scopes, text : (SUBSET Signs) \cup {None},
          foreign : RouteDecision \cup {None}, stance : StanceProbe \cup {None},
          offers : SUBSET {"memory", "creative_pack"},
          fails : SUBSET {"memory", "creative", "stance", "persona"},
          soft : [Soft -> Nat]]
ASSUME InputsAssumption == TurnInputs \subseteq Input

-----------------------------------------------------------------------------
(* _route *)

RouteValid(route) ==
    /\ \/ route.mode = "unknown" /\ route.budget = NoBudget
       \/ route.budget \in Budgets
    /\ route.candidates \in 1..16

SafeRoute == [mode |-> "task", move |-> "answer", budget |-> 400, candidates |-> 1,
              constraints |-> {"no_persistence"}, scope |-> "session"]

Requested(noSave, input) ==
    StrictestScope({IF noSave THEN "session" ELSE "default", input.asked})
Answer(noSave, input) ==
    IF input.foreign # None THEN input.foreign
    ELSE IF input.text = None THEN None
    ELSE RouteTurn(input.text, Requested(noSave, input))
RouterFailed(noSave, input) ==
    Answer(noSave, input) = None \/ ~RouteValid(Answer(noSave, input))

\* A router may only narrow what was asked.
Narrowed(route, requested) ==
    LET scope == StrictestScope({requested, route.scope})
    IN [route EXCEPT !.scope = scope,
                     !.constraints =
           (@ \ {c \in {"explicit_save"} : scope # "default"})
           \cup {c \in {"no_persistence"} : scope # route.scope}]

Routed(noSave, input) ==
    IF RouterFailed(noSave, input) THEN SafeRoute
    ELSE Narrowed(Answer(noSave, input), Requested(noSave, input))

Saves(route) == route.scope = "default" /\ "explicit_save" \in route.constraints

-----------------------------------------------------------------------------
(* The fragments offered *)

Recalls(route) == route.scope = "default" /\ route.mode # "high_stakes"
Stand(input, route) == DecideStance([input.stance EXCEPT !.mode = route.mode]).action
Weighs(input) == input.stance # None /\ "stance" \notin input.fails
Invents(input, route) == route.mode = "creative" /\ "creative" \notin input.fails

\* due: the persona is to be anchored again.
Offers(input, route, due, f) ==
    CASE f \in {"route_policy", "truth"} -> TRUE
      [] f = "safety" -> route.mode = "high_stakes"
      [] f = "discourse" -> route.mode # "unknown"
      [] f = "no_persistence" -> route.scope # "default"
      [] f = "memory" ->
            Recalls(route) /\ "memory" \in input.offers /\ "memory" \notin input.fails
      [] f = "creative" -> Invents(input, route)
      [] f = "creative_pack" -> Invents(input, route) /\ "creative_pack" \in input.offers
      [] f = "stance" -> Weighs(input)
      [] f = "stance_compact" -> Weighs(input) /\ route.mode = "high_stakes"
      [] f = "reanchor" -> due
      [] f = "persona" -> "persona" \notin input.fails
Offered(input, route, due) == {f \in Fragments : Offers(input, route, due, f)}

ComponentFailed(noSave, input) ==
    LET route == Routed(noSave, input)
    IN \/ RouterFailed(noSave, input)
       \/ "memory" \in input.fails /\ Recalls(route)
       \/ "creative" \in input.fails /\ route.mode = "creative"
       \/ input.fails \cap {"stance", "persona"} # {}

CompactChars == [accept_correction |-> 26, clarify |-> 16, hold |-> 13, verify |-> 15]
Length(input, route) ==
    [f \in Fragments |->
        CASE f = "truth" -> 411
          [] f = "safety" -> 34
          [] f = "reanchor" -> 63
          [] f = "no_persistence" -> IF route.scope = "session" THEN 94 ELSE 91
          [] f = "stance_compact" -> IF Weighs(input) THEN CompactChars[Stand(input, route)] ELSE 0
          [] OTHER -> input.soft[f]]

-----------------------------------------------------------------------------
(* The context *)

DeepModes == {"task", "research", "creative", "reflective"}
Limit(mode) == IF mode \in DeepModes THEN DeepChars ELSE NormalChars

Context(input, route, due) ==
    SelectedFragments(Length(input, route), Limit(route.mode), Offered(input, route, due))
Chars(input, route, due) == ContextChars(Length(input, route), Context(input, route, due))

\* The mandatory fragments fit, or the plan is refused.
PlanAccepted(input, route, due) ==
    Fits(Length(input, route), Limit(route.mode), Offered(input, route, due) \cap Mandatory)

\* What prepare makes of each turn, in a session that may be saved or not and
\* whose anchor is due or not.
Plan(noSave, due, input) ==
    LET route == Routed(noSave, input)
    IN [accepted |-> PlanAccepted(input, route, due),
        mode |-> route.mode, scope |-> route.scope, save |-> Saves(route),
        failed |-> ComponentFailed(noSave, input),
        fragments |-> Context(input, route, due), chars |-> Chars(input, route, due)]
Plans ==
    [noSave \in BOOLEAN |->
        [due \in BOOLEAN |-> [input \in TurnInputs |-> Plan(noSave, due, input)]]]
=============================================================================
