-------------------------- MODULE RuntimeStateProofs --------------------------
(***************************************************************************)
(* What holds of a turn's plan whatever its text, its probe, the host's    *)
(* router, the components that fail and the limits of its context; of the  *)
(* creative studio for every pack and every set of candidates; of what     *)
(* DiscourseGuard recommends for every history, mode and budget; and of    *)
(* the state of a runtime, which prepare, observe and finalize keep sound  *)
(* whoever calls them.                                                     *)
(***************************************************************************)
EXTENDS RuntimeState, CreativeStudio, FiniteSetTheorems, WellFoundedInduction, TLAPS

-----------------------------------------------------------------------------
(* The router *)

LEMMA HeaviestExists ==
    ASSUME NEW W \in SUBSET (1..17), W # {}
    PROVE  \E n \in W : \A m \in W : n >= m
<1> SUFFICES ASSUME \A n \in W : \E m \in W : m > n
             PROVE  FALSE
  <2>1. \A n \in W : n \in Int
    OBVIOUS
  <2> QED BY <2>1
<1> DEFINE Beyond(k) == \E n \in W : n >= k
<1>1. ASSUME NEW k \in Nat, Beyond(k) PROVE Beyond(k + 1)
  <2>1. PICK n \in W : n >= k
    BY <1>1
  <2>2. PICK m \in W : m > n
    OBVIOUS
  <2>3. n \in Int /\ m \in Int /\ m >= k + 1
    BY <2>1, <2>2
  <2> QED BY <2>3
<1> HIDE DEF Beyond
<1>2. ASSUME NEW k \in Nat, Beyond(k) PROVE Beyond(k + 3)
  <2>1. Beyond(k + 1) /\ k + 1 \in Nat
    BY <1>1, <1>2
  <2>2. Beyond((k + 1) + 1) /\ (k + 1) + 1 \in Nat
    BY <1>1, <2>1
  <2>3. Beyond(((k + 1) + 1) + 1)
    BY <1>1, <2>2
  <2>4. ((k + 1) + 1) + 1 = k + 3
    OBVIOUS
  <2> QED BY <2>3, <2>4
<1>3. ASSUME NEW k \in Nat, Beyond(k) PROVE Beyond(k + 9)
  <2>1. Beyond(k + 3) /\ k + 3 \in Nat
    BY <1>2, <1>3
  <2>2. Beyond((k + 3) + 3) /\ (k + 3) + 3 \in Nat
    BY <1>2, <2>1
  <2>3. Beyond(((k + 3) + 3) + 3)
    BY <1>2, <2>2
  <2>4. ((k + 3) + 3) + 3 = k + 9
    OBVIOUS
  <2> QED BY <2>3, <2>4
<1>4. Beyond(0)
  <2>1. PICK n \in W : TRUE
    OBVIOUS
  <2> QED BY <2>1 DEF Beyond
<1>5. Beyond(9)
  BY <1>3, <1>4
<1>6. Beyond(18)
  BY <1>3, <1>5
<1> QED BY <1>6 DEF Beyond

\* Some case always weighs most, so the router always decides on one.
LEMMA ClassifyDecides ==
    ASSUME NEW text \in SUBSET Signs
    PROVE  Classify(text) \in Cases \cup {NoCase}
<1> DEFINE F == Found(text) \cup {NoCase}
           W == {case.weight : case \in F}
<1>1. F \subseteq Cases \cup {NoCase}
  BY DEF Found
<1>2. \A case \in Cases \cup {NoCase} : case.weight \in 1..17
  BY DEF Cases, NoCase, Case
<1>3. W \in SUBSET (1..17) /\ W # {}
  BY <1>1, <1>2
<1>4. PICK n \in W : \A m \in W : n >= m
  BY <1>3, HeaviestExists
<1>5. PICK case \in F : n = case.weight
  BY <1>4
<1>6. \A other \in Found(text) : case.weight >= other.weight
  BY <1>4, <1>5
<1>7. Classify(text) \in F
  BY <1>6 DEF Classify
<1> QED BY <1>7, <1>1

LEMMA BudgetBounded ==
    ASSUME NEW text, NEW mode \in Modes
    PROVE  /\ BudgetOf(text, mode) \in Nat
           /\ \/ mode = "unknown" /\ BudgetOf(text, mode) = NoBudget
              \/ BudgetOf(text, mode) \in Budgets
<1>1. CASE mode = "unknown"
  <2>1. Budget[mode] = 0
    BY <1>1 DEF Budget, NoBudget
  <2>2. BudgetOf(text, mode) = 0
    BY <2>1 DEF BudgetOf
  <2> QED BY <1>1, <2>2 DEF NoBudget
<1>2. CASE mode # "unknown"
  <2>1. Budget[mode] \in 220..1700
    BY <1>2 DEF Budget, Modes
  <2>2. BudgetOf(text, mode) \in Budgets
    BY <2>1 DEF BudgetOf, Budgets
  <2>3. BudgetOf(text, mode) \in Nat
    BY <2>1 DEF BudgetOf
  <2> QED BY <2>2, <2>3
<1> QED BY <1>1, <1>2

LEMMA ScopesOrdered ==
    /\ \A one, other, third \in Scopes :
          ScopeRank(one) >= ScopeRank(other) /\ ScopeRank(other) >= ScopeRank(third)
             => ScopeRank(one) >= ScopeRank(third)
    /\ \A scope \in Scopes : ScopeRank("session") >= ScopeRank(scope)
    /\ \A scope \in Scopes : ScopeRank(scope) >= ScopeRank("session") => scope = "session"
<1>1. /\ ScopeRank("default") = 0 /\ ScopeRank("item") = 1 /\ ScopeRank("session") = 2
      /\ Scopes = {"default", "item", "session"}
  BY DEF Scopes, ScopeRank
<1> QED BY <1>1

LEMMA ScopeTypes ==
    ASSUME NEW one \in Scopes, NEW other \in Scopes
    PROVE  /\ StrictestScope({one, other}) \in Scopes
           /\ ScopeRank(StrictestScope({one, other})) >= ScopeRank(one)
           /\ ScopeRank(StrictestScope({one, other})) >= ScopeRank(other)
<1>1. \A scope \in Scopes : ScopeRank(scope) \in 0..2
  BY DEF Scopes, ScopeRank
<1>2. \/ ScopeRank(one) >= ScopeRank(other) /\ ScopeRank(one) >= ScopeRank(one)
      \/ ScopeRank(other) >= ScopeRank(one) /\ ScopeRank(other) >= ScopeRank(other)
  BY <1>1
<1>3. \E scope \in {one, other} : \A s \in {one, other} : ScopeRank(scope) >= ScopeRank(s)
  BY <1>2
<1> DEFINE chosen == StrictestScope({one, other})
<1>4. chosen \in {one, other} /\ \A s \in {one, other} : ScopeRank(chosen) >= ScopeRank(s)
  BY <1>3 DEF StrictestScope
<1> QED BY <1>4

\* Whatever a text says, the built-in router's answer is one that the runtime
\* takes for valid, and its scope is never milder than the one it was given.
LEMMA RouteTurnValid ==
    ASSUME NEW text \in SUBSET Signs, NEW inherited \in Scopes
    PROVE  /\ RouteTurn(text, inherited) \in RouteDecision
           /\ RouteValid(RouteTurn(text, inherited))
           /\ ScopeRank(RouteTurn(text, inherited).scope) >= ScopeRank(inherited)
<1> DEFINE case == Classify(text)
           route == RouteTurn(text, inherited)
<1>1. case \in Cases \cup {NoCase}
  BY ClassifyDecides
<1>2. case.mode \in Modes /\ case.move \in SocialMoves
  BY <1>1 DEF Cases, NoCase, Case, Modes, SocialMoves
<1>3. PrivacyScope(text, inherited) \in Scopes
  BY DEF PrivacyScope, Scopes
<1>4. ScopeRank(PrivacyScope(text, inherited)) >= ScopeRank(inherited)
  BY DEF PrivacyScope, Scopes, ScopeRank
<1>5. \/ case.mode = "unknown" /\ BudgetOf(text, case.mode) = NoBudget
      \/ BudgetOf(text, case.mode) \in Budgets
  BY <1>2, BudgetBounded
<1>6. BudgetOf(text, case.mode) \in Nat
  BY <1>2, BudgetBounded
<1>7. CandidateCount(case.mode) \in 1..16
  BY <1>2 DEF CandidateCount, Modes
<1>8. ConstraintsOf(text, PrivacyScope(text, inherited)) \subseteq Constraints
  BY DEF ConstraintsOf, Constraints
<1>9. /\ route = [mode |-> case.mode, move |-> case.move,
                  budget |-> BudgetOf(text, case.mode),
                  candidates |-> CandidateCount(case.mode),
                  constraints |-> ConstraintsOf(text, PrivacyScope(text, inherited)),
                  scope |-> PrivacyScope(text, inherited)]
  BY DEF RouteTurn
<1> HIDE DEF case, route
<1>10. route \in RouteDecision
  BY <1>2, <1>3, <1>6, <1>7, <1>8, <1>9 DEF RouteDecision
<1>11. RouteValid(route)
  BY <1>5, <1>7, <1>9 DEF RouteValid
<1>12. ScopeRank(route.scope) >= ScopeRank(inherited)
  BY <1>4, <1>9
<1> QED BY <1>10, <1>11, <1>12 DEF route

-----------------------------------------------------------------------------
(* The stance *)

(***************************************************************************)
(* The checks a stance decision makes of itself never refuse one, whatever *)
(* the probe: guidance on how to meet pressure is never lost to them.      *)
(***************************************************************************)
THEOREM StancesAccepted ==
    ASSUME NEW probe \in StanceProbe
    PROVE  StanceAccepted(DecideStance(probe))
<1> DEFINE reason == Reason(probe)
           d == DecideStance(probe)
           urgent == IF Stakes(probe) THEN <<"high_stakes_threshold">> ELSE <<>>
           gentle == IF reason = "unsupported_pressure" /\ probe.support
                     THEN <<"support_without_agreement">> ELSE <<>>
<1>1. reason \in DOMAIN ActionFor
  BY DEF Reason, ActionFor
<1>2. reason \notin {"high_stakes_threshold", "support_without_agreement"}
  BY <1>1 DEF ActionFor
<1>3. ActionFor[reason] \in StanceActions
  BY <1>1 DEF ActionFor, StanceActions
<1>4. Threshold(probe) = IF Stakes(probe) THEN 85 ELSE 70
  BY DEF Threshold
<1>5. /\ d.action = ActionFor[reason]
      /\ d.threshold = Threshold(probe)
      /\ d.reasons = <<reason>> \o urgent \o gentle
  BY DEF DecideStance
<1> HIDE DEF d, reason
<1>6. d.reasons # <<>> /\ d.reasons[1] = reason
  <2>1. CASE urgent = <<>> /\ gentle = <<>>
    BY <1>5, <2>1
  <2>2. CASE urgent # <<>> /\ gentle = <<>>
    BY <1>5, <2>2
  <2>3. CASE urgent = <<>> /\ gentle # <<>>
    BY <1>5, <2>3
  <2>4. CASE urgent # <<>> /\ gentle # <<>>
    BY <1>5, <2>4
  <2> QED BY <2>1, <2>2, <2>3, <2>4
<1>7. Names(d, "high_stakes_threshold") <=> Stakes(probe)
  <2>1. CASE Stakes(probe)
    <3>1. Len(d.reasons) >= 2 /\ d.reasons[2] = "high_stakes_threshold"
      BY <1>5, <2>1
    <3> QED BY <3>1, <2>1 DEF Names
  <2>2. CASE ~Stakes(probe)
    <3>1. \A i \in 1..Len(d.reasons) : d.reasons[i] \in {reason, "support_without_agreement"}
      BY <1>5, <2>2
    <3> QED BY <3>1, <1>2, <2>2 DEF Names
  <2> QED BY <2>1, <2>2
<1>8. Names(d, "support_without_agreement") <=> gentle # <<>>
  <2>1. CASE gentle # <<>>
    <3>1. /\ Len(d.reasons) \in Nat \ {0}
          /\ d.reasons[Len(d.reasons)] = "support_without_agreement"
      BY <1>5, <2>1
    <3> QED BY <3>1, <2>1 DEF Names
  <2>2. CASE gentle = <<>>
    <3>1. \A i \in 1..Len(d.reasons) : d.reasons[i] \in {reason, "high_stakes_threshold"}
      BY <1>5, <2>2
    <3> QED BY <3>1, <1>2, <2>2 DEF Names
  <2> QED BY <2>1, <2>2
<1>9. Canonical(d) = d.reasons
  <2>1. Canonical(d) = <<reason>> \o urgent \o gentle
    BY <1>4, <1>5, <1>6, <1>8 DEF Canonical
  <2> QED BY <2>1, <1>5
<1>10. d.threshold \in {70, 85}
  BY <1>4, <1>5
<1>11. Names(d, "high_stakes_threshold") <=> d.threshold = 85
  BY <1>4, <1>5, <1>7
<1>12. Names(d, "support_without_agreement") => d.reasons[1] = "unsupported_pressure"
  BY <1>6, <1>8
<1>13. StanceAccepted(d)
  BY <1>1, <1>3, <1>5, <1>6, <1>9, <1>10, <1>11, <1>12 DEF StanceAccepted
<1> QED BY <1>13 DEF d

LEMMA StandTypes ==
    ASSUME NEW probe
    PROVE  DecideStance(probe).action \in StanceActions
<1>1. Reason(probe) \in DOMAIN ActionFor
  BY DEF Reason, ActionFor
<1>2. ActionFor[Reason(probe)] \in StanceActions
  BY <1>1 DEF ActionFor, StanceActions
<1> QED BY <1>2 DEF DecideStance

-----------------------------------------------------------------------------
(* The selection *)

LEMMA AddKeeps ==
    ASSUME NEW length, NEW limit, NEW offered, NEW S, NEW f,
           S \subseteq offered, Fits(length, limit, S)
    PROVE  /\ Add(length, limit, offered, S, f) \subseteq offered
           /\ S \subseteq Add(length, limit, offered, S, f)
           /\ Fits(length, limit, Add(length, limit, offered, S, f))
BY DEF Add

(***************************************************************************)
(* Whatever the lengths and the limit: if the mandatory fragments fit, all *)
(* that were offered are selected, nothing is that was not offered, and    *)
(* the context fits.                                                       *)
(***************************************************************************)
THEOREM SelectionBounded ==
    ASSUME NEW length, NEW limit, NEW offered,
           Fits(length, limit, offered \cap Mandatory)
    PROVE  LET chosen == SelectedFragments(length, limit, offered)
           IN /\ offered \cap Mandatory \subseteq chosen
              /\ chosen \subseteq offered
              /\ Fits(length, limit, chosen)
<1> DEFINE More(S, f) == Add(length, limit, offered, S, f)
           Good(S) == /\ offered \cap Mandatory \subseteq S
                      /\ S \subseteq offered
                      /\ Fits(length, limit, S)
           S1 == More(offered \cap Mandatory, "reanchor")
           S2 == More(S1, "route_policy")
           S3 == More(S2, "discourse")
           S4 == More(S3, "stance")
           S5 == More(S4, "creative")
           S6 == More(S5, "creative_pack")
           S7 == More(S6, "memory")
           S8 == More(S7, "persona")
<1>1. ASSUME NEW S, NEW f, Good(S) PROVE Good(More(S, f))
  BY <1>1, AddKeeps
<1>2. SelectedFragments(length, limit, offered) = S8
  BY DEF SelectedFragments, Ranked
<1> HIDE DEF More
<1>3. Good(offered \cap Mandatory)
  OBVIOUS
<1> HIDE DEF Good
<1>4. Good(S1) /\ Good(S2)
  BY <1>1, <1>3
<1>5. Good(S3) /\ Good(S4)
  BY <1>1, <1>4
<1>6. Good(S5) /\ Good(S6)
  BY <1>1, <1>5
<1>7. Good(S7) /\ Good(S8)
  BY <1>1, <1>6
<1> QED BY <1>2, <1>7 DEF Good

-----------------------------------------------------------------------------
(* The plan *)

(***************************************************************************)
(* Whichever router answers, the built-in one or the host's own, with      *)
(* whatever route or by raising, _route gives the turn a route that passes *)
(* the runtime's checks.  Its scope is never milder than what the host     *)
(* asked for, nor than that of a session which is not to be saved; it asks *)
(* for a save only in the default scope, and says that nothing is to be    *)
(* kept whenever the scope is not the one the router chose.                *)
(***************************************************************************)
THEOREM RoutesAreValid ==
    ASSUME NEW noSave \in BOOLEAN, NEW input \in Input
    PROVE  LET route == Routed(noSave, input)
           IN /\ route \in RouteDecision /\ RouteValid(route)
              /\ ScopeRank(route.scope) >= ScopeRank(input.asked)
              /\ noSave => route.scope = "session"
              /\ "explicit_save" \in route.constraints => route.scope = "default"
              /\ RouterFailed(noSave, input) \/ route.scope # Answer(noSave, input).scope
                    => "no_persistence" \in route.constraints
<1> DEFINE requested == Requested(noSave, input)
           answer == Answer(noSave, input)
<1>1. /\ requested \in Scopes
      /\ ScopeRank(requested) >= ScopeRank(input.asked)
      /\ noSave => ScopeRank(requested) >= ScopeRank("session")
  <2> DEFINE kept == IF noSave THEN "session" ELSE "default"
  <2>1. input.asked \in Scopes
    BY DEF Input
  <2>2. kept \in Scopes /\ (noSave => kept = "session")
    BY DEF Scopes
  <2>3. requested = StrictestScope({kept, input.asked})
    BY DEF Requested
  <2> HIDE DEF kept, requested
  <2> QED BY <2>1, <2>2, <2>3, ScopeTypes
<1>2. /\ \A one, other, third \in Scopes :
            ScopeRank(one) >= ScopeRank(other) /\ ScopeRank(other) >= ScopeRank(third)
               => ScopeRank(one) >= ScopeRank(third)
      /\ \A scope \in Scopes : ScopeRank("session") >= ScopeRank(scope)
      /\ \A scope \in Scopes : ScopeRank(scope) >= ScopeRank("session") => scope = "session"
  BY ScopesOrdered
<1>3. input.asked \in Scopes /\ "session" \in Scopes
  BY DEF Input, Scopes
<1>4. CASE RouterFailed(noSave, input)
  <2>1. Routed(noSave, input) = SafeRoute
    BY <1>4 DEF Routed
  <2>2. SafeRoute \in RouteDecision /\ RouteValid(SafeRoute)
    BY DEF SafeRoute, RouteDecision, RouteValid, Budgets, Modes, SocialMoves, Constraints, Scopes
  <2>3. SafeRoute.scope = "session" /\ SafeRoute.constraints = {"no_persistence"}
    BY DEF SafeRoute
  <2>4. ScopeRank("session") >= ScopeRank(input.asked)
    BY <1>2, <1>3
  <2>5. /\ "explicit_save" \notin SafeRoute.constraints
        /\ "no_persistence" \in SafeRoute.constraints
    BY <2>3
  <2> QED BY <2>1, <2>2, <2>3, <2>4, <2>5
<1>5. CASE ~RouterFailed(noSave, input)
  <2>1. answer \in RouteDecision /\ RouteValid(answer)
    <3>1. answer # None /\ RouteValid(answer)
      BY <1>5 DEF RouterFailed
    <3>2. CASE input.foreign # None
      BY <3>1, <3>2 DEF Answer, Input
    <3>3. CASE input.foreign = None
      <4>1. input.text \in SUBSET Signs /\ answer = RouteTurn(input.text, requested)
        BY <3>1, <3>3 DEF Answer, Input
      <4> QED BY <4>1, <1>1, RouteTurnValid
    <3> QED BY <3>2, <3>3, <3>1
  <2> HIDE DEF requested, answer
  <2> DEFINE scope == StrictestScope({requested, answer.scope})
             route == Narrowed(answer, requested)
  <2>2. answer.scope \in Scopes
    BY <2>1 DEF RouteDecision
  <2>3. scope \in Scopes /\ ScopeRank(scope) >= ScopeRank(requested)
    BY <1>1, <2>2, ScopeTypes
  <2>4. route = [answer EXCEPT !.scope = scope,
                               !.constraints =
                    (answer.constraints \ {c \in {"explicit_save"} : scope # "default"})
                    \cup {c \in {"no_persistence"} : scope # answer.scope}]
    BY <2>1 DEF Narrowed, RouteDecision
  <2> HIDE DEF scope, route
  <2>5. /\ route.mode = answer.mode /\ route.budget = answer.budget
        /\ route.candidates = answer.candidates /\ route.scope = scope
        /\ route.constraints =
              (answer.constraints \ {c \in {"explicit_save"} : scope # "default"})
              \cup {c \in {"no_persistence"} : scope # answer.scope}
    BY <2>1, <2>4 DEF RouteDecision
  <2>6. (answer.constraints \ {c \in {"explicit_save"} : scope # "default"})
        \cup {c \in {"no_persistence"} : scope # answer.scope} \subseteq Constraints
    BY <2>1 DEF RouteDecision, Constraints
  <2>7. route \in RouteDecision
    BY <2>1, <2>3, <2>4, <2>6 DEF RouteDecision
  <2>8. RouteValid(route)
    BY <2>1, <2>5 DEF RouteValid
  <2>9. Routed(noSave, input) = route
    BY <1>5 DEF Routed, route, answer, requested
  <2>10. ScopeRank(scope) >= ScopeRank(input.asked) /\ (noSave => scope = "session")
    BY <1>1, <1>2, <1>3, <2>3
  <2>11. /\ "explicit_save" \in route.constraints => scope = "default"
         /\ scope # answer.scope => "no_persistence" \in route.constraints
    BY <2>5
  <2>12. answer = Answer(noSave, input)
    BY DEF answer
  <2>13. ~RouterFailed(noSave, input)
    BY <1>5
  <2> QED BY <2>5, <2>7, <2>8, <2>9, <2>10, <2>11, <2>12, <2>13
<1> QED BY <1>4, <1>5

\* A plan's mandatory fragments never need more room than the smallest limit.
LEMMA MandatoryShort ==
    ASSUME NEW input \in Input, NEW route, NEW S \in SUBSET Mandatory
    PROVE  ContextChars(Length(input, route), S) \in -2..571
<1> DEFINE length == Length(input, route)
           part(f) == Part(length, S, f)
<1>1. \A f \in Optional : part(f) = 0
  BY DEF Part, Optional, Mandatory
<1>2. part("truth") \in 0..413
  <2>1. length["truth"] = 411
    BY DEF Length, Fragments, Mandatory
  <2> QED BY <2>1 DEF Part, Gap
<1>3. part("safety") \in 0..36
  <2>1. length["safety"] = 34
    BY DEF Length, Fragments, Mandatory
  <2> QED BY <2>1 DEF Part, Gap
<1>4. part("no_persistence") \in 0..96
  <2>1. length["no_persistence"] \in {91, 94}
    BY DEF Length, Fragments, Mandatory
  <2> QED BY <2>1 DEF Part, Gap
<1>5. part("stance_compact") \in 0..28
  <2>1. Stand(input, route) \in StanceActions
    BY StandTypes DEF Stand
  <2>2. CompactChars[Stand(input, route)] \in 0..26
    BY <2>1 DEF CompactChars, StanceActions
  <2>3. length["stance_compact"] \in 0..26
    BY <2>2 DEF Length, Fragments, Mandatory
  <2> QED BY <2>3 DEF Part, Gap
<1> HIDE DEF part
<1>6. /\ part("reanchor") = 0 /\ part("route_policy") = 0 /\ part("discourse") = 0
      /\ part("stance") = 0 /\ part("creative") = 0 /\ part("creative_pack") = 0
      /\ part("memory") = 0 /\ part("persona") = 0
  BY <1>1 DEF Optional
<1>7. Joined(length, S) = part("safety") + part("stance_compact")
                          + part("no_persistence") + part("truth")
  BY <1>2, <1>3, <1>4, <1>5, <1>6 DEF Joined, part
<1>8. Joined(length, S) \in 0..573
  <2>1. \A t \in 0..413, s \in 0..36, p \in 0..96, c \in 0..28 : s + c + p + t \in 0..573
    OBVIOUS
  <2>2. part("safety") + part("stance_compact") + part("no_persistence") + part("truth")
           \in 0..573
    BY <1>2, <1>3, <1>4, <1>5, <2>1
  <2> QED BY <1>7, <2>2
<1> HIDE DEF length
<1>9. Joined(length, S) - 2 \in -2..571
  BY <1>8
<1>10. ContextChars(length, S) \in -2..571
  BY <1>9 DEF ContextChars, Gap
<1> QED BY <1>10 DEF length

(***************************************************************************)
(* No plan is ever refused: whatever the route, the probe and the limits a *)
(* runtime may be configured with, the truth contract, the wish not to     *)
(* persist and what an urgent turn needs fit together.                     *)
(***************************************************************************)
THEOREM PlansAccepted ==
    ASSUME NEW input \in Input, NEW noSave \in BOOLEAN, NEW due \in BOOLEAN
    PROVE  PlanAccepted(input, Routed(noSave, input), due)
<1> DEFINE route == Routed(noSave, input)
           hard == Offered(input, route, due) \cap Mandatory
           chars == ContextChars(Length(input, route), hard)
<1>1. hard \in SUBSET Mandatory
  OBVIOUS
<1> HIDE DEF hard, route
<1>2. chars \in -2..571
  BY <1>1, MandatoryShort
<1>3. Limit(route.mode) \in Int /\ Limit(route.mode) >= 600
  BY LimitsAssumption DEF Limit
<1> HIDE DEF chars
<1>4. chars <= Limit(route.mode)
  BY <1>2, <1>3
<1> QED BY <1>4 DEF PlanAccepted, Fits, chars, hard, route

LEMMA LengthTypes ==
    ASSUME NEW input \in Input, NEW route, NEW f \in Fragments
    PROVE  Length(input, route)[f] \in Nat
<1> DEFINE length == Length(input, route)
<1>1. CASE f \in {"truth", "safety", "reanchor", "no_persistence"}
  BY <1>1 DEF Length, Fragments, Mandatory, Optional
<1>2. CASE f = "stance_compact"
  <2>1. Stand(input, route) \in StanceActions
    BY StandTypes DEF Stand
  <2>2. CompactChars[Stand(input, route)] \in Nat
    BY <2>1 DEF CompactChars, StanceActions
  <2> QED BY <1>2, <2>2 DEF Length
<1>3. CASE f \notin {"truth", "safety", "reanchor", "no_persistence", "stance_compact"}
  <2>1. f \in Soft /\ input.soft \in [Soft -> Nat]
    BY <1>3 DEF Soft, Fragments, Mandatory, Optional, Input
  <2>2. length[f] = input.soft[f]
    BY <1>3 DEF Length
  <2> QED BY <2>1, <2>2
<1> QED BY <1>1, <1>2, <1>3

LEMMA CharsTypes ==
    ASSUME NEW length, \A f \in Fragments : length[f] \in Nat, NEW S, "truth" \in S
    PROVE  ContextChars(length, S) \in Nat
<1> DEFINE part(f) == Part(length, S, f)
<1>1. \A f \in Fragments : part(f) \in Nat
  BY DEF Part, Gap
<1>2. part("truth") - 2 \in Nat
  <2>1. length["truth"] \in Nat
    BY DEF Fragments, Mandatory
  <2> QED BY <2>1 DEF Part, Gap
<1> HIDE DEF part
<1>3. /\ part("reanchor") \in Nat /\ part("route_policy") \in Nat /\ part("discourse") \in Nat
      /\ part("stance") \in Nat /\ part("creative") \in Nat /\ part("creative_pack") \in Nat
      /\ part("memory") \in Nat /\ part("safety") \in Nat /\ part("stance_compact") \in Nat
      /\ part("persona") \in Nat /\ part("no_persistence") \in Nat
      /\ part("truth") \in Nat
  BY <1>1 DEF Fragments, Mandatory, Optional
<1> DEFINE rest == part("reanchor") + part("route_policy") + part("discourse")
                   + part("stance") + part("creative") + part("creative_pack")
                   + part("memory") + part("safety") + part("stance_compact")
                   + part("persona") + part("no_persistence")
<1>4. rest \in Nat
  BY <1>3
<1>5. Joined(length, S) = rest + part("truth")
  BY DEF Joined, part
<1> HIDE DEF rest
<1>6. Joined(length, S) - 2 \in Nat
  BY <1>2, <1>3, <1>4, <1>5
<1>7. S # {}
  OBVIOUS
<1> QED BY <1>6, <1>7 DEF ContextChars, Gap

(***************************************************************************)
(* What a plan promises, whatever was asked: it is never refused, it keeps *)
(* within its limit, it carries what is mandatory, and it shows nothing    *)
(* the memory knows where nothing may be recalled.                         *)
(***************************************************************************)
PlanKept(plan) ==
    /\ plan.chars <= Limit(plan.mode)
    /\ "truth" \in plan.fragments
    /\ plan.scope # "default" => "no_persistence" \in plan.fragments
    /\ plan.mode = "high_stakes" => "safety" \in plan.fragments
    /\ plan.scope # "default" \/ plan.mode = "high_stakes" => "memory" \notin plan.fragments

PlanType == [accepted : {TRUE}, mode : Modes, scope : Scopes, save : BOOLEAN,
             failed : BOOLEAN, fragments : SUBSET Fragments, chars : Nat]

THEOREM PlansKept ==
    ASSUME NEW input \in TurnInputs, NEW noSave \in BOOLEAN, NEW due \in BOOLEAN
    PROVE  Plans[noSave][due][input] \in PlanType /\ PlanKept(Plans[noSave][due][input])
<1> DEFINE route == Routed(noSave, input)
           length == Length(input, route)
           offered == Offered(input, route, due)
           context == Context(input, route, due)
           plan == Plan(noSave, due, input)
<1>1. input \in Input
  BY InputsAssumption
<1>2. route \in RouteDecision
  BY <1>1, RoutesAreValid
<1>3. PlanAccepted(input, route, due)
  BY <1>1, PlansAccepted
<1>4. \A f \in Fragments : length[f] \in Nat
  BY <1>1, LengthTypes
<1>5. Fits(length, Limit(route.mode), offered \cap Mandatory)
  BY <1>3 DEF PlanAccepted
<1> HIDE DEF route, length, offered
<1>6. /\ offered \cap Mandatory \subseteq context
      /\ context \subseteq offered
      /\ Fits(length, Limit(route.mode), context)
  <2>1. context = SelectedFragments(length, Limit(route.mode), offered)
    BY DEF Context, length, offered
  <2> HIDE DEF context
  <2> QED BY <1>5, <2>1, SelectionBounded
<1> HIDE DEF context
<1>7. offered \subseteq Fragments
  BY DEF Offered, offered
<1>8. "truth" \in context
  <2>1. "truth" \in offered
    BY DEF offered, Offered, Offers, Fragments, Mandatory
  <2> QED BY <2>1, <1>6 DEF Mandatory
<1>9. route.scope # "default" => "no_persistence" \in context
  <2>1. route.scope # "default" => "no_persistence" \in offered
    BY DEF offered, Offered, Offers, Fragments, Mandatory
  <2> QED BY <2>1, <1>6 DEF Mandatory
<1>10. route.mode = "high_stakes" => "safety" \in context
  <2>1. route.mode = "high_stakes" => "safety" \in offered
    BY DEF offered, Offered, Offers, Fragments, Mandatory
  <2> QED BY <2>1, <1>6 DEF Mandatory
<1>11. route.scope # "default" \/ route.mode = "high_stakes" => "memory" \notin context
  <2>1. "memory" \in offered => Recalls(route)
    BY DEF offered, Offered, Offers
  <2> QED BY <2>1, <1>6 DEF Recalls
<1>12. plan = [accepted |-> PlanAccepted(input, route, due),
               mode |-> route.mode, scope |-> route.scope, save |-> Saves(route),
               failed |-> ComponentFailed(noSave, input),
               fragments |-> context, chars |-> ContextChars(length, context)]
  BY DEF Plan, Chars, route, length, context
<1>13. ContextChars(length, context) \in Nat
  BY <1>4, <1>8, CharsTypes
<1>14. ContextChars(length, context) <= Limit(route.mode)
  BY <1>6 DEF Fits
<1>15. Saves(route) \in BOOLEAN /\ ComponentFailed(noSave, input) \in BOOLEAN
  BY DEF Saves, ComponentFailed
<1>16. route.mode \in Modes /\ route.scope \in Scopes
  BY <1>2 DEF RouteDecision
<1>17. PlanAccepted(input, route, due) = TRUE
  BY <1>3
<1> HIDE DEF plan
<1>18. plan \in PlanType
  BY <1>6, <1>7, <1>12, <1>13, <1>15, <1>16, <1>17 DEF PlanType
<1>19. PlanKept(plan)
  BY <1>8, <1>9, <1>10, <1>11, <1>12, <1>14 DEF PlanKept
<1>20. Plans[noSave][due][input] = plan
  BY DEF Plans, plan
<1> QED BY <1>18, <1>19, <1>20

\* A session that is not to be saved stays so: no router and no text of a later
\* turn makes its scope milder.
THEOREM NoSaveIsInherited ==
    ASSUME NEW input \in TurnInputs, NEW due \in BOOLEAN
    PROVE  Plans[TRUE][due][input].scope = "session"
<1>1. Routed(TRUE, input).scope = "session"
  BY InputsAssumption, RoutesAreValid
<1>2. Plans[TRUE][due][input] = Plan(TRUE, due, input)
  BY DEF Plans
<1>3. Plan(TRUE, due, input).scope = Routed(TRUE, input).scope
  BY DEF Plan
<1> QED BY <1>1, <1>2, <1>3

-----------------------------------------------------------------------------
(* The room a pack takes *)

LEMMA RecordSize ==
    ASSUME NEW record \in CreativeRecord
    PROVE  RecordChars(record) \in Nat /\ RecordChars(record) <= 1068
<1> DEFINE chars == record.chars
           escapes == record.escapes
           idChars == IdChars(record.id)
<1>1. chars \in 1..512 /\ escapes \in Nat /\ escapes <= chars
  BY DEF CreativeRecord, DescriptionLimit
<1>2. record.id \in {"task_fit", "mechanism_shift", "specificity", "coherence", "preference_fit"}
                    \cup AntiPatternIds
  BY DEF CreativeRecord, RubricIds
<1>3. idChars \in 8..18
  BY <1>2 DEF IdChars, AntiPatternIds
<1>4. RecordChars(record) = 26 + chars + escapes + idChars
  BY DEF RecordChars
<1> HIDE DEF chars, escapes, idChars
<1>5. 26 + chars + escapes + idChars \in Nat /\ 26 + chars + escapes + idChars <= 1068
  BY <1>1, <1>3
<1> QED BY <1>4, <1>5

LEMMA PartSize ==
    ASSUME NEW records \in Seq(CreativeRecord), NEW i \in 1..5
    PROVE  /\ PartChars(records, i) \in Nat /\ PartChars(records, i) <= 1069
           /\ i > Len(records) => PartChars(records, i) = 0
<1>1. CASE i > Len(records)
  BY <1>1 DEF PartChars
<1>2. CASE ~(i > Len(records))
  <2>1. records[i] \in CreativeRecord
    BY <1>2
  <2> DEFINE chars == RecordChars(records[i])
  <2>2. chars \in Nat /\ chars <= 1068
    BY <2>1, RecordSize
  <2>3. PartChars(records, i) = chars + (IF i = 1 THEN 0 ELSE 1)
    BY <1>2 DEF PartChars
  <2> HIDE DEF chars
  <2> QED BY <1>2, <2>2, <2>3
<1> QED BY <1>1, <1>2

\* A list of four records at most, and one of five.
LEMMA ListSize ==
    ASSUME NEW records \in Seq(CreativeRecord)
    PROVE  /\ ListChars(records) \in Nat /\ ListChars(records) <= 5345
           /\ Len(records) <= 4 => ListChars(records) <= 4276
<1> DEFINE part(i) == PartChars(records, i)
           sum == part(1) + part(2) + part(3) + part(4) + part(5)
<1>1. \A i \in 1..5 : part(i) \in Nat /\ part(i) <= 1069
  BY PartSize
<1>2. Len(records) <= 4 => part(5) = 0
  BY PartSize
<1>3. ListChars(records) = sum
  BY DEF ListChars
<1> HIDE DEF part
<1>4. sum \in Nat /\ sum <= 5345 /\ (part(5) = 0 => sum <= 4276)
  BY <1>1
<1> HIDE DEF sum
<1> QED BY <1>2, <1>3, <1>4

LEMMA PackSize ==
    ASSUME NEW pack \in FoundationPack \cup {NoPack}
    PROVE  RenderedChars(pack) \in Nat /\ RenderedChars(pack) <= RuntimeLimit
<1> SUFFICES ASSUME pack \in FoundationPack \/ pack = NoPack
             PROVE  /\ ListChars(pack.rubric) \in Nat /\ ListChars(pack.rubric) <= 5345
                    /\ ListChars(pack.anti_patterns) \in Nat
                    /\ ListChars(pack.anti_patterns) <= 4276
  <2> DEFINE r == ListChars(pack.rubric)
             a == ListChars(pack.anti_patterns)
  <2> HIDE DEF r, a
  <2>1. ASSUME r \in Nat, r <= 5345, a \in Nat, a <= 4276
        PROVE  FixedChars + r + a \in Nat /\ FixedChars + r + a <= RuntimeLimit
    BY <2>1 DEF FixedChars, RuntimeLimit
  <2>2. RenderedChars(pack) = FixedChars + r + a
    BY DEF RenderedChars, r, a
  <2> QED BY <2>1, <2>2 DEF r, a
<1>1. /\ pack.rubric \in Seq(CreativeRecord) /\ pack.anti_patterns \in Seq(CreativeRecord)
      /\ Len(pack.anti_patterns) <= 4
  <2>1. CASE pack \in FoundationPack
    BY <2>1, Zenon DEF FoundationPack
  <2>2. CASE pack = NoPack
    BY <2>2 DEF NoPack
  <2> QED BY <2>1, <2>2
<1>2. \A records \in Seq(CreativeRecord) :
         /\ ListChars(records) \in Nat /\ ListChars(records) <= 5345
         /\ Len(records) <= 4 => ListChars(records) <= 4276
  BY ListSize
<1>3. ListChars(pack.rubric) \in Nat /\ ListChars(pack.rubric) <= 5345
  BY <1>1, <1>2
<1>4. ListChars(pack.anti_patterns) \in Nat /\ ListChars(pack.anti_patterns) <= 4276
  BY <1>1, <1>2
<1> QED BY <1>3, <1>4

(***************************************************************************)
(* A runtime never loses the creative studio to the size of its pack or to *)
(* its route: whatever valid pack it is given, and wherever a turn is      *)
(* routed, by the router or one of the host's own, a plan is made for      *)
(* every text the studio accepts (_creative_fragments, with its limit of   *)
(* 16 000 characters).                                                     *)
(***************************************************************************)
THEOREM StudioServesRoutes ==
    ASSUME NEW input \in Input, NEW noSave \in BOOLEAN,
           NEW pack \in FoundationPack \cup {NoPack}
    PROVE  PlanMade(Routed(noSave, input), "plain", pack, RuntimeLimit)
<1> DEFINE route == Routed(noSave, input)
<1>1. route.candidates \in 1..16
  <2>1. CASE RouterFailed(noSave, input)
    BY <2>1 DEF Routed, SafeRoute
  <2>2. CASE ~RouterFailed(noSave, input)
    <3>1. Answer(noSave, input).candidates \in 1..16
      BY <2>2 DEF RouterFailed, RouteValid
    <3>2. \A requested : Narrowed(Answer(noSave, input), requested).candidates
                            = Answer(noSave, input).candidates
      BY DEF Narrowed
    <3> QED BY <2>2, <3>1, <3>2 DEF Routed
  <2> QED BY <2>1, <2>2
<1>2. RenderedChars(pack) <= RuntimeLimit
  BY PackSize
<1>3. RuntimeLimit \in ContextLimits
  BY DEF RuntimeLimit, ContextLimits
<1> HIDE DEF route
<1> QED BY <1>1, <1>2, <1>3 DEF PlanMade, PlanAdmitted, route

-----------------------------------------------------------------------------
(* The choice among candidates *)

LEMMA ScoreTypes ==
    ASSUME NEW score \in CandidateScore
    PROVE  /\ score.id \in Int /\ score.fit \in Int /\ score.clarity \in Int
           /\ score.novelty \in Int /\ Preferred(score) \in Int
<1>1. /\ score.id \in Nat /\ score.fit \in Metrics /\ score.clarity \in Metrics
      /\ score.novelty \in Metrics /\ score.preference \in Metrics \cup {NoPreference}
  BY DEF CandidateScore
<1>2. Metrics \subseteq Int
  BY DEF Metrics
<1>3. Nat \subseteq Int
  OBVIOUS
<1>4. score.preference # NoPreference => Preferred(score) \in Int
  BY <1>1, <1>2 DEF Preferred
<1>6. /\ score.id \in Int /\ score.fit \in Int /\ score.clarity \in Int /\ score.novelty \in Int
  BY <1>1, <1>2, <1>3, Zenon
<1>5. score.preference = NoPreference => Preferred(score) \in Int
  BY DEF Preferred
<1> QED BY <1>4, <1>5, <1>6

(***************************************************************************)
(* The ranking orders any candidates of different ids strictly and fully,  *)
(* so the outcome of select_candidate never depends on the order in which  *)
(* the scores are given, not even between candidates whose metrics all tie *)
(* or of which one states no preference.                                   *)
(***************************************************************************)
THEOREM RankingDecides ==
    ASSUME NEW scores \in SUBSET CandidateScore, Distinct(scores)
    PROVE  /\ \A a \in scores : ~RankedBefore(a, a)
           /\ \A a, b \in scores : a = b \/ RankedBefore(a, b) \/ RankedBefore(b, a)
           /\ \A a, b, c \in scores :
                 RankedBefore(a, b) /\ RankedBefore(b, c) => RankedBefore(a, c)
<1>1. ASSUME NEW a \in scores PROVE ~RankedBefore(a, a)
  BY ScoreTypes DEF RankedBefore
<1>2. ASSUME NEW a \in scores, NEW b \in scores
      PROVE  a = b \/ RankedBefore(a, b) \/ RankedBefore(b, a)
  <2>1. a.id = b.id => a = b
    BY DEF Distinct
  <2>2. a.id # b.id => RankedBefore(a, b) \/ RankedBefore(b, a)
    BY ScoreTypes DEF RankedBefore
  <2> QED BY <2>1, <2>2
<1>3. ASSUME NEW a \in scores, NEW b \in scores, NEW c \in scores,
             RankedBefore(a, b), RankedBefore(b, c)
      PROVE  RankedBefore(a, c)
  <2>1. /\ a.id \in Int /\ a.fit \in Int /\ a.clarity \in Int /\ a.novelty \in Int
        /\ Preferred(a) \in Int
        /\ b.id \in Int /\ b.fit \in Int /\ b.clarity \in Int /\ b.novelty \in Int
        /\ Preferred(b) \in Int
        /\ c.id \in Int /\ c.fit \in Int /\ c.clarity \in Int /\ c.novelty \in Int
        /\ Preferred(c) \in Int
    BY ScoreTypes
  <2> QED BY <1>3, <2>1 DEF RankedBefore
<1> QED BY <1>1, <1>2, <1>3

\* Some candidate is ranked before all others: the sets of those ranked before
\* each one are well-founded under strict inclusion.
LEMMA FirstExists ==
    ASSUME NEW scores \in SUBSET CandidateScore, Distinct(scores), IsFiniteSet(scores),
           Valid(scores) # {}
    PROVE  \E best \in Valid(scores) :
               \A other \in Valid(scores) \ {best} : RankedBefore(best, other)
<1> DEFINE V == Valid(scores)
           Before(a) == {b \in V : RankedBefore(b, a)}
           T == {Before(a) : a \in V}
           R == StrictSubsetOrdering(V)
<1>1. V \subseteq scores
  BY DEF Valid
<1>2. \A a \in V : Before(a) \in FiniteSubsetsOf(V)
  <2>1. IsFiniteSet(V)
    BY <1>1, FS_Subset
  <2>2. \A a \in V : IsFiniteSet(Before(a))
    BY <2>1, FS_Subset
  <2> QED BY <2>2 DEF FiniteSubsetsOf
<1> HIDE DEF Before
<1>3. T \subseteq FiniteSubsetsOf(V) /\ T # {}
  BY <1>2, SMT
<1> HIDE DEF T, R
<1>4. PICK X \in T : \A Y \in T : <<Y, X>> \notin R
  <2>1. IsWellFoundedOn(R, FiniteSubsetsOf(V))
    BY FS_StrictSubsetOrderingWellFounded DEF R
  <2> QED BY <1>3, <2>1, WFMin
<1>5. PICK best \in V : X = Before(best)
  BY <1>4, SMT DEF T
<1>6. ASSUME NEW other \in V \ {best} PROVE RankedBefore(best, other)
  <2>1. SUFFICES ASSUME RankedBefore(other, best) PROVE FALSE
    BY <1>1, RankingDecides
  <2>2. ASSUME NEW a \in Before(other) PROVE a \in Before(best)
    <3>1. a \in V /\ RankedBefore(a, other)
      BY DEF Before
    <3>2. RankedBefore(a, best)
      BY <1>1, <2>1, <3>1, RankingDecides
    <3> QED BY <3>1, <3>2 DEF Before
  <2>3. other \in Before(best)
    BY <2>1 DEF Before
  <2>4. other \notin Before(other)
    BY <1>1, RankingDecides DEF Before
  <2>5. <<Before(other), Before(best)>> \in R
    BY <2>2, <2>3, <2>4, <1>2 DEF R, StrictSubsetOrdering, FiniteSubsetsOf
  <2>6. Before(other) \in T
    BY DEF T
  <2> QED BY <2>5, <2>6, <1>4, <1>5
<1> QED BY <1>6

LEMMA SelectionIsBest ==
    ASSUME NEW scores \in SUBSET CandidateScore, Distinct(scores), IsFiniteSet(scores),
           Valid(scores) # {}
    PROVE  LET best == SelectedCandidate(scores)
           IN /\ best \in Valid(scores)
              /\ \A other \in Valid(scores) \ {best} :
                    RankedBefore(best, other) /\ ~RankedBefore(other, best)
<1> DEFINE best == SelectedCandidate(scores)
           First(score) == \A other \in Valid(scores) \ {score} : RankedBefore(score, other)
<1>1. Valid(scores) \subseteq scores
  BY DEF Valid
<1>2. best \in Valid(scores) /\ First(best)
  <2>1. SelectedCandidate(scores) = CHOOSE score \in Valid(scores) : First(score)
    BY DEF SelectedCandidate
  <2>2. \E score \in Valid(scores) : First(score)
    BY FirstExists
  <2> HIDE DEF First
  <2> QED BY <2>1, <2>2
<1> HIDE DEF best
<1>3. ASSUME NEW other \in Valid(scores) \ {best}
      PROVE  RankedBefore(best, other) /\ ~RankedBefore(other, best)
  <2>1. RankedBefore(best, other)
    BY <1>2
  <2>2. best \in scores /\ other \in scores
    BY <1>1, <1>2
  <2>3. ~RankedBefore(other, best)
    BY <2>1, <2>2, RankingDecides
  <2> QED BY <2>1, <2>3
<1> QED BY <1>2, <1>3 DEF best

(***************************************************************************)
(* The choice does not hang on the candidates that lose, valid or not:     *)
(* with any of them withdrawn the same one is selected.  And no valid      *)
(* candidate that is as good as the selected one by every metric is better *)
(* by any.                                                                 *)
(***************************************************************************)
THEOREM LosersDoNotDecide ==
    ASSUME NEW scores \in SUBSET CandidateScore, Distinct(scores), IsFiniteSet(scores),
           Valid(scores) # {}
    PROVE  LET best == SelectedCandidate(scores)
           IN /\ \A fewer \in SUBSET scores :
                    best \in fewer => SelectedCandidate(fewer) = best
              /\ \A other \in Valid(scores) :
                    /\ other.fit >= best.fit /\ other.clarity >= best.clarity
                    /\ other.novelty >= best.novelty /\ Preferred(other) >= Preferred(best)
                    => /\ other.fit = best.fit /\ other.clarity = best.clarity
                       /\ other.novelty = best.novelty /\ Preferred(other) = Preferred(best)
<1> PICK best : best = SelectedCandidate(scores)
  OBVIOUS
<1>1. /\ best \in Valid(scores)
      /\ \A other \in Valid(scores) \ {best} :
            RankedBefore(best, other) /\ ~RankedBefore(other, best)
  BY SelectionIsBest
<1>2. best \in scores /\ Valid(scores) \subseteq scores
  BY <1>1 DEF Valid
<1>3. ASSUME NEW fewer \in SUBSET scores, best \in fewer
      PROVE  SelectedCandidate(fewer) = best
  <2>1. Valid(fewer) \subseteq Valid(scores) /\ best \in Valid(fewer)
    BY <1>1, <1>3 DEF Valid
  <2>2. Distinct(fewer) /\ IsFiniteSet(fewer)
    BY FS_Subset DEF Distinct
  <2> PICK chosen : chosen = SelectedCandidate(fewer)
    OBVIOUS
  <2>3. /\ chosen \in Valid(fewer)
        /\ \A other \in Valid(fewer) \ {chosen} : RankedBefore(chosen, other)
    <3>1. Valid(fewer) # {} /\ fewer \in SUBSET CandidateScore
      BY <2>1
    <3> QED BY <2>2, <3>1, SelectionIsBest
  <2>4. chosen = best
    BY <1>1, <2>1, <2>3
  <2> QED BY <2>4
<1>4. ASSUME NEW other \in Valid(scores),
             other.fit >= best.fit, other.clarity >= best.clarity,
             other.novelty >= best.novelty, Preferred(other) >= Preferred(best)
      PROVE  /\ other.fit = best.fit /\ other.clarity = best.clarity
             /\ other.novelty = best.novelty /\ Preferred(other) = Preferred(best)
  <2>1. CASE other = best
    BY <2>1
  <2>2. CASE other # best
    <3>1. RankedBefore(best, other)
      BY <1>1, <2>2
    <3>2. /\ best.fit \in Int /\ best.clarity \in Int /\ best.novelty \in Int
          /\ Preferred(best) \in Int
          /\ other.fit \in Int /\ other.clarity \in Int /\ other.novelty \in Int
          /\ Preferred(other) \in Int
      BY <1>2, ScoreTypes
    <3> QED BY <1>4, <3>1, <3>2 DEF RankedBefore
  <2> QED BY <2>1, <2>2
<1> QED BY <1>3, <1>4

-----------------------------------------------------------------------------
(* The discourse guard *)

\* The openings that recommend chooses from.
LEMMA BaseType ==
    ASSUME NEW mode \in Modes, NEW connects \in BOOLEAN, NEW budget \in Budgets
    PROVE  Base(mode, connects, budget) \in TacticChain
<1>1. /\ <<"validate", "listen">> \in TacticChain
      /\ <<"specific_acknowledge", "correct">> \in TacticChain
      /\ <<"safety_frame", "direct_answer">> \in TacticChain
      /\ <<"brief_banter">> \in TacticChain
      /\ <<"connect", "brief_banter">> \in TacticChain
      /\ <<"direct_answer">> \in TacticChain
  BY DEF TacticChain, Tactics
<1> QED
  BY <1>1 DEF Base, Banter

(***************************************************************************)
(* The checks a decision makes of itself never refuse what recommend       *)
(* chooses, whatever was observed before: a turn never loses its advice,   *)
(* nor gets an error on its receipt, because of them.                      *)
(***************************************************************************)
THEOREM RecommendationAccepted ==
    ASSUME NEW history, NEW mode \in Modes, NEW connects \in BOOLEAN,
           NEW budget \in Budgets
    PROVE  Accepted(Recommend(history, mode, connects, budget))
<1> DEFINE base == Base(mode, connects, budget)
           rotates == mode = "support" /\ Repeated(history, base)
           d == Recommend(history, mode, connects, budget)
<1>1. base \in TacticChain
  BY BaseType
<1>2. <<"listen">> \in TacticChain
  BY DEF TacticChain, Tactics
<1>3. rotates \in BOOLEAN
  BY DEF Repeated
<1>4. /\ d.mode = mode /\ d.budget = budget /\ d.rotated = rotates
      /\ d.tactics = IF rotates THEN <<"listen">> ELSE base
      /\ d = [mode |-> mode, budget |-> budget, rotated |-> rotates,
              tactics |-> IF rotates THEN <<"listen">> ELSE base]
  BY DEF Recommend
<1> SUFFICES Accepted(d)
  OBVIOUS
<1> HIDE DEF d, rotates, base
<1>5. d \in Decision
  BY <1>1, <1>2, <1>3, <1>4 DEF Decision
<1>6. CASE rotates
  <2>1. mode = "support"
    BY <1>6 DEF rotates
  <2> QED
    BY <1>4, <1>5, <1>6, <2>1 DEF Accepted
<1>7. CASE ~rotates
  <2>1. d.tactics = base /\ ~d.rotated
    BY <1>4, <1>7
  <2>2. mode = "high_stakes" => base = <<"safety_frame", "direct_answer">>
    BY DEF base, Base
  <2>3. mode = "repair" => base = <<"specific_acknowledge", "correct">>
    BY DEF base, Base
  <2>4. ShapeFits(d)
    BY <1>4, <2>1 DEF ShapeFits, base, Base, Banter, Modes
  <2>5. mode = "high_stakes" =>
          /\ \A i \in 1..Len(d.tactics) :
                d.tactics[i] \notin {"joke", "brief_banter", "challenge"}
          /\ d.tactics[1] = "safety_frame"
    <3>1. ASSUME mode = "high_stakes"
          PROVE  /\ Len(d.tactics) = 2
                 /\ d.tactics[1] = "safety_frame" /\ d.tactics[2] = "direct_answer"
      BY <2>1, <2>2, <3>1
    <3>2. \A i \in 1..2 : i = 1 \/ i = 2
      OBVIOUS
    <3> QED
      BY <3>1, <3>2
  <2>6. mode = "repair" => Starts(d.tactics, <<"specific_acknowledge", "correct">>)
    BY <2>1, <2>3 DEF Starts
  <2> QED
    BY <1>4, <1>5, <2>1, <2>4, <2>5, <2>6 DEF Accepted
<1> QED
  BY <1>6, <1>7

(***************************************************************************)
(* A rotation lasts one turn: once the rotated opening was followed, the   *)
(* next recommendation is the usual one again.                             *)
(***************************************************************************)
THEOREM RotationLastsOneTurn ==
    ASSUME NEW history \in Seq(TacticChain), NEW connects \in BOOLEAN,
           NEW budget \in Budgets
    PROVE  ~Recommend(Remembered(history, <<"listen">>), "support", connects,
                      budget).rotated
<1> DEFINE kept == IF Len(history) < DiscourseLimit THEN history ELSE Tail(history)
           next == Remembered(history, <<"listen">>)
           base == Base("support", connects, budget)
<1>1. kept \in Seq(TacticChain)
  BY DiscourseAssumption
<1>2. next = Append(kept, <<"listen">>)
  BY DEF Remembered
<1>3. Len(next) \in Nat \ {0} /\ next[Len(next)] = <<"listen">>
  BY <1>1, <1>2
<1>4. base = <<"validate", "listen">>
  BY DEF Base
<1>5. ~PrefixRelated(<<"listen">>, base)
  <2>1. /\ Len(<<"listen">>) = 1 /\ <<"listen">>[1] = "listen"
        /\ Len(base) = 2 /\ base[1] = "validate"
    BY <1>4
  <2> HIDE DEF base
  <2> QED
    BY <2>1 DEF PrefixRelated
<1> HIDE DEF kept, next, base
<1>6. ~Repeated(next, base)
  BY <1>3, <1>5, DiscourseAssumption DEF Repeated
<1>7. Recommend(next, "support", connects, budget).rotated =
          ("support" = "support" /\ Repeated(next, base))
  BY DEF Recommend, base
<1> QED
  BY <1>6, <1>7 DEF next

(***************************************************************************)
(* A guard forgets all but the last DiscourseLimit chains, and decides as  *)
(* one that forgot none would: what it keeps still ends every history the  *)
(* way the session's whole history ends, and its advice depends on no      *)
(* more.                                                                   *)
(***************************************************************************)
EndOf(kept, whole) ==
    /\ Len(kept) = IF Len(whole) < DiscourseLimit THEN Len(whole) ELSE DiscourseLimit
    /\ \A i \in 1..Len(kept) : kept[i] = whole[Len(whole) - Len(kept) + i]

LEMMA RememberedEnds ==
    ASSUME NEW kept \in Seq(TacticChain), NEW whole \in Seq(TacticChain),
           NEW chain \in TacticChain, EndOf(kept, whole)
    PROVE  EndOf(Remembered(kept, chain), Append(whole, chain))
<1>1. CASE Len(whole) < DiscourseLimit
  BY <1>1, DiscourseAssumption DEF EndOf, Remembered
<1>2. CASE Len(whole) >= DiscourseLimit
  <2>1. /\ Len(kept) = DiscourseLimit /\ DiscourseLimit \in Nat \ {0}
        /\ Len(whole) \in Nat
    BY <1>2, DiscourseAssumption DEF EndOf
  <2>2. /\ Tail(kept) \in Seq(TacticChain) /\ Len(Tail(kept)) = DiscourseLimit - 1
        /\ \A i \in 1..(DiscourseLimit - 1) : Tail(kept)[i] = kept[i + 1]
    BY <2>1
  <2> DEFINE next == Append(Tail(kept), chain)
             all == Append(whole, chain)
  <2>3. Remembered(kept, chain) = next
    BY <2>1 DEF Remembered
  <2>4. Len(next) = DiscourseLimit /\ Len(all) = Len(whole) + 1
    BY <2>1, <2>2
  <2>5. ASSUME NEW i \in 1..DiscourseLimit
        PROVE  next[i] = all[Len(whole) + 1 - DiscourseLimit + i]
    <3>1. CASE i = DiscourseLimit
      BY <2>1, <2>2, <3>1
    <3>2. CASE i < DiscourseLimit
      <4>1. next[i] = kept[i + 1]
        BY <2>1, <2>2, <3>2
      <4>2. kept[i + 1] = whole[Len(whole) - DiscourseLimit + (i + 1)]
        <5>1. \A k \in 1..DiscourseLimit :
                  kept[k] = whole[Len(whole) - DiscourseLimit + k]
          BY <2>1 DEF EndOf
        <5>2. i + 1 \in 1..DiscourseLimit
          BY <2>1, <3>2
        <5> HIDE DEF next, all
        <5> QED
          BY <5>1, <5>2
      <4>3. /\ Len(whole) - DiscourseLimit + (i + 1) = Len(whole) + 1 - DiscourseLimit + i
            /\ Len(whole) + 1 - DiscourseLimit + i \in 1..Len(whole)
        BY <1>2, <2>1, <3>2
      <4>4. \A j \in 1..Len(whole) : all[j] = whole[j]
        OBVIOUS
      <4> HIDE DEF next, all
      <4> QED
        BY <4>1, <4>2, <4>3, <4>4
    <3>3. i = DiscourseLimit \/ i < DiscourseLimit
      BY <2>1
    <3> HIDE DEF next, all
    <3> QED
      BY <3>1, <3>2, <3>3
  <2> HIDE DEF next, all
  <2>6. EndOf(next, all)
    BY <1>2, <2>1, <2>4, <2>5 DEF EndOf
  <2> QED
    BY <2>3, <2>6 DEF all
<1> QED
  BY <1>1, <1>2, DiscourseAssumption

THEOREM BoundedHistoryDecides ==
    ASSUME NEW kept \in Seq(TacticChain), NEW whole \in Seq(TacticChain),
           EndOf(kept, whole),
           NEW mode \in Modes, NEW connects \in BOOLEAN, NEW budget \in Budgets
    PROVE  Recommend(kept, mode, connects, budget)
               = Recommend(whole, mode, connects, budget)
<1> DEFINE base == Base(mode, connects, budget)
           k == Len(kept)
           w == Len(whole)
<1>1. /\ k \in Nat /\ w \in Nat /\ k <= w
      /\ RepetitionThreshold \in Nat
      /\ k >= RepetitionThreshold <=> w >= RepetitionThreshold
      /\ k >= RepetitionThreshold \/ k = w
  BY DiscourseAssumption DEF EndOf
<1>2. \A i \in 1..k : kept[i] = whole[w - k + i]
  BY DEF EndOf
<1> HIDE DEF base, k, w
<1>3. ASSUME Repeated(kept, base)
      PROVE  Repeated(whole, base)
  <2>1. k >= RepetitionThreshold /\ w >= RepetitionThreshold
    BY <1>1, <1>3 DEF Repeated, k
  <2>2. ASSUME NEW j \in 1..w, j > w - RepetitionThreshold
        PROVE  PrefixRelated(whole[j], base)
    <3> DEFINE i == j - (w - k)
    <3>1. i \in 1..k /\ i > k - RepetitionThreshold /\ w - k + i = j
      BY <1>1, <2>1, <2>2
    <3>2. kept[i] = whole[j]
      BY <1>2, <3>1
    <3>3. PrefixRelated(kept[i], base)
      BY <1>3, <3>1 DEF Repeated, k
    <3> QED
      BY <3>2, <3>3
  <2> QED
    BY <2>1, <2>2 DEF Repeated, w
<1>4. ASSUME Repeated(whole, base)
      PROVE  Repeated(kept, base)
  <2>1. k >= RepetitionThreshold /\ w >= RepetitionThreshold
    BY <1>1, <1>4 DEF Repeated, w
  <2>2. ASSUME NEW i \in 1..k, i > k - RepetitionThreshold
        PROVE  PrefixRelated(kept[i], base)
    <3> DEFINE j == w - k + i
    <3>1. j \in 1..w /\ j > w - RepetitionThreshold
      BY <1>1, <2>1, <2>2
    <3>2. PrefixRelated(whole[j], base)
      BY <1>4, <3>1 DEF Repeated, w
    <3> QED
      BY <1>2, <3>2
  <2> QED
    BY <2>1, <2>2 DEF Repeated, k
<1>5. Repeated(kept, base) = Repeated(whole, base)
  BY <1>3, <1>4 DEF Repeated
<1> QED
  BY <1>5 DEF Recommend, base
-----------------------------------------------------------------------------
(* Functions on parts of a set *)

Partial(X, Y) == UNION {[S -> Y] : S \in SUBSET X}

LEMMA PartialFun ==
    ASSUME NEW X, NEW Y, NEW f
    PROVE  f \in Partial(X, Y) <=> DOMAIN f \subseteq X /\ f \in [DOMAIN f -> Y]
BY DEF Partial

LEMMA WithFun ==
    ASSUME NEW X, NEW Y, NEW f \in Partial(X, Y), NEW x \in X, NEW y \in Y
    PROVE  With(f, x, y) \in Partial(X, Y)
BY PartialFun DEF With

LEMMA WithoutFun ==
    ASSUME NEW X, NEW Y, NEW f \in Partial(X, Y), NEW S
    PROVE  Without(f, S) \in Partial(X, Y)
BY PartialFun DEF Without

LEMMA WithoutIsSame ==
    ASSUME NEW f, f = [z \in DOMAIN f |-> f[z]], NEW S, \A z \in S : z \notin DOMAIN f
    PROVE  Without(f, S) = f
<1>1. DOMAIN f \ S = DOMAIN f
  OBVIOUS
<1> QED BY <1>1 DEF Without

\* One more of a finite set within a limit it had not reached.
LEMMA OneMore ==
    ASSUME NEW S, IsFiniteSet(S), NEW x, NEW limit \in Nat,
           Cardinality(S) <= limit, x \in S \/ Cardinality(S) < limit
    PROVE  IsFiniteSet(S \cup {x}) /\ Cardinality(S \cup {x}) <= limit
<1>1. IsFiniteSet(S \cup {x})
      /\ Cardinality(S \cup {x}) = IF x \in S THEN Cardinality(S) ELSE Cardinality(S) + 1
  BY FS_AddElement
<1>2. Cardinality(S) \in Nat
  BY FS_CardinalityType
<1> QED BY <1>1, <1>2

LEMMA NoMore ==
    ASSUME NEW S, IsFiniteSet(S), NEW T \in SUBSET S, NEW limit \in Nat, Cardinality(S) <= limit
    PROVE  IsFiniteSet(T) /\ Cardinality(T) <= limit
<1>1. IsFiniteSet(T) /\ Cardinality(T) <= Cardinality(S)
  BY FS_Subset
<1>2. Cardinality(T) \in Nat /\ Cardinality(S) \in Nat
  BY <1>1, FS_CardinalityType
<1> QED BY <1>1, <1>2

-----------------------------------------------------------------------------
(* The drift sentinel *)

\* What the sentinel of a session has counted.
Sane(drift) ==
    /\ drift \in Sentinel
    /\ drift.breaches < ConsecutiveRequired
    /\ SnapshotAccepted(drift)

LEMMA NewSentinelSane == Sane(NewSentinel)
BY SentinelAssumption DEF Sane, Sentinel, NewSentinel, SnapshotAccepted

LEMMA EvaluateSane ==
    ASSUME NEW drift, Sane(drift), NEW probe \in Probes
    PROVE  /\ Sane(Evaluate(drift, probe))
           /\ DecisionAccepted(drift, probe)
           /\ Evaluate(drift, probe).cooldown =
                 IF Anchors(drift, probe) THEN CooldownTurns ELSE CooledDown(drift)
           /\ Anchors(drift, probe) => drift.cooldown = 0
<1>1. /\ drift.breaches \in 0..ConsecutiveRequired /\ drift.cooldown \in 0..CooldownTurns
      /\ drift.scores \in 0..HistoryLimit
      /\ drift.breaches < ConsecutiveRequired
      /\ drift.breaches <= drift.scores
      /\ drift.breaches = 0 \/ drift.cooldown = 0
      /\ drift.scores = 0 => drift.breaches = 0 /\ drift.cooldown = 0
  BY DEF Sane, Sentinel, SnapshotAccepted
<1>2. /\ ConsecutiveRequired \in 1..8 /\ CooldownTurns \in 0..64 /\ HistoryLimit \in 1..32
      /\ ConsecutiveRequired <= HistoryLimit
  BY SentinelAssumption
<1> DEFINE next == Evaluate(drift, probe)
<1>3. next = [breaches |-> IF Anchors(drift, probe) THEN 0 ELSE Breaches(drift, probe),
              cooldown |-> IF Anchors(drift, probe) THEN CooldownTurns ELSE CooledDown(drift),
              scores |-> IF drift.scores < HistoryLimit THEN drift.scores + 1
                         ELSE HistoryLimit]
  BY DEF Evaluate
<1>4. CASE CoolingDown(drift)
  <2>1. drift.cooldown > 0 /\ drift.breaches = 0
    BY <1>1, <1>4 DEF CoolingDown
  <2>2. ~Anchors(drift, probe) /\ Breaches(drift, probe) = 0
    BY <1>4 DEF Anchors, Breaches
  <2>3. CooledDown(drift) = drift.cooldown - 1
    BY <1>4 DEF CooledDown
  <2>4. next.breaches = 0 /\ next.cooldown = drift.cooldown - 1
    BY <1>3, <2>2, <2>3
  <2>5. next \in Sentinel
    BY <1>1, <1>2, <1>3, <2>1, <2>2, <2>3 DEF Sentinel
  <2>6. next.scores > 0
    BY <1>1, <1>2, <1>3
  <2>7. Sane(next)
    <3>1. next.breaches < ConsecutiveRequired
      BY <1>2, <2>4
    <3>2. next.breaches <= next.scores /\ next.scores # 0
      <4>1. next.scores \in Int
        BY <1>2, <2>5 DEF Sentinel
      <4> HIDE DEF next
      <4> QED BY <2>4, <2>6, <4>1
    <3> HIDE DEF next
    <3> QED BY <2>4, <2>5, <3>1, <3>2 DEF Sane, SnapshotAccepted
  <2>8. DecisionAccepted(drift, probe)
    BY <1>1, <1>2, <1>4, <2>1, <2>2, <2>4 DEF DecisionAccepted
  <2> QED BY <1>3, <2>2, <2>7, <2>8
<1>5. CASE ~CoolingDown(drift)
  <2>1. drift.cooldown = 0 /\ CooledDown(drift) = 0
    BY <1>1, <1>5 DEF CoolingDown, CooledDown
  <2>2. Breaches(drift, probe) = IF Breached(probe) THEN drift.breaches + 1 ELSE 0
    BY <1>5 DEF Breaches
  <2>3. next.scores \in 1..HistoryLimit /\ next.scores >= drift.scores
        /\ (next.scores = drift.scores + 1 \/ next.scores = HistoryLimit)
    BY <1>1, <1>2, <1>3
  <2>4. CASE Anchors(drift, probe)
    <3>1. next.breaches = 0 /\ next.cooldown = CooldownTurns
      BY <1>3, <2>4
    <3>2. next \in Sentinel
      BY <1>2, <1>3, <2>3, <2>4 DEF Sentinel
    <3>3. Sane(next)
      BY <1>2, <2>3, <3>1, <3>2 DEF Sane, SnapshotAccepted
    <3>4. Breached(probe)
      BY <1>2, <2>2, <2>4 DEF Anchors, Breached
    <3>5. DecisionAccepted(drift, probe)
      BY <1>2, <1>5, <2>4, <3>1, <3>4 DEF DecisionAccepted
    <3> QED BY <1>3, <2>1, <3>3, <3>5
  <2>5. CASE ~Anchors(drift, probe)
    <3>1. next.breaches = Breaches(drift, probe) /\ next.cooldown = 0
      BY <1>3, <2>1, <2>5
    <3>2. Breaches(drift, probe) \in 0..(ConsecutiveRequired - 1)
      BY <1>1, <1>2, <1>5, <2>2, <2>5 DEF Anchors
    <3>3. next \in Sentinel
      BY <1>2, <1>3, <2>1, <2>3, <2>5, <3>2 DEF Sentinel
    <3>4. next.breaches <= next.scores
      BY <1>1, <1>2, <2>2, <2>3, <3>1, <3>2
    <3>5. Sane(next)
      BY <1>2, <2>3, <3>1, <3>2, <3>3, <3>4 DEF Sane, SnapshotAccepted
    <3>6. next.breaches > 0 => Breached(probe)
      BY <2>2, <3>1
    <3>7. probe # "severe"
      BY <1>5, <2>5 DEF Anchors
    <3>8. DecisionAccepted(drift, probe)
      BY <1>2, <1>5, <2>5, <3>1, <3>2, <3>6, <3>7 DEF DecisionAccepted
    <3> QED BY <1>3, <2>5, <3>5, <3>8
  <2> QED BY <2>4, <2>5
<1> QED BY <1>4, <1>5

-----------------------------------------------------------------------------
(* The receipts kept *)

\* Induction, for sets of numbers: a number left out would be a least one.
LEMMA EveryNatural ==
    ASSUME NEW S, 0 \in S, \A n \in Nat : n \in S => n + 1 \in S
    PROVE  Nat \subseteq S
<1> SUFFICES ASSUME NEW k \in Nat, k \notin S PROVE FALSE
  OBVIOUS
<1> DEFINE Below(n) == 0 .. n - 1
           T == {Below(n) : n \in Nat \ S}
           R == StrictSubsetOrdering(Nat)
<1>1. \A n \in Nat : Below(n) \in FiniteSubsetsOf(Nat)
  <2> TAKE n \in Nat
  <2>1. IsFiniteSet(Below(n))
    BY FS_Interval, n - 1 \in Int, 0 \in Int
  <2> QED BY <2>1 DEF FiniteSubsetsOf
<1>2. T \subseteq FiniteSubsetsOf(Nat) /\ T # {}
  BY <1>1
<1>3. PICK X \in T : \A Y \in T : <<Y, X>> \notin R
  <2> HIDE DEF T, R
  <2>1. IsWellFoundedOn(R, FiniteSubsetsOf(Nat))
    BY FS_StrictSubsetOrderingWellFounded DEF R
  <2> QED BY <1>2, <2>1, WFMin
<1>4. PICK x \in Nat \ S : X = Below(x)
  BY <1>3
<1>5. x - 1 \in Nat /\ x - 1 \notin S
  BY <1>4, x # 0, x = (x - 1) + 1
<1>6. Below(x - 1) \subseteq Below(x) /\ Below(x - 1) # Below(x)
  BY <1>5, x - 1 \in Below(x), x - 1 \notin Below(x - 1)
<1>7. <<Below(x - 1), Below(x)>> \in R
  BY <1>1, <1>4, <1>5, <1>6 DEF StrictSubsetOrdering, FiniteSubsetsOf
<1> QED BY <1>3, <1>4, <1>5, <1>7

\* One receipt more is kept, if it is another session's.
KeptTo(g, receipts, s, i) ==
    IF i = 0 THEN <<>>
    ELSE IF receipts[i].session = s THEN g[i - 1]
    ELSE Append(g[i - 1], receipts[i])

\* The receipts kept of the first ones are those of the other sessions, in a
\* sequence that is no longer and names no turn twice.
KeptOf(kept, receipts, s, n) ==
    /\ kept \in Seq(Receipt)
    /\ Len(kept) <= n
    /\ \A i \in 1..Len(kept) :
          kept[i].session # s /\ \E j \in 1..n : kept[i] = receipts[j]
    /\ \A j \in 1..n : receipts[j].session # s => \E i \in 1..Len(kept) : kept[i] = receipts[j]
    /\ \A i, j \in 1..Len(kept) : kept[i].turn = kept[j].turn => i = j

OneReceipt(receipts) ==
    \A i, j \in 1..Len(receipts) : receipts[i].turn = receipts[j].turn => i = j

\* The recursion in KeptReceipts has a solution.
LEMMA KeptExists ==
    ASSUME NEW receipts \in Seq(Receipt), NEW s
    PROVE  \E g : g = [i \in 0..Len(receipts) |-> KeptTo(g, receipts, s, i)]
<1> DEFINE S == {m \in Nat : \E g : g = [i \in 0..m |-> KeptTo(g, receipts, s, i)]}
<1>1. 0 \in S
  <2> DEFINE g == [i \in 0..0 |-> <<>>]
  <2>1. g = [i \in 0..0 |-> KeptTo(g, receipts, s, i)]
    BY DEF KeptTo
  <2> QED BY <2>1
<1>2. ASSUME NEW m \in Nat, m \in S PROVE m + 1 \in S
  <2>1. PICK f : f = [i \in 0..m |-> KeptTo(f, receipts, s, i)]
    BY <1>2
  <2> DEFINE g == [i \in 0..m + 1 |-> IF i = m + 1 THEN KeptTo(f, receipts, s, i) ELSE f[i]]
  <2>2. ASSUME NEW i \in 0..m + 1 PROVE g[i] = KeptTo(g, receipts, s, i)
    <3>1. i = 0 \/ (i - 1 \in 0..m + 1 /\ i - 1 # m + 1)
      BY <2>2
    <3>2. i = 0 \/ g[i - 1] = f[i - 1]
      BY <3>1
    <3>3. KeptTo(g, receipts, s, i) = KeptTo(f, receipts, s, i)
      BY <3>2 DEF KeptTo
    <3>4. i # m + 1 => i \in 0..m
      BY <2>2
    <3>5. i # m + 1 => f[i] = KeptTo(f, receipts, s, i)
      BY <2>1, <3>4
    <3> QED BY <3>3, <3>5
  <2>3. g = [i \in 0..m + 1 |-> KeptTo(g, receipts, s, i)]
    BY <2>2
  <2> HIDE DEF g
  <2> QED BY <2>3
<1> HIDE DEF S
<1>3. Nat \subseteq S
  BY <1>1, <1>2, EveryNatural
<1> QED BY <1>3, Len(receipts) \in Nat DEF S

\* finalize keeps the receipts of the other sessions and no others.
LEMMA KeptFacts ==
    ASSUME NEW receipts \in Seq(Receipt), OneReceipt(receipts), NEW s
    PROVE  KeptOf(KeptReceipts(receipts, s), receipts, s, Len(receipts))
<1> DEFINE n == Len(receipts)
           g == CHOOSE g : g = [i \in 0..n |-> KeptTo(g, receipts, s, i)]
           S == {m \in Nat : m <= n => KeptOf(g[m], receipts, s, m)}
<1>1. g = [i \in 0..n |-> KeptTo(g, receipts, s, i)]
  BY KeptExists
<1>2. KeptReceipts(receipts, s) = g[n]
  BY DEF KeptReceipts, KeptTo
<1>3. n \in Nat /\ \A j \in 1..n : receipts[j] \in Receipt
  OBVIOUS
<1> HIDE DEF g
<1>4. 0 \in S
  <2>1. g[0] = <<>>
    BY <1>1, <1>3 DEF KeptTo
  <2>2. KeptOf(<<>>, receipts, s, 0)
    BY DEF KeptOf
  <2> QED BY <2>1, <2>2
<1>5. ASSUME NEW m \in Nat, m \in S PROVE m + 1 \in S
  <2> SUFFICES ASSUME m + 1 <= n PROVE KeptOf(g[m + 1], receipts, s, m + 1)
    OBVIOUS
  <2> DEFINE old == g[m]
             receipt == receipts[m + 1]
  <2>1. KeptOf(old, receipts, s, m)
    BY <1>3, <1>5
  <2>2. m + 1 \in 1..n /\ m \in 0..n /\ m + 1 \in 0..n /\ (m + 1) - 1 = m /\ m + 1 # 0
    BY <1>3
  <2>3. g[m + 1] = IF receipt.session = s THEN old ELSE Append(old, receipt)
    BY <1>1, <2>2 DEF KeptTo
  <2>4. receipt \in Receipt
    BY <1>3, <2>2
  <2>5. \A j \in 1..m + 1 : j \in 1..m \/ j = m + 1
    OBVIOUS
  <2>6. \A j \in 1..m : j \in 1..m + 1 /\ j \in 1..n /\ j # m + 1
    BY <2>2
  <2> HIDE DEF old, receipt, n
  <2>7. CASE receipt.session = s
    <3>1. g[m + 1] = old
      BY <2>3, <2>7
    <3>2. old \in Seq(Receipt) /\ Len(old) <= m + 1
      BY <2>1 DEF KeptOf
    <3>3. \A i \in 1..Len(old) :
             old[i].session # s /\ \E j \in 1..m + 1 : old[i] = receipts[j]
      BY <2>1, <2>6 DEF KeptOf
    <3>4. \A j \in 1..m + 1 :
             receipts[j].session # s => \E i \in 1..Len(old) : old[i] = receipts[j]
      BY <2>1, <2>5, <2>7 DEF KeptOf, receipt
    <3>5. KeptOf(old, receipts, s, m + 1)
      BY <2>1, <3>2, <3>3, <3>4 DEF KeptOf
    <3> QED BY <3>1, <3>5
  <2>8. CASE receipt.session # s
    <3> DEFINE new == Append(old, receipt)
               k == Len(old)
    <3>1. old \in Seq(Receipt) /\ k \in Nat /\ k <= m
      BY <2>1 DEF KeptOf
    <3>2. /\ new \in Seq(Receipt) /\ Len(new) = k + 1 /\ new[k + 1] = receipt
          /\ \A i \in 1..k : new[i] = old[i] /\ i \in 1..k + 1 /\ i # k + 1
          /\ k + 1 \in 1..k + 1 /\ \A i \in 1..k + 1 : i \in 1..k \/ i = k + 1
      BY <2>4, <3>1
    <3>3. \A i \in 1..k : old[i].turn # receipt.turn
      <4>1. ASSUME NEW i \in 1..k, old[i].turn = receipt.turn PROVE FALSE
        <5>1. PICK j \in 1..m : old[i] = receipts[j]
          BY <2>1 DEF KeptOf
        <5> QED BY <2>2, <2>6, <4>1, <5>1 DEF OneReceipt, receipt, n
      <4> QED BY <4>1
    <3> HIDE DEF new
    <3>4. \A i \in 1..k + 1 :
             new[i].session # s /\ \E j \in 1..m + 1 : new[i] = receipts[j]
      <4>1. \A i \in 1..k : old[i].session # s /\ \E j \in 1..m : old[i] = receipts[j]
        BY <2>1 DEF KeptOf
      <4>2. new[k + 1].session # s /\ new[k + 1] = receipts[m + 1] /\ m + 1 \in 1..m + 1
        BY <2>8, <3>2 DEF receipt
      <4> HIDE DEF k
      <4> QED BY <2>6, <3>2, <4>1, <4>2
    <3>5. \A j \in 1..m + 1 :
             receipts[j].session # s => \E i \in 1..k + 1 : new[i] = receipts[j]
      <4>1. ASSUME NEW j \in 1..m, receipts[j].session # s
            PROVE  \E i \in 1..k + 1 : new[i] = receipts[j]
        <5>1. PICK i \in 1..k : old[i] = receipts[j]
          BY <2>1, <4>1 DEF KeptOf
        <5> QED BY <3>2, <5>1
      <4>2. \E i \in 1..k + 1 : new[i] = receipts[m + 1]
        BY <3>2 DEF receipt
      <4> QED BY <2>5, <4>1, <4>2
    <3>6. \A i, j \in 1..k + 1 : new[i].turn = new[j].turn => i = j
      <4>1. \A i, j \in 1..k : old[i].turn = old[j].turn => i = j
        BY <2>1 DEF KeptOf
      <4> HIDE DEF k
      <4> QED BY <3>2, <3>3, <4>1
    <3>7. k + 1 <= m + 1
      BY <3>1
    <3>8. KeptOf(new, receipts, s, m + 1)
      BY <3>2, <3>4, <3>5, <3>6, <3>7 DEF KeptOf
    <3> QED BY <2>3, <2>8, <3>8 DEF new
  <2> QED BY <2>7, <2>8
<1> HIDE DEF S
<1>6. Nat \subseteq S
  BY <1>4, <1>5, EveryNatural
<1>7. KeptOf(g[n], receipts, s, n)
  BY <1>3, <1>6 DEF S
<1> QED BY <1>2, <1>7

-----------------------------------------------------------------------------
(***************************************************************************)
(* The state of a runtime.  Its sessions and turns in progress are what    *)
(* they should be, a turn's session exists, and the maps stay within their *)
(* limits; its map of owners knows the turns in progress and the receipts  *)
(* kept: no turn is both, none has two receipts, and every one has its     *)
(* session.                                                                *)
(***************************************************************************)
Live(r) ==
    /\ r = [sessions |-> r.sessions, pending |-> r.pending, completed |-> r.completed,
            owners |-> r.owners]
    /\ r.sessions \in Partial(Sessions, SessionState)
    /\ r.pending \in Partial(Turns, PendingTurn)
    /\ \A t \in DOMAIN r.pending : r.pending[t].session \in DOMAIN r.sessions

SessionsKept(r) ==
    /\ \A s \in DOMAIN r.sessions :
          /\ Sane(r.sessions[s].drift)
          /\ Len(r.sessions[s].discourse) <= DiscourseLimit
    /\ IsFiniteSet(DOMAIN r.sessions)
    /\ Cardinality(DOMAIN r.sessions) <= SessionLimit

TurnsKept(r) ==
    /\ IsFiniteSet(DOMAIN r.pending)
    /\ Cardinality(DOMAIN r.pending) <= ActiveTurnLimit

ReceiptsKept(r) ==
    /\ r.completed \in Seq(Receipt)
    /\ Len(r.completed) <= ActiveTurnLimit
    /\ OneReceipt(r.completed)

\* The places of its receipts, and that turn t has one of them.
Places(r) == 1..Len(r.completed)
Has(r, t) == \E i \in Places(r) : r.completed[i].turn = t

Owned(r) ==
    /\ r.owners = [t \in DOMAIN r.owners |-> r.owners[t]]
    /\ \A t : t \in DOMAIN r.owners <=> t \in DOMAIN r.pending \/ Has(r, t)
    /\ \A t \in DOMAIN r.pending : ~Has(r, t) /\ r.owners[t] = r.pending[t].session
    /\ \A i \in Places(r) : r.owners[r.completed[i].turn] = r.completed[i].session
    /\ \A t \in DOMAIN r.owners : r.owners[t] \in DOMAIN r.sessions

Sound(r) == Live(r) /\ SessionsKept(r) /\ TurnsKept(r) /\ ReceiptsKept(r) /\ Owned(r)

LEMMA NewRuntimeIsSound == Sound(NewRuntime)
<1> DEFINE r == NewRuntime
<1>1. /\ r.sessions = <<>> /\ r.pending = <<>> /\ r.completed = <<>> /\ r.owners = <<>>
      /\ r = [sessions |-> r.sessions, pending |-> r.pending, completed |-> r.completed,
              owners |-> r.owners]
  BY DEF NewRuntime
<1> HIDE DEF r
<1>2. DOMAIN r.sessions = {} /\ DOMAIN r.pending = {} /\ DOMAIN r.owners = {} /\ Places(r) = {}
  BY <1>1 DEF Places
<1>3. IsFiniteSet({}) /\ Cardinality({}) = 0 /\ 0 <= SessionLimit /\ 0 <= ActiveTurnLimit
  BY FS_EmptySet, RuntimeAssumption
<1>4. Live(r)
  <2>1. \A X, Y : <<>> \in Partial(X, Y)
    <3> SUFFICES ASSUME NEW X, NEW Y PROVE <<>> \in Partial(X, Y)
      OBVIOUS
    <3>1. <<>> \in [{} -> Y]
      OBVIOUS
    <3> QED BY <3>1 DEF Partial
  <2> QED BY <1>1, <1>2, <2>1 DEF Live
<1>5. SessionsKept(r) /\ TurnsKept(r)
  <2>1. /\ IsFiniteSet(DOMAIN r.sessions) /\ IsFiniteSet(DOMAIN r.pending)
        /\ Cardinality(DOMAIN r.sessions) <= SessionLimit
        /\ Cardinality(DOMAIN r.pending) <= ActiveTurnLimit
    BY <1>2, <1>3
  <2> QED BY <1>2, <2>1 DEF SessionsKept, TurnsKept
<1>6. ReceiptsKept(r)
  <2>1. <<>> \in Seq(Receipt) /\ Len(<<>>) = 0
    OBVIOUS
  <2> QED BY <1>1, <1>3, <2>1 DEF ReceiptsKept, OneReceipt
<1>7. Owned(r)
  <2>1. \A t : ~Has(r, t)
    BY <1>2 DEF Has
  <2>2. r.owners = [t \in DOMAIN r.owners |-> r.owners[t]]
    BY <1>1
  <2> QED BY <1>2, <2>1, <2>2 DEF Owned
<1> QED BY <1>4, <1>5, <1>6, <1>7 DEF Sound, r

-----------------------------------------------------------------------------
(* prepare *)

LEMMA SessionKept ==
    ASSUME NEW r, Sound(r), NEW s
    PROVE  /\ Session(r, s) \in SessionState
           /\ Sane(Session(r, s).drift)
           /\ Len(Session(r, s).discourse) <= DiscourseLimit
<1>1. CASE s \in DOMAIN r.sessions
  <2>1. r.sessions[s] \in SessionState
    BY <1>1, PartialFun DEF Sound, Live
  <2> QED BY <1>1, <2>1 DEF Sound, Session, SessionsKept
<1>2. CASE s \notin DOMAIN r.sessions
  <2>1. Session(r, s) = NewSession
    BY <1>2 DEF Session
  <2>2. NewSentinel \in Sentinel /\ Sane(NewSentinel)
    BY NewSentinelSane DEF Sane
  <2>3. <<>> \in Seq(Chains) /\ Len(<<>>) <= DiscourseLimit
    BY DiscourseAssumption
  <2>4. NewSession \in SessionState
    BY <2>2, <2>3 DEF NewSession, SessionState
  <2> QED BY <2>1, <2>2, <2>3, <2>4 DEF NewSession
<1> QED BY <1>1, <1>2

LEMMA PlanGiven ==
    ASSUME NEW r, Sound(r), NEW s, NEW input \in TurnInputs
    PROVE  PlanOf(r, s, input) \in PlanType /\ PlanKept(PlanOf(r, s, input))
<1>1. Session(r, s).noSave \in BOOLEAN /\ Session(r, s).reanchor \in BOOLEAN
  BY SessionKept DEF SessionState
<1> QED BY <1>1, PlansKept DEF PlanOf

LEMMA NoSaveStays ==
    ASSUME NEW r, Sound(r), NEW s, NEW input \in TurnInputs, Session(r, s).noSave
    PROVE  PlanOf(r, s, input).scope = "session"
<1>1. Session(r, s).noSave = TRUE /\ Session(r, s).reanchor \in BOOLEAN
  BY SessionKept DEF SessionState
<1> QED BY <1>1, NoSaveIsInherited DEF PlanOf

\* What a turn makes of its session when it is routed, and then when its
\* context is chosen.
Open(old, plan) == [old EXCEPT !.noSave = @ \/ plan.scope = "session"]
Chosen(old, plan) == [Open(old, plan) EXCEPT !.reanchor = StillDue(@, plan.fragments)]

\* What a turn with this scope may leave of a session: what it was, but for
\* whether it may be saved and the re-anchor it owes.
LeftBy(old, state, scope) ==
    /\ state \in SessionState
    /\ state.drift = old.drift
    /\ state.discourse = old.discourse
    /\ state.noSave <=> old.noSave \/ scope = "session"

LEMMA OpenIs ==
    ASSUME NEW old \in SessionState, NEW plan
    PROVE  LeftBy(old, Open(old, plan), plan.scope) /\ Open(old, plan).reanchor = old.reanchor
BY DEF LeftBy, Open, SessionState

LEMMA ChosenIs ==
    ASSUME NEW old \in SessionState, NEW plan
    PROVE  /\ LeftBy(old, Chosen(old, plan), plan.scope)
           /\ Chosen(old, plan).reanchor = StillDue(old.reanchor, plan.fragments)
<1> DEFINE state == Open(old, plan)
           chosen == Chosen(old, plan)
<1>1. LeftBy(old, state, plan.scope) /\ state.reanchor = old.reanchor
  BY OpenIs
<1>2. chosen = [state EXCEPT !.reanchor = StillDue(state.reanchor, plan.fragments)]
  BY DEF Chosen
<1> HIDE DEF state, chosen
<1>3. state \in SessionState /\ StillDue(state.reanchor, plan.fragments) \in BOOLEAN
  BY <1>1 DEF LeftBy, StillDue, SessionState
<1>4. /\ chosen \in SessionState /\ chosen.drift = state.drift
      /\ chosen.noSave = state.noSave /\ chosen.discourse = state.discourse
      /\ chosen.reanchor = StillDue(state.reanchor, plan.fragments)
  BY <1>2, <1>3 DEF SessionState
<1>5. LeftBy(old, chosen, plan.scope) /\ chosen.reanchor = StillDue(old.reanchor, plan.fragments)
  BY <1>1, <1>4 DEF LeftBy
<1> QED BY <1>5 DEF chosen

\* A runtime whose session s is this state.
InState(r, s, state) ==
    [sessions |-> With(r.sessions, s, state), pending |-> r.pending,
     completed |-> r.completed, owners |-> r.owners]

LEMMA OpenedIs ==
    ASSUME NEW r, Live(r), NEW s, NEW input
    PROVE  Opened(r, s, input) = InState(r, s, Open(Session(r, s), PlanOf(r, s, input)))
<1> DEFINE state == Open(Session(r, s), PlanOf(r, s, input))
<1>1. Opened(r, s, input) = [r EXCEPT !.sessions = With(r.sessions, s, state)]
  BY DEF Opened, Open, Live
<1> HIDE DEF state
<1>2. Opened(r, s, input) = InState(r, s, state)
  BY <1>1 DEF Live, InState
<1> QED BY <1>2 DEF state

LEMMA SelectedIs ==
    ASSUME NEW r, Live(r), NEW s, NEW input
    PROVE  Selected(r, s, input) = InState(r, s, Chosen(Session(r, s), PlanOf(r, s, input)))
<1> DEFINE plan == PlanOf(r, s, input)
           opened == Opened(r, s, input)
           state == Open(Session(r, s), plan)
           chosen == Chosen(Session(r, s), plan)
           due == StillDue(state.reanchor, plan.fragments)
<1>1. opened = InState(r, s, state)
  BY OpenedIs
<1>2. Selected(r, s, input) =
         [opened EXCEPT !.sessions =
             [opened.sessions EXCEPT ![s] =
                 [opened.sessions[s] EXCEPT !.reanchor = StillDue(@, plan.fragments)]]]
  BY <1>1 DEF Selected, InState
<1>3. chosen = [state EXCEPT !.reanchor = StillDue(@, plan.fragments)]
  BY DEF Chosen
<1> HIDE DEF plan, opened, state, chosen
<1>4. opened.sessions = With(r.sessions, s, state) /\ opened.sessions[s] = state
  <2>1. opened.sessions = With(r.sessions, s, state)
    BY <1>1 DEF InState
  <2>2. With(r.sessions, s, state)[s] = state
    BY DEF With
  <2> QED BY <2>1, <2>2
<1>5. [opened.sessions EXCEPT ![s] = chosen] = With(r.sessions, s, chosen)
  BY <1>4 DEF With
<1>6. Selected(r, s, input) = [opened EXCEPT !.sessions = With(r.sessions, s, chosen)]
  BY <1>2, <1>3, <1>4, <1>5
<1>7. Selected(r, s, input) = InState(r, s, chosen)
  BY <1>1, <1>6 DEF InState
<1> QED BY <1>7 DEF chosen, plan

\* What a turn that is prepared is.
Begun(s, plan) ==
    [session |-> s, mode |-> plan.mode, scope |-> plan.scope, save |-> plan.save,
     failed |-> plan.failed, fragments |-> plan.fragments, chars |-> plan.chars]

LEMMA BegunType ==
    ASSUME NEW s \in Sessions, NEW plan \in PlanType
    PROVE  Begun(s, plan) \in PendingTurn
BY DEF Begun, PlanType, PendingTurn

LEMMA PrepareIs ==
    ASSUME NEW r, Live(r), NEW t, NEW s, NEW input
    PROVE  LET plan == PlanOf(r, s, input)
           IN Prepare(r, t, s, input) =
                 [sessions |-> With(r.sessions, s, Chosen(Session(r, s), plan)),
                  pending |-> With(r.pending, t, Begun(s, plan)),
                  completed |-> r.completed, owners |-> With(r.owners, t, s)]
<1> DEFINE plan == PlanOf(r, s, input)
           chosen == Chosen(Session(r, s), plan)
           turn == Begun(s, plan)
           selected == Selected(r, s, input)
<1>1. selected = InState(r, s, chosen)
  BY SelectedIs
<1>2. Prepare(r, t, s, input) =
         [selected EXCEPT !.pending = With(selected.pending, t, turn),
                          !.owners = With(selected.owners, t, s)]
  BY DEF Prepare, Begun
<1> HIDE DEF selected, chosen, turn
<1>3. Prepare(r, t, s, input) =
         [sessions |-> With(r.sessions, s, chosen), pending |-> With(r.pending, t, turn),
          completed |-> r.completed, owners |-> With(r.owners, t, s)]
  BY <1>1, <1>2 DEF InState
<1> QED BY <1>3 DEF chosen, turn

\* A runtime stays sound when a session is opened or changed by a turn, ...
LEMMA OpeningKeepsSound ==
    ASSUME NEW r, Sound(r), NEW s \in Sessions, NEW state, NEW scope,
           s \in DOMAIN r.sessions \/ Cardinality(DOMAIN r.sessions) < SessionLimit,
           LeftBy(Session(r, s), state, scope),
           NEW next, next = InState(r, s, state)
    PROVE  Sound(next) /\ DOMAIN next.sessions = DOMAIN r.sessions \cup {s}
<1>1. /\ next.sessions = With(r.sessions, s, state)
      /\ next.pending = r.pending /\ next.completed = r.completed /\ next.owners = r.owners
      /\ next = [sessions |-> next.sessions, pending |-> next.pending,
                 completed |-> next.completed, owners |-> next.owners]
  BY DEF InState
<1>2. /\ DOMAIN next.sessions = DOMAIN r.sessions \cup {s}
      /\ next.sessions[s] = state
      /\ \A z \in DOMAIN r.sessions \ {s} : next.sessions[z] = r.sessions[z]
  BY <1>1 DEF With
<1>3. state \in SessionState /\ Sane(state.drift) /\ Len(state.discourse) <= DiscourseLimit
  BY SessionKept DEF LeftBy
<1>4. Live(next)
  <2>1. next.sessions \in Partial(Sessions, SessionState)
    BY <1>1, <1>3, WithFun DEF Sound, Live
  <2> QED BY <1>1, <1>2, <2>1 DEF Sound, Live
<1>5. SessionsKept(next)
  <2>1. SessionLimit \in Nat
    BY RuntimeAssumption
  <2>2. IsFiniteSet(DOMAIN r.sessions) /\ Cardinality(DOMAIN r.sessions) <= SessionLimit
    BY DEF Sound, SessionsKept
  <2> DEFINE before == DOMAIN r.sessions
  <2>3. IsFiniteSet(before) /\ Cardinality(before) <= SessionLimit
        /\ (s \in before \/ Cardinality(before) < SessionLimit)
    BY <2>2
  <2>4. DOMAIN next.sessions = before \cup {s}
    BY <1>2
  <2> HIDE DEF before
  <2>5. IsFiniteSet(before \cup {s}) /\ Cardinality(before \cup {s}) <= SessionLimit
    BY <2>1, <2>3, OneMore
  <2> QED BY <1>2, <1>3, <2>4, <2>5 DEF Sound, SessionsKept
<1>6. TurnsKept(next) /\ ReceiptsKept(next)
  BY <1>1 DEF Sound, TurnsKept, ReceiptsKept
<1>7. Owned(next)
  BY <1>1, <1>2 DEF Sound, Owned, Has, Places
<1> QED BY <1>2, <1>4, <1>5, <1>6, <1>7 DEF Sound

\* ... and when a turn of one of its sessions begins.
LEMMA BeginningKeepsSound ==
    ASSUME NEW r, Sound(r), NEW t \in Turns, NEW s \in DOMAIN r.sessions,
           t \notin DOMAIN r.owners, Cardinality(DOMAIN r.pending) < ActiveTurnLimit,
           NEW turn \in PendingTurn, turn.session = s,
           NEW next, next = [sessions |-> r.sessions, pending |-> With(r.pending, t, turn),
                             completed |-> r.completed, owners |-> With(r.owners, t, s)]
    PROVE  Sound(next)
<1>1. /\ next.sessions = r.sessions
      /\ next.pending = With(r.pending, t, turn)
      /\ next.completed = r.completed
      /\ next.owners = With(r.owners, t, s)
      /\ next = [sessions |-> next.sessions, pending |-> next.pending,
                 completed |-> next.completed, owners |-> next.owners]
  OBVIOUS
<1>2. /\ DOMAIN next.pending = DOMAIN r.pending \cup {t}
      /\ next.pending[t] = turn
      /\ \A z \in DOMAIN r.pending \ {t} : next.pending[z] = r.pending[z]
  BY <1>1 DEF With
<1>3. /\ DOMAIN next.owners = DOMAIN r.owners \cup {t}
      /\ next.owners[t] = s
      /\ \A z \in DOMAIN r.owners \ {t} : next.owners[z] = r.owners[z]
      /\ next.owners = [z \in DOMAIN next.owners |-> next.owners[z]]
  BY <1>1 DEF With
<1>4. Live(next)
  <2>1. next.pending \in Partial(Turns, PendingTurn)
    BY <1>1, WithFun DEF Sound, Live
  <2> QED BY <1>1, <1>2, <2>1 DEF Sound, Live
<1>5. TurnsKept(next)
  <2>1. ActiveTurnLimit \in Nat
    BY RuntimeAssumption
  <2>2. IsFiniteSet(DOMAIN r.pending) /\ Cardinality(DOMAIN r.pending) <= ActiveTurnLimit
    BY DEF Sound, TurnsKept
  <2> DEFINE before == DOMAIN r.pending
  <2>3. IsFiniteSet(before) /\ Cardinality(before) <= ActiveTurnLimit
        /\ (t \in before \/ Cardinality(before) < ActiveTurnLimit)
    BY <2>2
  <2>4. DOMAIN next.pending = before \cup {t}
    BY <1>2
  <2> HIDE DEF before
  <2>5. IsFiniteSet(before \cup {t}) /\ Cardinality(before \cup {t}) <= ActiveTurnLimit
    BY <2>1, <2>3, OneMore
  <2> QED BY <2>4, <2>5 DEF TurnsKept
<1>6. SessionsKept(next) /\ ReceiptsKept(next)
  BY <1>1 DEF Sound, SessionsKept, ReceiptsKept
<1>7. Owned(next)
  <2>1. \A z : Has(next, z) <=> Has(r, z)
    BY <1>1 DEF Has, Places
  <2>2. ~Has(r, t) /\ t \notin DOMAIN r.pending
    BY DEF Sound, Owned
  <2>3. \A z : z \in DOMAIN next.owners <=> z \in DOMAIN next.pending \/ Has(next, z)
    BY <1>2, <1>3, <2>1 DEF Sound, Owned
  <2>4. \A z \in DOMAIN next.pending :
           ~Has(next, z) /\ next.owners[z] = next.pending[z].session
    BY <1>2, <1>3, <2>1, <2>2 DEF Sound, Owned
  <2>5. \A i \in Places(r) :
           /\ Has(r, r.completed[i].turn)
           /\ next.owners[r.completed[i].turn] = r.completed[i].session
    BY <1>3, <2>2 DEF Sound, Owned, Has
  <2>6. \A z \in DOMAIN next.owners : next.owners[z] \in DOMAIN next.sessions
    BY <1>1, <1>3 DEF Sound, Owned
  <2> QED BY <1>1, <1>3, <2>3, <2>4, <2>5, <2>6 DEF Owned, Places
<1> QED BY <1>4, <1>5, <1>6, <1>7 DEF Sound

\* What prepare makes of a runtime, ...
PreparedAs(next, r, t, s, plan) ==
    /\ LeftBy(Session(r, s), Chosen(Session(r, s), plan), plan.scope)
    /\ next.sessions = With(r.sessions, s, Chosen(Session(r, s), plan))
    /\ next.pending = With(r.pending, t, Begun(s, plan))
    /\ next.completed = r.completed

\* ... or leaves behind when it raises.
RaisedAs(next, r, s, scope) ==
    /\ \E state : LeftBy(Session(r, s), state, scope)
                  /\ next.sessions = With(r.sessions, s, state)
    /\ next.pending = r.pending
    /\ next.completed = r.completed

\* prepare: a turn begins, ...
LEMMA PrepareKeepsSound ==
    ASSUME NEW r, Sound(r), NEW t \in Turns, NEW s \in Sessions, NEW input \in TurnInputs,
           CanPrepare(r, t, s),
           NEW next, next = Prepare(r, t, s, input)
    PROVE  Sound(next) /\ PreparedAs(next, r, t, s, PlanOf(r, s, input))
<1> DEFINE plan == PlanOf(r, s, input)
           chosen == Chosen(Session(r, s), plan)
           turn == Begun(s, plan)
           opened == InState(r, s, chosen)
<1>1. next = [sessions |-> With(r.sessions, s, chosen), pending |-> With(r.pending, t, turn),
              completed |-> r.completed, owners |-> With(r.owners, t, s)]
  BY PrepareIs DEF Sound
<1>2. LeftBy(Session(r, s), chosen, plan.scope)
  BY SessionKept, ChosenIs
<1>3. turn \in PendingTurn /\ turn.session = s
  <2>1. plan \in PlanType
    BY PlanGiven
  <2> HIDE DEF plan
  <2>2. turn \in PendingTurn
    BY <2>1, BegunType
  <2> QED BY <2>2 DEF Begun
<1> HIDE DEF chosen, turn, plan
<1>4. Sound(opened) /\ s \in DOMAIN opened.sessions
  <2>1. s \in DOMAIN r.sessions \/ Cardinality(DOMAIN r.sessions) < SessionLimit
    BY DEF CanPrepare
  <2> HIDE DEF opened
  <2>2. opened = InState(r, s, chosen)
    BY DEF opened
  <2> QED BY <1>2, <2>1, <2>2, OpeningKeepsSound
<1>5. t \notin DOMAIN opened.owners /\ Cardinality(DOMAIN opened.pending) < ActiveTurnLimit
  BY DEF CanPrepare, InState
<1>6. next = [sessions |-> opened.sessions, pending |-> With(opened.pending, t, turn),
              completed |-> opened.completed, owners |-> With(opened.owners, t, s)]
  BY <1>1 DEF InState
<1> HIDE DEF opened
<1>7. Sound(next)
  BY <1>3, <1>4, <1>5, <1>6, BeginningKeepsSound
<1> QED BY <1>1, <1>2, <1>7 DEF PreparedAs, chosen, turn, plan

\* ... or it raises with the session opened.
LEMMA RaisesKeepsSound ==
    ASSUME NEW r, Sound(r), NEW t \in Turns, NEW s \in Sessions, NEW input \in TurnInputs,
           CanPrepare(r, t, s),
           NEW next \in {Opened(r, s, input), Selected(r, s, input)}
    PROVE  Sound(next) /\ RaisedAs(next, r, s, PlanOf(r, s, input).scope)
<1> DEFINE plan == PlanOf(r, s, input)
           old == Session(r, s)
<1>1. old \in SessionState
  BY SessionKept
<1>2. \E state : LeftBy(old, state, plan.scope) /\ next = InState(r, s, state)
  <2>1. CASE next = Opened(r, s, input)
    <3>1. next = InState(r, s, Open(old, plan))
      BY <2>1, OpenedIs DEF Sound
    <3> HIDE DEF plan, old
    <3> QED BY <1>1, <3>1, OpenIs
  <2>2. CASE next = Selected(r, s, input)
    <3>1. next = InState(r, s, Chosen(old, plan))
      BY <2>2, SelectedIs DEF Sound
    <3> HIDE DEF plan, old
    <3> QED BY <1>1, <3>1, ChosenIs
  <2> QED BY <2>1, <2>2
<1>3. PICK state : LeftBy(old, state, plan.scope) /\ next = InState(r, s, state)
  BY <1>2
<1>4. Sound(next)
  BY <1>3, OpeningKeepsSound DEF CanPrepare
<1>5. next.sessions = With(r.sessions, s, state) /\ next.pending = r.pending
      /\ next.completed = r.completed
  BY <1>3 DEF InState
<1> QED BY <1>3, <1>4, <1>5 DEF RaisedAs

-----------------------------------------------------------------------------
(* observe *)

LEMMA RememberedType ==
    ASSUME NEW history \in Seq(Chains), NEW chain \in Chains
    PROVE  Remembered(history, chain) \in Seq(Chains)
<1>1. CASE Len(history) < DiscourseLimit
  BY <1>1 DEF Remembered
<1>2. CASE ~(Len(history) < DiscourseLimit)
  <2>1. history # <<>>
    BY <1>2, DiscourseAssumption
  <2>2. Tail(history) \in Seq(Chains)
    BY <2>1
  <2> QED BY <1>2, <2>2 DEF Remembered
<1> QED BY <1>1, <1>2

LEMMA RememberedLength ==
    ASSUME NEW history \in Seq(Chains), NEW chain \in Chains, Len(history) <= DiscourseLimit
    PROVE  Len(Remembered(history, chain)) <= DiscourseLimit
<1>1. Len(history) \in Nat /\ DiscourseLimit \in Nat \ {0}
  BY DiscourseAssumption
<1>2. CASE Len(history) < DiscourseLimit
  BY <1>1, <1>2 DEF Remembered
<1>3. CASE ~(Len(history) < DiscourseLimit)
  <2>1. history # <<>> /\ Len(history) = DiscourseLimit
    BY <1>1, <1>3
  <2>2. Tail(history) \in Seq(Chains) /\ Len(Tail(history)) = DiscourseLimit - 1
    BY <1>1, <2>1
  <2> QED BY <1>1, <1>3, <2>2 DEF Remembered
<1> QED BY <1>2, <1>3

\* What an observed turn leaves of its session.
Left(state, outcome) == Heard(Probed(state, outcome.probe), outcome.chain)

LEMMA ProbedKept ==
    ASSUME NEW state \in SessionState, Sane(state.drift), NEW probe
    PROVE  LET next == Probed(state, probe)
           IN /\ next \in SessionState
              /\ Sane(next.drift)
              /\ next.noSave = state.noSave
              /\ next.discourse = state.discourse
              /\ state.reanchor => next.reanchor
              /\ probe \in Probes => next.drift = Evaluate(state.drift, probe)
              /\ probe \notin Probes => next.drift = state.drift
<1>1. CASE probe \in Probes
  <2>1. Sane(Evaluate(state.drift, probe)) /\ Evaluate(state.drift, probe) \in Sentinel
    BY <1>1, EvaluateSane DEF Sane
  <2>2. Anchors(state.drift, probe) \in BOOLEAN
    BY DEF Anchors
  <2>3. Probed(state, probe) = [state EXCEPT !.drift = Evaluate(state.drift, probe),
                          !.reanchor = state.reanchor \/ Anchors(state.drift, probe)]
    BY <1>1 DEF Probed
  <2> QED BY <1>1, <2>1, <2>2, <2>3 DEF SessionState
<1>2. CASE probe \notin Probes
  BY <1>2 DEF Probed
<1> QED BY <1>1, <1>2

LEMMA LeftKept ==
    ASSUME NEW state \in SessionState, Sane(state.drift), Len(state.discourse) <= DiscourseLimit,
           NEW outcome \in Outcome
    PROVE  LET next == Left(state, outcome)
               probe == outcome.probe
           IN /\ next \in SessionState
              /\ Sane(next.drift) /\ Len(next.discourse) <= DiscourseLimit
              /\ next.noSave = state.noSave
              /\ state.reanchor => next.reanchor
              /\ probe \in Probes => next.drift = Evaluate(state.drift, probe)
              /\ probe \notin Probes => next.drift = state.drift
<1> DEFINE probed == Probed(state, outcome.probe)
           next == Left(state, outcome)
<1>1. /\ probed \in SessionState
      /\ Sane(probed.drift)
      /\ probed.noSave = state.noSave
      /\ probed.discourse = state.discourse
      /\ state.reanchor => probed.reanchor
      /\ outcome.probe \in Probes => probed.drift = Evaluate(state.drift, outcome.probe)
      /\ outcome.probe \notin Probes => probed.drift = state.drift
  BY ProbedKept
<1>2. outcome.chain \in Chains \cup {None}
  BY DEF Outcome
<1>3. next = Heard(probed, outcome.chain)
  BY DEF Left
<1> HIDE DEF probed, next
<1>4. /\ next \in SessionState
      /\ Len(next.discourse) <= DiscourseLimit
      /\ next.drift = probed.drift
      /\ next.noSave = probed.noSave
      /\ next.reanchor = probed.reanchor
  <2>1. CASE outcome.chain = None
    BY <1>1, <1>3, <2>1 DEF Heard
  <2>2. CASE outcome.chain # None
    <3>1. probed.discourse \in Seq(Chains) /\ outcome.chain \in Chains
      BY <1>1, <1>2, <2>2 DEF SessionState
    <3>2. Remembered(probed.discourse, outcome.chain) \in Seq(Chains)
      BY <3>1, RememberedType
    <3>3. Len(Remembered(probed.discourse, outcome.chain)) <= DiscourseLimit
      BY <1>1, <3>1, RememberedLength
    <3>4. next = [probed EXCEPT !.discourse = Remembered(probed.discourse, outcome.chain)]
      BY <1>3, <2>2 DEF Heard
    <3> QED BY <1>1, <3>2, <3>3, <3>4 DEF SessionState
  <2> QED BY <2>1, <2>2
<1>5. /\ next \in SessionState
      /\ Sane(next.drift) /\ Len(next.discourse) <= DiscourseLimit
      /\ next.noSave = state.noSave
      /\ state.reanchor => next.reanchor
      /\ outcome.probe \in Probes => next.drift = Evaluate(state.drift, outcome.probe)
      /\ outcome.probe \notin Probes => next.drift = state.drift
  BY <1>1, <1>4
<1> QED BY <1>5 DEF next

\* The receipts that a runtime keeps when it adds one: all, or all but the
\* first.
Room(r) == IF Len(r.completed) < ActiveTurnLimit THEN r.completed ELSE Tail(r.completed)
Spared(r) == IF Len(r.completed) < ActiveTurnLimit THEN {} ELSE {r.completed[1].turn}

\* The receipts that are left have the turns that are not spared.
LEMMA RoomFacts ==
    ASSUME NEW r, Sound(r)
    PROVE  /\ Room(r) \in Seq(Receipt) /\ Len(Room(r)) < ActiveTurnLimit /\ OneReceipt(Room(r))
           /\ \A i \in 1..Len(Room(r)) :
                 /\ Room(r)[i].turn \notin Spared(r)
                 /\ \E j \in Places(r) : Room(r)[i] = r.completed[j]
           /\ \A j \in Places(r) : r.completed[j].turn \notin Spared(r)
                 => \E i \in 1..Len(Room(r)) : Room(r)[i] = r.completed[j]
           /\ \A z \in Spared(r) : Has(r, z)
<1> DEFINE completed == r.completed
           n == Len(completed)
           room == Room(r)
<1>1. completed \in Seq(Receipt) /\ n \in Nat /\ n <= ActiveTurnLimit
      /\ ActiveTurnLimit \in Nat \ {0} /\ OneReceipt(completed)
  BY RuntimeAssumption DEF Sound, ReceiptsKept
<1>2. CASE n < ActiveTurnLimit
  BY <1>1, <1>2 DEF Room, Spared, Places
<1>3. CASE ~(n < ActiveTurnLimit)
  <2>1. room = Tail(completed) /\ Spared(r) = {completed[1].turn}
    BY <1>3 DEF Room, Spared
  <2> HIDE DEF room
  <2>2. completed # <<>> /\ n = ActiveTurnLimit /\ 1 \in 1..n
    BY <1>1, <1>3
  <2>3. /\ room \in Seq(Receipt) /\ Len(room) = n - 1
        /\ \A i \in 1..n - 1 : room[i] = completed[i + 1]
    BY <1>1, <2>1, <2>2
  <2>4. \A i \in 1..n - 1 : i + 1 \in 1..n /\ i + 1 # 1
    BY <1>1
  <2>5. \A i, j \in 1..n : completed[i].turn = completed[j].turn => i = j
    BY <1>1 DEF OneReceipt
  <2>6. \A j \in 1..n : j = 1 \/ (j - 1 \in 1..n - 1 /\ j = (j - 1) + 1)
    BY <1>1
  <2> HIDE DEF completed, n
  <2>7. \A i \in 1..n - 1 : room[i].turn # completed[1].turn
    BY <2>2, <2>3, <2>4, <2>5
  <2>8. OneReceipt(room)
    <3>1. \A i, j \in 1..n - 1 : room[i].turn = room[j].turn => i + 1 = j + 1
      BY <2>3, <2>4, <2>5
    <3> QED BY <2>3, <3>1 DEF OneReceipt
  <2>9. \A i \in 1..n - 1 : \E j \in 1..n : room[i] = completed[j]
    BY <2>3, <2>4
  <2>10. \A j \in 1..n : completed[j].turn # completed[1].turn
            => \E i \in 1..n - 1 : room[i] = completed[j]
    BY <2>3, <2>6
  <2>11. Len(room) < ActiveTurnLimit
    BY <1>1, <2>2, <2>3
  <2>12. \A z \in Spared(r) : Has(r, z)
    BY <2>1, <2>2 DEF Has, Places, completed, n
  <2> QED BY <2>1, <2>3, <2>7, <2>8, <2>9, <2>10, <2>11, <2>12 DEF Places, completed, n, room
<1> QED BY <1>2, <1>3

\* The receipt of a turn.
ReceiptOf(r, t, writes, failed) ==
    [turn |-> t, session |-> r.pending[t].session, writes |-> writes, failed |-> failed]

\* What observe makes of a runtime: the turn leaves, its session with it, and
\* its receipt comes last.
ObservedAs(next, r, t, outcome, receipt) ==
    /\ next.sessions = [r.sessions EXCEPT ![r.pending[t].session] =
                           Left(r.sessions[r.pending[t].session], outcome)]
    /\ next.pending = Without(r.pending, {t})
    /\ next.completed = Append(Room(r), receipt)
    /\ t \in Completed(next)
    /\ \A i \in DOMAIN next.completed :
          \/ next.completed[i] = receipt
          \/ \E j \in Places(r) : next.completed[i] = r.completed[j]

\* observe: a turn gets its receipt, and one that is kept no longer may lose it.
LEMMA ObserveKeepsSound ==
    ASSUME NEW r, Sound(r), NEW t \in DOMAIN r.pending, NEW outcome \in Outcome,
           NEW added, IsFiniteSet(added), NEW raised \in BOOLEAN,
           NEW next, next = Observe(r, t, outcome, added, raised)
    PROVE  /\ Sound(next)
           /\ ObservedAs(next, r, t, outcome,
                         ReceiptOf(r, t, Cardinality(added), Failed(r, t, outcome, raised)))
<1> PICK s : s = r.pending[t].session
  OBVIOUS
<1> DEFINE receipt == ReceiptOf(r, t, Cardinality(added), Failed(r, t, outcome, raised))
           left == Left(r.sessions[s], outcome)
<1>1. /\ next.sessions = [r.sessions EXCEPT ![s] = left]
      /\ next.pending = Without(r.pending, {t})
      /\ next.completed = Append(Room(r), receipt)
      /\ next.owners = Without(r.owners, Spared(r))
      /\ next = [sessions |-> next.sessions, pending |-> next.pending,
                 completed |-> next.completed, owners |-> next.owners]
  <2> DEFINE room == IF Len(r.completed) < ActiveTurnLimit THEN r ELSE Evict(r)
  <2>1. /\ room.completed = Room(r)
        /\ room.owners = Without(r.owners, Spared(r))
        /\ room.pending = r.pending
    <3>1. CASE Len(r.completed) < ActiveTurnLimit
      BY <3>1, WithoutIsSame DEF Room, Spared, Sound, Owned
    <3>2. CASE ~(Len(r.completed) < ActiveTurnLimit)
      <4>1. room = Evict(r)
        BY <3>2
      <4>2. r.completed \in Seq(Receipt)
        BY DEF Sound, ReceiptsKept
      <4>3. Head(r.completed) = r.completed[1]
        BY <3>2, <4>2, RuntimeAssumption
      <4> HIDE DEF room
      <4> QED BY <3>2, <4>1, <4>3 DEF Evict, Room, Spared
    <3> QED BY <3>1, <3>2
  <2> HIDE DEF room
  <2>2. next = [sessions |-> [r.sessions EXCEPT ![s] =
                                Heard(Probed(@, outcome.probe), outcome.chain)],
                pending |-> Without(room.pending, {t}),
                completed |-> Append(room.completed, receipt),
                owners |-> room.owners]
    BY DEF Observe, ReceiptOf, room, receipt
  <2> HIDE DEF receipt, left
  <2>3. next.completed = Append(Room(r), receipt)
    BY <2>1, <2>2
  <2>4. next.sessions = [r.sessions EXCEPT ![s] = left]
    BY <2>2 DEF Left, left
  <2>5. next.pending = Without(r.pending, {t}) /\ next.owners = Without(r.owners, Spared(r))
    BY <2>1, <2>2
  <2>6. next = [sessions |-> next.sessions, pending |-> next.pending,
                completed |-> next.completed, owners |-> next.owners]
    BY <2>2
  <2> QED BY <2>3, <2>4, <2>5, <2>6
<1>2. t \in Turns /\ r.pending[t] \in PendingTurn /\ s \in Sessions /\ s \in DOMAIN r.sessions
  <2>1. t \in Turns /\ r.pending[t] \in PendingTurn
    BY PartialFun DEF Sound, Live
  <2> QED BY <2>1 DEF Sound, Live, PendingTurn
<1>3. receipt \in Receipt /\ receipt.turn = t /\ receipt.session = s
  <2>1. Cardinality(added) \in Nat
    BY FS_CardinalityType
  <2>2. Failed(r, t, outcome, raised) \in BOOLEAN
    BY DEF Failed
  <2> QED BY <1>2, <2>1, <2>2 DEF ReceiptOf, Receipt
<1>4. left \in SessionState /\ Sane(left.drift) /\ Len(left.discourse) <= DiscourseLimit
  <2>1. /\ r.sessions[s] \in SessionState /\ Sane(r.sessions[s].drift)
        /\ Len(r.sessions[s].discourse) <= DiscourseLimit
    BY <1>2, PartialFun DEF Sound, Live, SessionsKept
  <2> QED BY <2>1, LeftKept
<1> HIDE DEF receipt, left
<1>5. /\ DOMAIN next.sessions = DOMAIN r.sessions /\ next.sessions[s] = left
      /\ \A z \in DOMAIN r.sessions \ {s} : next.sessions[z] = r.sessions[z]
  BY <1>1, <1>2
<1>6. /\ DOMAIN next.pending = DOMAIN r.pending \ {t}
      /\ \A z \in DOMAIN next.pending : next.pending[z] = r.pending[z]
  BY <1>1 DEF Without
<1>7. /\ DOMAIN next.owners = DOMAIN r.owners \ Spared(r)
      /\ \A z \in DOMAIN next.owners : next.owners[z] = r.owners[z]
      /\ next.owners = [z \in DOMAIN next.owners |-> next.owners[z]]
  BY <1>1 DEF Without
<1>8. Live(next)
  <2>1. next.pending \in Partial(Turns, PendingTurn)
    BY <1>1, WithoutFun DEF Sound, Live
  <2>2. next.sessions \in Partial(Sessions, SessionState)
    <3>1. DOMAIN r.sessions \subseteq Sessions /\ r.sessions \in [DOMAIN r.sessions -> SessionState]
      BY PartialFun DEF Sound, Live
    <3>2. next.sessions \in [DOMAIN r.sessions -> SessionState]
      BY <1>1, <1>2, <1>4, <3>1
    <3> QED BY <1>5, <3>1, <3>2 DEF Partial
  <2> QED BY <1>1, <1>5, <1>6, <2>1, <2>2 DEF Sound, Live
<1>9. SessionsKept(next)
  BY <1>4, <1>5 DEF Sound, SessionsKept
<1>10. TurnsKept(next)
  BY <1>6, NoMore, RuntimeAssumption DEF Sound, TurnsKept
<1> DEFINE n == Len(Room(r))
           after == next.completed
<1>11. /\ Room(r) \in Seq(Receipt) /\ n \in Nat /\ n < ActiveTurnLimit /\ OneReceipt(Room(r))
       /\ \A i \in 1..n : /\ Room(r)[i].turn \notin Spared(r)
                           /\ \E j \in Places(r) : Room(r)[i] = r.completed[j]
       /\ \A j \in Places(r) : r.completed[j].turn \notin Spared(r)
             => \E i \in 1..n : Room(r)[i] = r.completed[j]
       /\ \A z \in Spared(r) : Has(r, z)
  BY RoomFacts
<1>12. /\ after \in Seq(Receipt) /\ Len(after) = n + 1 /\ after[n + 1] = receipt
       /\ \A i \in 1..n : after[i] = Room(r)[i] /\ i \in 1..n + 1
       /\ n + 1 \in 1..n + 1 /\ \A i \in 1..n + 1 : i \in 1..n \/ i = n + 1
       /\ DOMAIN after = 1..n + 1
  BY <1>1, <1>3, <1>11
<1>13. t \notin Spared(r) /\ ~Has(r, t)
  BY <1>11 DEF Sound, Owned
<1>14. \A i \in 1..n : after[i].turn # t
  BY <1>11, <1>12, <1>13 DEF Has
<1>15. ReceiptsKept(next)
  <2>1. Len(after) <= ActiveTurnLimit
    BY <1>11, <1>12, RuntimeAssumption
  <2>2. \A i, j \in 1..n + 1 : after[i].turn = after[j].turn => i = j
    <3>1. \A i, j \in 1..n : after[i].turn = after[j].turn => i = j
      BY <1>11, <1>12 DEF OneReceipt
    <3> HIDE DEF n, after
    <3> QED BY <1>3, <1>12, <1>14, <3>1
  <2> QED BY <1>12, <2>1, <2>2 DEF ReceiptsKept, OneReceipt
<1>16. \A z : Has(next, z) <=> z = t \/ (Has(r, z) /\ z \notin Spared(r))
  <2>1. ASSUME NEW z, Has(next, z) PROVE z = t \/ (Has(r, z) /\ z \notin Spared(r))
    <3>1. PICK i \in 1..n + 1 : after[i].turn = z
      BY <1>12, <2>1 DEF Has, Places
    <3>2. CASE i = n + 1
      BY <1>3, <1>12, <3>1, <3>2
    <3>3. CASE i \in 1..n
      BY <1>11, <1>12, <3>1, <3>3 DEF Has
    <3> HIDE DEF n, after
    <3> QED BY <1>12, <3>2, <3>3
  <2>2. Has(next, t)
    BY <1>3, <1>12 DEF Has, Places
  <2>3. ASSUME NEW z, Has(r, z), z \notin Spared(r) PROVE Has(next, z)
    <3>1. PICK j \in Places(r) : r.completed[j].turn = z
      BY <2>3 DEF Has
    <3>2. PICK i \in 1..n : Room(r)[i] = r.completed[j]
      BY <1>11, <2>3, <3>1
    <3> QED BY <1>12, <3>1, <3>2 DEF Has, Places
  <2> QED BY <2>1, <2>2, <2>3
<1>17. \A i \in 1..n + 1 :
          \/ after[i] = receipt
          \/ \E j \in Places(r) : after[i] = r.completed[j]
  <2> HIDE DEF n, after
  <2> QED BY <1>11, <1>12
<1>18. Owned(next)
  <2>1. \A z : z \in DOMAIN next.owners <=> z \in DOMAIN next.pending \/ Has(next, z)
    <3>1. \A z : z \in DOMAIN r.owners <=> z \in DOMAIN r.pending \/ Has(r, z)
      BY DEF Sound, Owned
    <3>2. \A z \in Spared(r) : z \notin DOMAIN r.pending
      BY <1>11 DEF Sound, Owned
    <3> QED BY <1>6, <1>7, <1>13, <1>16, <3>1, <3>2
  <2>2. \A z \in DOMAIN next.pending :
           ~Has(next, z) /\ next.owners[z] = next.pending[z].session
    <3>1. \A z \in DOMAIN r.pending : ~Has(r, z) /\ r.owners[z] = r.pending[z].session
      BY DEF Sound, Owned
    <3> QED BY <1>6, <1>7, <1>16, <2>1, <3>1
  <2>3. \A i \in 1..n + 1 : next.owners[after[i].turn] = after[i].session
    <3>1. next.owners[t] = s
      BY <1>7, <1>13 DEF Sound, Owned
    <3>2. ASSUME NEW i \in 1..n PROVE next.owners[after[i].turn] = after[i].session
      <4>1. PICK j \in Places(r) : after[i] = r.completed[j]
        BY <1>11, <1>12
      <4>2. after[i].turn \notin Spared(r) /\ Has(r, after[i].turn)
        BY <1>11, <1>12, <4>1 DEF Has
      <4>3. after[i].turn \in DOMAIN next.owners
        BY <1>7, <4>2 DEF Sound, Owned
      <4> HIDE DEF after
      <4> QED BY <1>7, <4>1, <4>3 DEF Sound, Owned
    <3> HIDE DEF n, after
    <3> QED BY <1>3, <1>12, <3>1, <3>2
  <2>4. \A z \in DOMAIN next.owners : next.owners[z] \in DOMAIN next.sessions
    BY <1>5, <1>7 DEF Sound, Owned
  <2> QED BY <1>7, <1>12, <2>1, <2>2, <2>3, <2>4 DEF Owned, Places
<1>19. t \in Completed(next)
  BY <1>3, <1>12 DEF Completed, TurnsOf
<1>20. Sound(next)
  BY <1>8, <1>9, <1>10, <1>15, <1>18 DEF Sound
<1> QED BY <1>1, <1>12, <1>17, <1>19, <1>20 DEF ObservedAs, left, receipt

-----------------------------------------------------------------------------
(* finalize *)

\* What finalize leaves.
FinalizedAs(next, r, s) ==
    /\ next.sessions = Without(r.sessions, {s})
    /\ next.pending = Without(r.pending, {t \in DOMAIN r.pending : r.pending[t].session = s})
    /\ \A i \in DOMAIN next.completed :
          \E j \in Places(r) : next.completed[i] = r.completed[j]

\* finalize: a session is over, with its turns and its receipts.
LEMMA FinalizeKeepsSound ==
    ASSUME NEW r, Sound(r), NEW s,
           NEW next, next = Finalize(r, s)
    PROVE  Sound(next) /\ FinalizedAs(next, r, s)
<1> DEFINE completed == r.completed
           n == Len(completed)
           kept == KeptReceipts(completed, s)
           k == Len(kept)
           pending == {t \in DOMAIN r.pending : r.pending[t].session = s}
           dropped == pending \cup (Completed(r) \ TurnsOf(kept))
<1>1. /\ next.sessions = Without(r.sessions, {s})
      /\ next.pending = Without(r.pending, pending)
      /\ next.completed = kept
      /\ next.owners = Without(r.owners, dropped)
      /\ next = [sessions |-> next.sessions, pending |-> next.pending,
                 completed |-> next.completed, owners |-> next.owners]
  BY DEF Finalize
<1>2. completed \in Seq(Receipt) /\ OneReceipt(completed) /\ n \in Nat /\ n <= ActiveTurnLimit
      /\ DOMAIN completed = 1..n
  BY DEF Sound, ReceiptsKept
<1>3. KeptOf(kept, completed, s, n)
  <2> HIDE DEF completed
  <2> QED BY <1>2, KeptFacts
<1> HIDE DEF kept
<1>4. /\ kept \in Seq(Receipt) /\ k <= n /\ k \in Nat /\ DOMAIN kept = 1..k
      /\ \A i \in 1..k : kept[i].session # s /\ \E j \in 1..n : kept[i] = completed[j]
      /\ \A j \in 1..n : completed[j].session # s => \E i \in 1..k : kept[i] = completed[j]
      /\ \A i, j \in 1..k : kept[i].turn = kept[j].turn => i = j
  <2>1. kept \in Seq(Receipt) /\ Len(kept) \in Nat /\ DOMAIN kept = 1..Len(kept)
    BY <1>3 DEF KeptOf
  <2> QED BY <1>3, <2>1 DEF KeptOf
<1> HIDE DEF k
<1>5. ReceiptsKept(next)
  <2>1. k <= ActiveTurnLimit
    <3> HIDE DEF n, completed
    <3> QED BY <1>2, <1>4, RuntimeAssumption
  <2>2. OneReceipt(kept)
    BY <1>4 DEF OneReceipt, k
  <2> QED BY <1>1, <1>4, <2>1, <2>2 DEF ReceiptsKept, k
<1>6. /\ DOMAIN next.sessions = DOMAIN r.sessions \ {s}
      /\ \A z \in DOMAIN next.sessions : next.sessions[z] = r.sessions[z]
  BY <1>1 DEF Without
<1>7. /\ DOMAIN next.pending = DOMAIN r.pending \ pending
      /\ \A z \in DOMAIN next.pending :
            next.pending[z] = r.pending[z] /\ r.pending[z].session # s
  BY <1>1 DEF Without
<1>8. /\ DOMAIN next.owners = DOMAIN r.owners \ dropped
      /\ \A z \in DOMAIN next.owners : next.owners[z] = r.owners[z]
      /\ next.owners = [z \in DOMAIN next.owners |-> next.owners[z]]
  BY <1>1 DEF Without
<1>9. Live(next)
  <2>1. /\ next.sessions \in Partial(Sessions, SessionState)
        /\ next.pending \in Partial(Turns, PendingTurn)
    BY <1>1, WithoutFun DEF Sound, Live
  <2>2. \A t \in DOMAIN next.pending : next.pending[t].session \in DOMAIN next.sessions
    BY <1>6, <1>7 DEF Sound, Live
  <2> QED BY <1>1, <2>1, <2>2 DEF Live
<1>10. SessionsKept(next) /\ TurnsKept(next)
  <2>1. SessionLimit \in Nat /\ ActiveTurnLimit \in Nat
    BY RuntimeAssumption
  <2>2. /\ IsFiniteSet(DOMAIN next.sessions)
        /\ Cardinality(DOMAIN next.sessions) <= SessionLimit
    BY <1>6, <2>1, NoMore DEF Sound, SessionsKept
  <2>3. TurnsKept(next)
    BY <1>7, <2>1, NoMore DEF Sound, TurnsKept
  <2> QED BY <1>6, <2>2, <2>3 DEF Sound, SessionsKept
<1>11. \A z : Has(next, z) <=> \E i \in 1..k : kept[i].turn = z
  BY <1>1 DEF Has, Places, k
<1>12. \A z : Has(r, z) <=> z \in Completed(r)
  BY <1>2 DEF Has, Places, Completed, TurnsOf
<1>13. \A z : z \in TurnsOf(kept) <=> Has(next, z)
  BY <1>4, <1>11 DEF TurnsOf
<1>14. \A z : Has(next, z) => Has(r, z)
  <2>1. \A i \in 1..k : \E j \in 1..n : kept[i].turn = completed[j].turn
    BY <1>4
  <2> HIDE DEF n, completed
  <2>2. ASSUME NEW z, Has(next, z) PROVE Has(r, z)
    <3>1. PICK i \in 1..k : kept[i].turn = z
      BY <1>11, <2>2
    <3>2. PICK j \in 1..n : z = completed[j].turn
      BY <2>1, <3>1
    <3> QED BY <3>2 DEF Has, Places, n, completed
  <2> QED BY <2>2
<1>15. \A z : z \in DOMAIN next.owners <=> z \in DOMAIN next.pending \/ Has(next, z)
  <2>1. \A z : z \in DOMAIN r.owners <=> z \in DOMAIN r.pending \/ Has(r, z)
    BY DEF Sound, Owned
  <2>2. \A z \in DOMAIN r.pending : ~Has(r, z)
    BY DEF Sound, Owned
  <2>3. \A z : z \in dropped <=> z \in pending \/ (Has(r, z) /\ ~Has(next, z))
    BY <1>12, <1>13
  <2> HIDE DEF dropped
  <2> QED BY <1>7, <1>8, <1>14, <2>1, <2>2, <2>3
<1>16. \A z \in DOMAIN next.pending :
          ~Has(next, z) /\ next.owners[z] = next.pending[z].session
  <2>1. \A z \in DOMAIN r.pending : ~Has(r, z) /\ r.owners[z] = r.pending[z].session
    BY DEF Sound, Owned
  <2> QED BY <1>7, <1>8, <1>14, <1>15, <2>1
<1>17. \A i \in 1..k : next.owners[kept[i].turn] = kept[i].session /\ kept[i].session # s
  <2> SUFFICES ASSUME NEW i \in 1..k
               PROVE  next.owners[kept[i].turn] = kept[i].session /\ kept[i].session # s
    OBVIOUS
  <2>1. PICK j \in 1..n : kept[i] = completed[j]
    BY <1>4
  <2>2. r.owners[kept[i].turn] = kept[i].session
    BY <2>1 DEF Sound, Owned, Places
  <2>3. kept[i].turn \in DOMAIN next.owners
    BY <1>11, <1>15
  <2> QED BY <1>4, <1>8, <2>2, <2>3
<1>18. \A z \in DOMAIN next.owners : next.owners[z] \in DOMAIN next.sessions
  <2> SUFFICES ASSUME NEW z \in DOMAIN next.owners
               PROVE  next.owners[z] \in DOMAIN r.sessions /\ next.owners[z] # s
    BY <1>6
  <2>1. next.owners[z] \in DOMAIN r.sessions
    BY <1>8 DEF Sound, Owned
  <2>2. CASE z \in DOMAIN next.pending
    BY <1>7, <1>16, <2>1, <2>2
  <2>3. CASE Has(next, z)
    <3>1. PICK i \in 1..k : kept[i].turn = z
      BY <1>11, <2>3
    <3> QED BY <1>17, <2>1, <3>1
  <2> QED BY <1>15, <2>2, <2>3
<1>19. Owned(next)
  BY <1>1, <1>8, <1>15, <1>16, <1>17, <1>18 DEF Owned, Places, k
<1>20. \A i \in DOMAIN next.completed :
          \E j \in Places(r) : next.completed[i] = r.completed[j]
  BY <1>1, <1>4 DEF Places
<1> QED BY <1>1, <1>5, <1>9, <1>10, <1>19, <1>20 DEF Sound, FinalizedAs
=============================================================================
