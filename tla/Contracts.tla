------------------------------ MODULE Contracts ------------------------------
(***************************************************************************)
(* The types that the parts of a turn exchange                             *)
(* (src/humanlike_agent/models.py).                                        *)
(***************************************************************************)
EXTENDS Naturals

Modes == {"unknown", "social", "support", "task", "research", "creative", "repair",
          "high_stakes", "meta_truth", "reflective"}
SocialMoves == {"neutral", "connect", "acknowledge", "listen", "answer", "ask", "challenge",
                "revise", "create", "act", "refuse", "wait"}

\* Who may remember a turn: "item" and "session" forbid it for the turn and for
\* its session.
Scopes == {"default", "item", "session"}
ScopeRank(scope) == CASE scope = "default" -> 0 [] scope = "item" -> 1 [] scope = "session" -> 2
StrictestScope(scopes) ==
    CHOOSE scope \in scopes : \A other \in scopes : ScopeRank(scope) >= ScopeRank(other)

\* The characters a response may have.
Budgets == 1..8000
NoBudget == 0
Constraints == {"no_persistence", "no_advice", "brief", "no_list", "no_quotes",
                "explicit_save"}

\* How sure the router is, and of what, steers nothing and is left out.
RouteDecision == [mode : Modes, move : SocialMoves, budget : Nat, candidates : Nat,
                  constraints : SUBSET Constraints, scope : Scopes]
=============================================================================
