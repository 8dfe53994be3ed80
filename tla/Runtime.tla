------------------------------- MODULE Runtime -------------------------------
(***************************************************************************)
(* A host that drives a HumanlikeRuntime (src/humanlike_agent/runtime.py)  *)
(* itself: it prepares turns, reports their outcomes late, twice or never, *)
(* and finalizes sessions, from any number of threads.  memory is the      *)
(* durable memory it configured.                                           *)
(***************************************************************************)
EXTENDS RuntimeState

VARIABLES runtime,
          memory,      \* the records remembered
          fenced,      \* history: sessions told not to save since they began
          sinceAnchor, \* history: a session's probes since its last re-anchor request
          hasty        \* history: sessions re-anchored before the cooldown was over

ghosts == <<fenced, sinceAnchor, hasty>>
vars == <<runtime, memory, ghosts>>

Init ==
    /\ runtime = NewRuntime
    /\ memory = {}
    /\ fenced = {} /\ hasty = {}
    /\ sinceAnchor = [s \in Sessions |-> CooldownTurns]

Fence(s, input) ==
    fenced' = IF PlanOf(runtime, s, input).scope = "session" THEN fenced \cup {s} ELSE fenced

PrepareTurn(t, s) ==
    \E input \in TurnInputs :
        /\ CanPrepare(runtime, t, s)
        /\ PlanOf(runtime, s, input).accepted
        /\ runtime' = Prepare(runtime, t, s, input)
        /\ Fence(s, input)
        /\ UNCHANGED <<memory, sinceAnchor, hasty>>

\* A clock that is not one raises before the context is chosen, a text that
\* cannot be encoded after it; either way there is no turn.
PrepareRaises(t, s) ==
    \E input \in TurnInputs :
        /\ CanPrepare(runtime, t, s)
        /\ runtime' \in {Opened(runtime, s, input), Selected(runtime, s, input)}
        /\ Fence(s, input)
        /\ UNCHANGED <<memory, sinceAnchor, hasty>>

\* lost: the records the memory raised for; landed: those of them it kept.
ObserveTurn(t, s) ==
    \E outcome \in Outcomes :
        LET written == Writes(runtime, t, outcome)
            asks == outcome.probe \in Probes
                    /\ Anchors(runtime.sessions[s].drift, outcome.probe)
        IN /\ CanObserve(runtime, t, s)
           /\ \E lost \in SUBSET written : \E landed \in SUBSET lost :
                 /\ runtime' = Observe(runtime, t, outcome,
                                       (written \ lost) \ memory, lost # {})
                 /\ memory' = memory \cup (written \ lost) \cup landed
           /\ sinceAnchor' = [sinceAnchor EXCEPT ![s] =
                 IF asks THEN 0
                 ELSE IF outcome.probe \in Probes /\ @ < CooldownTurns THEN @ + 1 ELSE @]
           /\ hasty' = IF asks /\ sinceAnchor[s] < CooldownTurns
                       THEN hasty \cup {s} ELSE hasty
           /\ UNCHANGED fenced

FinalizeSession(s) ==
    /\ runtime' = Finalize(runtime, s)
    /\ fenced' = fenced \ {s}
    /\ sinceAnchor' = [sinceAnchor EXCEPT ![s] = CooldownTurns]
    /\ UNCHANGED <<memory, hasty>>

Next ==
    \/ \E t \in Turns, s \in Sessions :
          PrepareTurn(t, s) \/ PrepareRaises(t, s) \/ ObserveTurn(t, s)
    \/ \E s \in Sessions : FinalizeSession(s)

Spec == Init /\ [][Next]_vars

-----------------------------------------------------------------------------
\* The turns in progress whose id was not known before.
NewTurns == DOMAIN runtime'.pending \ DOMAIN runtime.owners

TypeOK ==
    /\ DOMAIN runtime.sessions \subseteq Sessions
    /\ \A s \in DOMAIN runtime.sessions :
          /\ runtime.sessions[s] \in SessionState
          /\ Len(runtime.sessions[s].discourse) <= DiscourseLimit
    /\ Cardinality(DOMAIN runtime.sessions) <= SessionLimit
    /\ DOMAIN runtime.pending \subseteq Turns
    /\ \A t \in DOMAIN runtime.pending : runtime.pending[t] \in PendingTurn
    /\ Cardinality(DOMAIN runtime.pending) <= ActiveTurnLimit
    /\ runtime.completed \in Seq(Receipt)
    /\ Len(runtime.completed) <= ActiveTurnLimit
    /\ memory \subseteq Record

(***************************************************************************)
(* The map of owners holds exactly the turns in progress and the receipts  *)
(* still kept, under their sessions, and every such session exists: a turn *)
(* id is refused as long as it is known and no longer, and an outcome      *)
(* never finds its session gone.  All maps stay within their limits.       *)
(***************************************************************************)
OwnersMatch ==
    /\ TypeOK
    /\ DOMAIN runtime.owners = DOMAIN runtime.pending \cup Completed(runtime)
    /\ DOMAIN runtime.pending \cap Completed(runtime) = {}
    /\ \A t \in DOMAIN runtime.pending : runtime.owners[t] = runtime.pending[t].session
    /\ \A i \in DOMAIN runtime.completed :
          runtime.owners[runtime.completed[i].turn] = runtime.completed[i].session
    /\ \A t \in DOMAIN runtime.owners : runtime.owners[t] \in DOMAIN runtime.sessions

(***************************************************************************)
(* The checks that a drift decision and a drift snapshot make of           *)
(* themselves never refuse one, whatever is probed next: no request to     *)
(* re-anchor is lost in the middle of evaluate.                            *)
(***************************************************************************)
DriftNeverRefused ==
    \A s \in DOMAIN runtime.sessions :
        LET drift == runtime.sessions[s].drift
        IN /\ SnapshotAccepted(drift)
           /\ \A probe \in Probes : DecisionAccepted(drift, probe)

\* Between two requests to re-anchor a session lie CooldownTurns probes of it.
AnchorsSpaced == hasty = {}

(***************************************************************************)
(* Once a turn of a session was routed as one that must not be saved, no   *)
(* record of that session is written until the session is finalized: not   *)
(* for the turns prepared before it, nor for those reported with another   *)
(* session, nor when preparing that turn raised.                           *)
(***************************************************************************)
NoSaveHonoured ==
    [][\A record \in memory' \ memory : record.session \notin fenced]_vars

\* A receipt that is kept never changes and is its turn's only one, whatever
\* is reported or prepared meanwhile.
ReceiptsStand ==
    [][\A i \in DOMAIN runtime.completed : \A j \in DOMAIN runtime'.completed :
          runtime.completed[i].turn = runtime'.completed[j].turn
              => runtime.completed[i] = runtime'.completed[j]]_vars

\* A receipt without an error counts every record that its turn added to the
\* memory, and one with an error never counts more than were added.
ReceiptsHonest ==
    [][\A i \in DOMAIN runtime'.completed :
          LET receipt == runtime'.completed[i]
              added == Cardinality(memory' \ memory)
          IN receipt.turn \in DOMAIN runtime.pending
                => /\ receipt.writes <= added
                   /\ ~receipt.failed => receipt.writes = added]_vars

(***************************************************************************)
(* Whatever else is in a context, and however little room there is, it     *)
(* tells the model the truth contract, not to persist what may not be      *)
(* saved, and what an urgent turn needs; a turn that is urgent or may not  *)
(* be saved is never given what the memory knows; and it is no longer than *)
(* its limit.                                                              *)
(***************************************************************************)
ContextKept ==
    [][\A t \in NewTurns :
          LET turn == runtime'.pending[t]
          IN /\ turn.chars <= Limit(turn.mode)
             /\ "truth" \in turn.fragments
             /\ turn.scope # "default" => "no_persistence" \in turn.fragments
             /\ turn.mode = "high_stakes" => "safety" \in turn.fragments
             /\ turn.scope # "default" \/ turn.mode = "high_stakes"
                   => "memory" \notin turn.fragments]_vars

\* Preparing a turn of s raised once a context with the re-anchor was chosen.
RaisedWithAnchor(s) ==
    \E input \in TurnInputs :
        /\ "reanchor" \in PlanOf(runtime, s, input).fragments
        /\ runtime' = Selected(runtime, s, input)

(***************************************************************************)
(* A re-anchor that drift asked for stays due, through turns that have no  *)
(* room for it, components that fail and turns whose preparing raised      *)
(* before their context was chosen, until a turn of its session carries    *)
(* it.  One exception: it was in the context that prepare had chosen when  *)
(* it raised.                                                              *)
(***************************************************************************)
AnchorsDelivered ==
    [][\A s \in DOMAIN runtime.sessions \cap DOMAIN runtime'.sessions :
          runtime.sessions[s].reanchor /\ ~runtime'.sessions[s].reanchor
              => \/ \E t \in NewTurns :
                       /\ runtime'.pending[t].session = s
                       /\ "reanchor" \in runtime'.pending[t].fragments
                 \/ RaisedWithAnchor(s)]_vars
=============================================================================
